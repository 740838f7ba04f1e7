----------------------------- MODULE MCAuthStore -----------------------------
(* AuthStore for TLC.                                                         *)
EXTENDS AuthStore, TLC

CONSTANTS c1, c2, c3, k1, k2, k3

TwoLanes == {c1, c2}
ThreeLanes == {c1, c2, c3}
TwoKeys == {k1, k2}
ThreeKeys == {k1, k2, k3}
AllBackends == {"memory", "file", "sql", "redis", "mongo"}
OnlyRedis == {"redis"}
\* A plain name, and one that is encoded and, as a file, digested.
TwoNames == (k1 :> <<"pre", "-", "key", "-", "5">>) @@ (k2 :> <<"session", "-", "9", ":", "2">>)
ThreeNames == TwoNames @@ (k3 :> <<"sender", "-", "key", "-", "@", "a">>)
ShortId == <<"a">>
LongerId == <<"a", "b">>
OwnPrefix == <<"locks", ":">>
DefaultPrefix == <<"whatsmulti", ":", "lock", ":">>
\* The code's words, what an encoding is made of, and what the ids and names add.
Characters == {"whatsmulti", "creds", "meta", "pre", "key", "session", "sender", "lock", "locks", "-",
               "%", ":", "/", "@", "0", "2", "3", "4", "5", "9", "A", "F", "a", "b"}
\* The keys' names tell nothing apart once Naming has read them (WellNamed).
Interchangeable == Permutations(Lane) \cup Permutations(Signal)
=============================================================================
