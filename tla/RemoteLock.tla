------------------------------ MODULE RemoteLock ------------------------------
(***************************************************************************)
(* The lock providers that several processes share, for one key: the SQL,  *)
(* MongoDB and Redis adapters (src/src/adapters/{sql,mongo,redis}).  A     *)
(* call travels to the store and its answer travels back; in between other *)
(* calls reach the store, time passes, and either half may be lost.  SQL   *)
(* and MongoDB compare expiries with the clock of the caller, Redis with   *)
(* its own.                                                                 *)
(***************************************************************************)
EXTENDS LockClients

CONSTANTS Backend,   \* the adapters to consider
          Lane,      \* calls that can be in flight at once
          NoRow,     \* the key is absent; no token, client or row
          MaxSkew    \* how far two clocks may be apart

ASSUME BackendAssumption == Backend \subseteq {"sql", "mongo", "redis"}
Row == [token : Token, expiresAt : Int]

ASSUME NoRowAssumption == NoRow \notin Token \cup Client /\ NoRow \notin Row
ASSUME SkewAssumption == MaxSkew \in Nat

VARIABLES backend, skew,   \* fixed from the start: the adapter, each client's clock error
          row,             \* the row, document or key, or NoRow
          call,            \* the calls in flight
          granted,         \* tokens their client was given
          late             \* how long the answer that told `known` was under way

world == <<backend, skew, now>>
clients == <<owner, granted, gaveUp, known, late>>
vars == <<world, row, call, clients>>

Idle == [op |-> "none", pc |-> "none"]

Minted == {t \in Token : owner[t] # NoRow}

\* Date.now() of the client that minted t.
Clock(t) == now + skew[owner[t]]

Init ==
  /\ backend \in Backend
  /\ skew \in [Client -> 0..MaxSkew]
  /\ now = 0
  /\ row = NoRow
  /\ call = [l \in Lane |-> Idle]
  /\ owner = [t \in Token |-> NoRow]
  /\ granted = {} /\ gaveUp = {}
  /\ known = [t \in Token |-> 0] /\ late = [t \in Token |-> 0]

\* What the store itself still honours of the row at instant i.
LiveAt(i) == row # NoRow /\ row.expiresAt >= i

Goto(l, p) == call' = [call EXCEPT ![l].pc = p]

\* A call leaves the client with the clock it read.
Call(l, operation, p, t, i) ==
  /\ call[l].op = "none"
  /\ call' = [call EXCEPT ![l] = [op |-> operation, pc |-> p, token |-> t, at |-> i]]

Return(l) == call' = [call EXCEPT ![l] = Idle]

-----------------------------------------------------------------------------
(* acquire                                                                   *)

\* The token is minted and the clock read before anything is sent.
Acquire(l, c, t) ==
  /\ owner[t] = NoRow
  /\ owner' = [owner EXCEPT ![t] = c]
  /\ Call(l, "acquire", IF backend = "sql" THEN "sweep" ELSE "put", t, now + skew[c])
  /\ UNCHANGED <<world, row, granted, gaveUp, known, late>>

\* Mutant of Lapsed: stealable in the last millisecond of the lease.
LapsedEarly(i) == row # NoRow /\ row.expiresAt <= i

\* `expires_at < now`, with the caller's clock.
Lapsed(i) == row # NoRow /\ row.expiresAt < i

\* SQL: DELETE ... WHERE expires_at < now.
Sweep(l) ==
  /\ call[l].pc = "sweep"
  /\ row' = IF Lapsed(call[l].at) THEN NoRow ELSE row
  /\ Goto(l, "put")
  /\ UNCHANGED <<world, clients>>

\* Whether the statement that writes the row goes through: the SQL insert
\* needs the row to be gone, the MongoDB upsert gone or lapsed, SET NX gone or
\* expired by the server.
Vacant(l) ==
  \/ row = NoRow
  \/ backend = "mongo" /\ Lapsed(call[l].at)
  \/ backend = "redis" /\ ~LiveAt(now)

\* PX counts from when the server runs it; the other two store what they are sent.
Put(l) ==
  /\ call[l].pc = "put"
  /\ IF Vacant(l)
     THEN /\ row' = [token |-> call[l].token,
                     expiresAt |-> (IF backend = "redis" THEN now ELSE call[l].at) + TTL]
          /\ Goto(l, "won")
     ELSE /\ UNCHANGED row
          /\ IF backend = "sql" THEN Goto(l, "look") ELSE Return(l)
  /\ UNCHANGED <<world, clients>>

\* The SQL insert failed, or its answer was lost: SELECT, then null or a throw,
\* by whether the row is live.  The client has nothing to remember either way.
Look(l) ==
  /\ call[l].pc = "look"
  /\ Return(l)
  /\ UNCHANGED <<world, row, clients>>

\* The expiry handed out is counted from before the call, in all three.
Acquired(l) ==
  /\ call[l].pc = "won"
  /\ granted' = granted \cup {call[l].token}
  /\ known' = [known EXCEPT ![call[l].token] = call[l].at + TTL]
  /\ Return(l)
  /\ UNCHANGED <<world, row, owner, gaveUp, late>>

-----------------------------------------------------------------------------
(* renew                                                                     *)

\* The heartbeat is armed again only when the last renew was answered.
Renew(l, t) ==
  /\ t \in granted \ gaveUp
  /\ \A k \in Lane : call[k].op = "renew" => call[k].token # t
  /\ Call(l, "renew", "extend", t, Clock(t))
  /\ UNCHANGED <<world, row, clients>>

\* The instant an extension counts from.
Base(l) == IF backend = "redis" THEN now ELSE call[l].at

\* `WHERE token = ... AND expires_at >= now`; the script compares on the server.
Extendable(l) == LiveAt(Base(l)) /\ row.token = call[l].token

Extend(l) ==
  /\ call[l].pc = "extend"
  /\ row' = IF Extendable(l) THEN [row EXCEPT !.expiresAt = Base(l) + TTL] ELSE row
  /\ IF backend # "redis" THEN Goto(l, "read")
     ELSE IF Extendable(l) THEN call' = [call EXCEPT ![l].pc = "extended", ![l].at = now]
     ELSE Goto(l, "lost")
  /\ UNCHANGED <<world, clients>>

\* SQL and MongoDB read the row back instead of counting rows.
ReadBack(l) ==
  /\ call[l].pc = "read"
  /\ IF LiveAt(call[l].at) /\ row.token = call[l].token
     THEN call' = [call EXCEPT ![l].pc = "extended", ![l].at = row.expiresAt]
     ELSE Goto(l, "lost")
  /\ UNCHANGED <<world, row, clients>>

\* Redis computes the expiry when the answer arrives: `Date.now() + ttlMs`.
Renewed(l) ==
  /\ call[l].pc = "extended"
  /\ LET t == call[l].token
     IN IF backend = "redis"
        THEN /\ known' = [known EXCEPT ![t] = Clock(t) + TTL]
             /\ late' = [late EXCEPT ![t] = now - call[l].at]
        ELSE known' = [known EXCEPT ![t] = call[l].at] /\ UNCHANGED late
  /\ Return(l)
  /\ UNCHANGED <<world, row, owner, granted, gaveUp>>

\* null: the caller is told, and stops believing.
Lost(l) ==
  /\ call[l].pc = "lost"
  /\ gaveUp' = gaveUp \cup {call[l].token}
  /\ Return(l)
  /\ UNCHANGED <<world, row, owner, granted, known, late>>

-----------------------------------------------------------------------------
(* release, and what happens to any call                                     *)

\* The caller has given up before the statement leaves.
Release(l, t) ==
  /\ t \in granted \ gaveUp
  /\ Call(l, "release", "delete", t, 0)
  /\ gaveUp' = gaveUp \cup {t}
  /\ UNCHANGED <<world, row, owner, granted, known, late>>

\* Mutant of Deletes: matched on the owner alone.
DeletesOwner(t) == row # NoRow /\ owner[row.token] = owner[t]

Deletes(t) == row # NoRow /\ row.token = t

Delete(l) ==
  /\ call[l].pc = "delete"
  /\ row' = IF Deletes(call[l].token) THEN NoRow ELSE row
  /\ Return(l)
  /\ UNCHANGED <<world, clients>>

\* The call throws, its statement run or not.  An SQL insert that fails goes on with the SELECT.
Drop(l) ==
  /\ call[l].op # "none"
  /\ IF backend = "sql" /\ call[l].op = "acquire" /\ call[l].pc \in {"put", "won"}
     THEN Goto(l, "look")
     ELSE Return(l)
  /\ UNCHANGED <<world, row, clients>>

Tick ==
  /\ now < MaxNow
  /\ now' = now + 1
  /\ UNCHANGED <<backend, skew, row, call, clients>>

Step(l) ==
  \/ Sweep(l) \/ Put(l) \/ Look(l) \/ Acquired(l)
  \/ Extend(l) \/ ReadBack(l) \/ Renewed(l) \/ Lost(l)
  \/ Delete(l)

Next ==
  \/ \E l \in Lane, t \in Token :
       \/ \E c \in Client : Acquire(l, c, t)
       \/ Renew(l, t) \/ Release(l, t)
  \/ \E l \in Lane : Step(l) \/ Drop(l)
  \/ Tick

Spec == Init /\ [][Next]_vars

-----------------------------------------------------------------------------
(* Properties                                                               *)

TypeOK ==
  /\ backend \in Backend /\ skew \in [Client -> 0..MaxSkew] /\ now \in Nat
  /\ row \in Row \cup {NoRow}
  /\ owner \in [Token -> Client \cup {NoRow}]
  /\ granted \subseteq Minted /\ gaveUp \subseteq granted
  /\ known \in [Token -> Int] /\ late \in [Token -> Nat]

\* The holder has not given its token up and the expiry it was told has not
\* passed on its clock, less a margin.  The session looks at that expiry when
\* its renews fail (session.ts:544).
Believes(t, margin) == t \in granted \ gaveUp /\ known[t] - margin >= Clock(t)

\* By how much a holder may overrate its lease: callers' clocks differ, and a
\* Redis answer is counted from its arrival.
Margin(t) == IF backend = "redis" THEN late[t] ELSE MaxSkew

\* "hold the lock or do not run -- and never split-brain" (lock.ts:6-7): no
\* two tokens are believed in at once, up to that margin and no more, whatever
\* the delays and losses.
AtMostOneHolder ==
  /\ TypeOK
  /\ \A t, u \in Token : Believes(t, Margin(t)) /\ Believes(u, Margin(u)) => t = u

\* The same without a margin, where the clocks agree.
NeverSplitBrain ==
  \A t, u \in Token : Believes(t, 0) /\ Believes(u, 0) => t = u

\* A row that has not lapsed on any clock is displaced by a release that
\* presents its own token and by nothing else, and its expiry only grows:
\* "extend their lease" and "releasing someone else's lock is worse"
\* (redis/index.ts:150-168) do not happen.
LiveRowSurvives ==
  [][LiveAt(now + MaxSkew) =>
       \/ row' # NoRow /\ row'.token = row.token
          /\ row'.expiresAt >= row.expiresAt
       \/ row' = NoRow /\ row.token \in gaveUp]_vars
=============================================================================
