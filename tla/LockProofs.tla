------------------------------ MODULE LockProofs ------------------------------
(***************************************************************************)
(* The lock providers.  RemoteLock for any processes, any number of calls  *)
(* in flight, any tokens, lease length, clock error and bound of the       *)
(* clock, and each adapter; LeaseLock, at the end, for any clients, tokens, *)
(* lease length and bound of the clock.  The two share their callers, and  *)
(* no theorem is about both.                                                *)
(***************************************************************************)
EXTENDS RemoteLock, LeaseLock, TLAPS

-----------------------------------------------------------------------------
(* The row covers what the clients believe                                  *)

Ops == {"acquire", "renew", "release"}
Pcs == {"sweep", "put", "look", "won", "extend", "read", "extended", "lost", "delete"}
Busy == [op : Ops, pc : Pcs, token : Token, at : Int]

\* Until when nobody may displace a row: SQL and MongoDB ask the clock of the
\* caller, which may be the most advanced one, Redis asks its own.
Limit == IF backend = "redis" THEN now ELSE now + MaxSkew

\* The row r is t's and lasts until e, or e is before the limit anyway.
Covered(r, limit, t, e) ==
  \/ r # NoRow /\ r.token = t /\ r.expiresAt >= e
  \/ e < limit

\* An instant i of the clock of t's client, on the clock that the expiry is compared with.
Corrected(t, i) == IF backend = "redis" THEN i - skew[owner[t]] ELSE i

\* The expiry a client was told, less the delay it was told with.
Told(t) == IF backend = "redis" THEN Corrected(t, known[t] - late[t]) ELSE known[t]

\* The expiry that the answer to a renew carries.
Extended(c) == IF backend = "redis" THEN c.at + TTL ELSE c.at

AcquireOK(c) ==
  /\ c.pc \in {"sweep", "put", "look", "won"}
  /\ c.token \in Minted /\ c.token \notin granted
  /\ c.at <= Clock(c.token)
  /\ c.pc = "sweep" => backend = "sql"
  /\ c.pc = "won" => Covered(row, Limit, c.token, Corrected(c.token, c.at) + TTL)

RenewOK(c) ==
  /\ c.pc \in {"extend", "read", "extended", "lost"}
  /\ c.token \in granted
  /\ c.pc \in {"extend", "read"} => c.at <= Clock(c.token)
  /\ c.pc = "read" => backend # "redis"
  /\ c.pc = "extend" /\ backend # "redis" /\ row # NoRow /\ row.token = c.token =>
       row.expiresAt <= c.at + TTL
  /\ c.pc = "extended" => c.token \in gaveUp \/ Covered(row, Limit, c.token, Extended(c))
  /\ c.pc = "extended" /\ backend = "redis" => c.at <= now

ReleaseOK(c) == c.pc = "delete" /\ c.token \in gaveUp

CallOK(c) ==
  /\ c \in Busy \cup {Idle}
  /\ c.op = "acquire" => AcquireOK(c)
  /\ c.op = "renew" => RenewOK(c)
  /\ c.op = "release" => ReleaseOK(c)

\* No token is acquired, or renewed, by two calls at once.
OneCall ==
  \A l, k \in Lane :
    call[l].op \in {"acquire", "renew"} /\ call[k].op = call[l].op /\ call[k].token = call[l].token
      => l = k

\* The row belongs to a token that was minted, and no lease is longer than TTL.
RowOK ==
  row # NoRow => /\ row.token \in Minted
                 /\ row.expiresAt <= TTL + (IF backend = "redis" THEN now ELSE Clock(row.token))

\* What a client was told is covered by the row.
ToldOK == \A t \in granted : t \in gaveUp \/ Covered(row, Limit, t, Told(t))

RemoteInv ==
  /\ TypeOK
  /\ call \in [Lane -> Busy \cup {Idle}]
  /\ \A l \in Lane : CallOK(call[l])
  /\ OneCall
  /\ RowOK
  /\ ToldOK

-----------------------------------------------------------------------------
(* Types                                                                    *)

LEMMA ClockTypes ==
  ASSUME TypeOK
  PROVE  /\ now \in Nat /\ MaxSkew \in Nat /\ TTL \in Nat /\ Minted \subseteq Token
         /\ Limit \in Int /\ now <= Limit /\ Limit <= now + MaxSkew
         /\ \A c \in Client : skew[c] \in Int /\ 0 <= skew[c] /\ skew[c] <= MaxSkew
         /\ \A t \in Minted : /\ owner[t] \in Client /\ skew[owner[t]] \in Int /\ Clock(t) \in Int
                              /\ now <= Clock(t) /\ Clock(t) <= now + MaxSkew
                              /\ Clock(t) = now + skew[owner[t]]
         /\ row # NoRow => row \in Row /\ row.token \in Token /\ row.expiresAt \in Int
         /\ \A t \in Token : known[t] \in Int /\ late[t] \in Nat
<1>1. /\ now \in Nat /\ MaxSkew \in Nat /\ TTL \in Nat /\ Minted \subseteq Token
      /\ \A c \in Client : skew[c] \in 0..MaxSkew
      /\ row # NoRow => row \in Row
      /\ \A t \in Token : known[t] \in Int /\ late[t] \in Nat
  BY TimeAssumption, SkewAssumption DEF TypeOK, Minted
<1>2. Limit \in Int /\ now <= Limit /\ Limit <= now + MaxSkew
  BY <1>1 DEF Limit
<1>3. \A t \in Minted : owner[t] \in Client
  BY DEF TypeOK, Minted
<1>4. \A t \in Minted : /\ skew[owner[t]] \in Int /\ Clock(t) \in Int
                        /\ now <= Clock(t) /\ Clock(t) <= now + MaxSkew
                        /\ Clock(t) = now + skew[owner[t]]
  BY <1>1, <1>3 DEF Clock
<1> QED BY <1>1, <1>2, <1>3, <1>4 DEF Row

\* The fields of a call, and what its place in the code says of its operation.
LEMMA CallFields ==
  ASSUME RemoteInv, NEW l \in Lane
  PROVE  /\ call[l].op = "none" => call[l] = Idle
         /\ call[l].op # "none" => /\ call[l] \in Busy /\ call[l].op \in Ops /\ call[l].pc \in Pcs
                                   /\ call[l].token \in Token /\ call[l].at \in Int
         /\ call[l].pc \in {"sweep", "put", "look", "won"} <=> call[l].op = "acquire"
         /\ call[l].pc \in {"extend", "read", "extended", "lost"} <=> call[l].op = "renew"
         /\ call[l].pc = "delete" <=> call[l].op = "release"
<1>1. CallOK(call[l]) /\ call[l] \in Busy \cup {Idle}
  BY DEF RemoteInv
<1>2. CASE call[l] = Idle
  <2>1. call[l].op = "none" /\ call[l].pc = "none"
    BY <1>2 DEF Idle
  <2> QED BY <1>2, <2>1
<1>3. CASE call[l] \in Busy
  <2>1. /\ call[l].op \in Ops /\ call[l].pc \in Pcs
        /\ call[l].token \in Token /\ call[l].at \in Int /\ call[l].op # "none"
    BY <1>3 DEF Busy, Ops
  <2> QED BY <1>1, <1>3, <2>1 DEF CallOK, AcquireOK, RenewOK, ReleaseOK, Ops
<1> QED BY <1>1, <1>2, <1>3

\* A call that goes on, at a new place.
LEMMA CallGoesOn ==
  ASSUME NEW c \in Busy, NEW p \in Pcs
  PROVE  /\ [c EXCEPT !.pc = p] \in Busy
         /\ [c EXCEPT !.pc = p].op = c.op /\ [c EXCEPT !.pc = p].pc = p
         /\ [c EXCEPT !.pc = p].token = c.token /\ [c EXCEPT !.pc = p].at = c.at
BY DEF Busy

-----------------------------------------------------------------------------
(* How the row moves                                                        *)

\* The row stays, is extended, is displaced after its limit, or is released.
RowMoves ==
  \/ row' = row
  \/ row # NoRow /\ row' # NoRow /\ row'.token = row.token /\ row'.expiresAt >= row.expiresAt
  \/ row = NoRow \/ row.expiresAt < Limit
  \/ row' = NoRow /\ row.token \in gaveUp

LEMMA SweepMoves ==
  ASSUME RemoteInv, NEW l \in Lane, Sweep(l) PROVE RowMoves /\ (row' = row \/ row' = NoRow)
<1>1. /\ call[l].op = "acquire" /\ AcquireOK(call[l]) /\ call[l].pc = "sweep" /\ call[l].at \in Int
      /\ TypeOK
  BY CallFields DEF Sweep, RemoteInv, CallOK
<1>2. call[l].at <= Limit
  BY <1>1, ClockTypes DEF AcquireOK, Limit
<1>3. CASE Lapsed(call[l].at)
  BY <1>1, <1>2, <1>3, ClockTypes DEF Lapsed, Sweep, RowMoves
<1>4. CASE ~Lapsed(call[l].at)
  BY <1>4 DEF Sweep, RowMoves
<1> QED BY <1>3, <1>4

LEMMA PutMoves ==
  ASSUME RemoteInv, NEW l \in Lane, Put(l), Vacant(l)
  PROVE  /\ row = NoRow \/ row.expiresAt < Limit
         /\ row' \in Row /\ row' # NoRow /\ row'.token = call[l].token
         /\ row'.expiresAt = (IF backend = "redis" THEN now ELSE call[l].at) + TTL
<1>1. /\ call[l].op = "acquire" /\ AcquireOK(call[l]) /\ call[l].token \in Token /\ call[l].at \in Int
      /\ TypeOK
  BY CallFields DEF Put, RemoteInv, CallOK
<1>2. row' = [token |-> call[l].token,
              expiresAt |-> (IF backend = "redis" THEN now ELSE call[l].at) + TTL]
  BY DEF Put
<1>3. row' \in Row
  BY <1>1, <1>2, ClockTypes DEF Row
<1>4. row' # NoRow
  BY <1>3, NoRowAssumption
<1>5. row = NoRow \/ row.expiresAt < Limit
  <2>1. CASE backend = "mongo" /\ Lapsed(call[l].at)
    BY <1>1, <2>1, ClockTypes DEF Lapsed, AcquireOK, Limit
  <2>2. CASE backend = "redis" /\ ~LiveAt(now)
    BY <1>1, <2>2, ClockTypes DEF LiveAt, Limit
  <2> QED BY <2>1, <2>2 DEF Vacant
<1> QED BY <1>2, <1>3, <1>4, <1>5

LEMMA ExtendMoves ==
  ASSUME RemoteInv, NEW l \in Lane, Extend(l), Extendable(l)
  PROVE  /\ row # NoRow /\ row.token = call[l].token
         /\ row' \in Row /\ row' # NoRow /\ row'.token = row.token
         /\ row'.expiresAt = Base(l) + TTL /\ row'.expiresAt >= row.expiresAt
<1>1. /\ call[l].op = "renew" /\ call[l].pc = "extend" /\ RenewOK(call[l]) /\ call[l].at \in Int
      /\ TypeOK /\ RowOK
  BY CallFields DEF Extend, RemoteInv, CallOK
<1>2. row # NoRow /\ row.token = call[l].token /\ row' = [row EXCEPT !.expiresAt = Base(l) + TTL]
  BY DEF Extend, Extendable, LiveAt
<1>3. row \in Row /\ row.expiresAt \in Int /\ Base(l) + TTL \in Int
  BY <1>1, <1>2, ClockTypes DEF Base
<1>4. row' \in Row /\ row'.token = row.token /\ row'.expiresAt = Base(l) + TTL
  BY <1>2, <1>3 DEF Row
<1>5. row' # NoRow
  BY <1>4, NoRowAssumption
<1>6. row.expiresAt <= Base(l) + TTL
  <2>1. CASE backend = "redis"
    <3>1. row.expiresAt <= TTL + now
      BY <1>1, <1>2, <2>1 DEF RowOK
    <3> QED BY <1>1, <1>3, <2>1, <3>1, ClockTypes DEF Base
  <2>2. CASE backend # "redis"
    BY <1>1, <1>2, <2>2 DEF RenewOK, Base
  <2> QED BY <2>1, <2>2
<1> QED BY <1>2, <1>3, <1>4, <1>5, <1>6

\* Whatever the step, it displaces no row before its limit but at a release.
LEMMA NextMoves ==
  ASSUME RemoteInv, [Next]_vars
  PROVE  RowMoves /\ row' \in Row \cup {NoRow}
<1>0. TypeOK /\ row \in Row \cup {NoRow}
  BY DEF RemoteInv, TypeOK
<1>1. ASSUME NEW l \in Lane, Sweep(l) PROVE RowMoves /\ row' \in Row \cup {NoRow}
  BY <1>0, <1>1, SweepMoves
<1>2. ASSUME NEW l \in Lane, Put(l) PROVE RowMoves /\ row' \in Row \cup {NoRow}
  <2>1. CASE Vacant(l)
    BY <1>2, <2>1, PutMoves DEF RowMoves
  <2>2. CASE ~Vacant(l)
    BY <1>0, <1>2, <2>2 DEF Put, RowMoves
  <2> QED BY <2>1, <2>2
<1>3. ASSUME NEW l \in Lane, Extend(l) PROVE RowMoves /\ row' \in Row \cup {NoRow}
  <2>1. CASE Extendable(l)
    BY <1>3, <2>1, ExtendMoves DEF RowMoves
  <2>2. CASE ~Extendable(l)
    BY <1>0, <1>3, <2>2 DEF Extend, RowMoves
  <2> QED BY <2>1, <2>2
<1>4. ASSUME NEW l \in Lane, Delete(l) PROVE RowMoves /\ row' \in Row \cup {NoRow}
  <2>1. call[l].token \in gaveUp
    BY <1>4, CallFields DEF Delete, RemoteInv, CallOK, ReleaseOK
  <2>2. CASE Deletes(call[l].token)
    BY <1>4, <2>1, <2>2 DEF Delete, Deletes, RowMoves
  <2>3. CASE ~Deletes(call[l].token)
    BY <1>0, <1>4, <2>3 DEF Delete, RowMoves
  <2> QED BY <2>2, <2>3
<1>5. CASE \/ \E l \in Lane, t \in Token : (\E c \in Client : Acquire(l, c, t)) \/ Renew(l, t) \/ Release(l, t)
           \/ \E l \in Lane : \/ Look(l) \/ Acquired(l) \/ ReadBack(l) \/ Renewed(l) \/ Lost(l) \/ Drop(l)
           \/ Tick \/ UNCHANGED vars
  <2>1. row' = row
    BY <1>5 DEF Acquire, Renew, Release, Look, Acquired, ReadBack, Renewed, Lost, Drop, Tick, vars
  <2> QED BY <1>0, <2>1 DEF RowMoves
<1> QED BY <1>1, <1>2, <1>3, <1>4, <1>5 DEF Next, Step

-----------------------------------------------------------------------------
(* What a step leaves alone                                                 *)

\* Time passes, tokens are minted, granted and given up, and never back.
WorldGoesOn ==
  /\ UNCHANGED <<backend, skew>> /\ now' \in Nat /\ now <= now'
  /\ \A t \in Minted : t \in Minted' /\ owner'[t] = owner[t]
  /\ granted \subseteq granted' /\ gaveUp \subseteq gaveUp'

LEMMA LimitGrows ==
  ASSUME TypeOK, WorldGoesOn
  PROVE  /\ Limit' \in Int /\ Limit <= Limit'
         /\ \A t \in Minted : /\ now' + skew'[owner'[t]] \in Int
                              /\ now + skew[owner[t]] <= now' + skew'[owner'[t]]
BY ClockTypes DEF WorldGoesOn, Limit

\* A token that was not given up stays covered.
LEMMA CoveredKept ==
  ASSUME TypeOK, WorldGoesOn, RowMoves, row' \in Row \cup {NoRow},
         NEW t, t \notin gaveUp, NEW e \in Int, Covered(row, Limit, t, e)
  PROVE  Covered(row', Limit', t, e)
<1>1. /\ Limit \in Int /\ Limit' \in Int /\ Limit <= Limit'
      /\ row # NoRow => row.expiresAt \in Int
      /\ row' # NoRow => row'.expiresAt \in Int
  BY LimitGrows, ClockTypes DEF Row
<1>2. CASE e < Limit
  BY <1>1, <1>2 DEF Covered
<1>3. CASE row # NoRow /\ row.token = t /\ row.expiresAt >= e
  BY <1>1, <1>3 DEF RowMoves, Covered
<1> QED BY <1>2, <1>3 DEF Covered

LEMMA CallKept ==
  ASSUME RemoteInv, WorldGoesOn, RowMoves, row' \in Row \cup {NoRow},
         NEW k \in Lane, call'[k] = call[k],
         call[k].op = "acquire" => call[k].token \notin granted',
         call[k].op = "renew" /\ row' # row /\ row' # NoRow => row'.token # call[k].token
  PROVE  CallOK(call[k])'
<1>0. TypeOK /\ CallOK(call[k]) /\ call[k] \in Busy \cup {Idle} /\ granted \subseteq Minted /\ gaveUp \subseteq granted
  BY DEF RemoteInv, TypeOK
<1>1. CASE call[k].op = "acquire"
  <2>1. /\ AcquireOK(call[k]) /\ call[k].token \in Minted /\ call[k].at \in Int
        /\ call[k].token \notin gaveUp
    BY <1>0, <1>1, CallFields DEF CallOK, AcquireOK
  <2>2. /\ call[k].token \in Minted' /\ owner'[call[k].token] = owner[call[k].token]
        /\ call[k].at <= now' + skew'[owner'[call[k].token]]
    BY <1>0, <2>1, LimitGrows, ClockTypes DEF WorldGoesOn, AcquireOK, Clock
  <2>3. ASSUME call[k].pc = "won"
        PROVE  Covered(row', Limit', call[k].token, Corrected(call[k].token, call[k].at)' + TTL)
    <3>1. Corrected(call[k].token, call[k].at)' = Corrected(call[k].token, call[k].at)
      BY <2>2 DEF WorldGoesOn, Corrected
    <3>2. Corrected(call[k].token, call[k].at) + TTL \in Int
      BY <1>0, <2>1, ClockTypes DEF Corrected
    <3> QED BY <1>0, <2>1, <2>3, <3>1, <3>2, CoveredKept DEF AcquireOK
  <2>4. AcquireOK(call[k])'
    BY <1>1, <2>1, <2>2, <2>3 DEF AcquireOK, WorldGoesOn, Clock
  <2> QED BY <1>0, <1>1, <2>4 DEF CallOK
<1>2. CASE call[k].op = "renew"
  <2>1. /\ RenewOK(call[k]) /\ call[k].token \in granted /\ call[k].token \in Minted
        /\ call[k].at \in Int
    BY <1>0, <1>2, CallFields DEF CallOK, RenewOK
  <2>2. /\ call[k].token \in granted'
        /\ call[k].pc \in {"extend", "read"} => call[k].at <= now' + skew'[owner'[call[k].token]]
    BY <1>0, <2>1, LimitGrows, ClockTypes DEF WorldGoesOn, RenewOK, Clock
  <2>3. call[k].pc = "extend" /\ backend # "redis" /\ row' # NoRow /\ row'.token = call[k].token =>
          row'.expiresAt <= call[k].at + TTL
    BY <1>2, <2>1 DEF RenewOK
  <2>4. ASSUME call[k].pc = "extended", call[k].token \notin gaveUp
        PROVE  Covered(row', Limit', call[k].token, Extended(call[k]))
    <3>1. Extended(call[k]) \in Int
      BY <1>0, <2>1, ClockTypes DEF Extended
    <3> QED BY <1>0, <2>1, <2>4, <3>1, CoveredKept DEF RenewOK
  <2>5. Extended(call[k])' = Extended(call[k])
    BY DEF Extended, WorldGoesOn
  <2>6. call[k].pc = "extended" /\ backend = "redis" => call[k].at <= now'
    BY <1>0, <2>1, ClockTypes DEF RenewOK, WorldGoesOn
  <2>7. RenewOK(call[k])'
    BY <1>2, <2>1, <2>2, <2>3, <2>4, <2>5, <2>6 DEF RenewOK, WorldGoesOn, Clock
  <2> QED BY <1>0, <1>2, <2>7 DEF CallOK
<1>3. CASE call[k].op = "release"
  BY <1>0, <1>3 DEF CallOK, ReleaseOK, WorldGoesOn
<1>4. CASE call[k].op \notin {"acquire", "renew", "release"}
  BY <1>0, <1>4 DEF CallOK
<1> QED BY <1>1, <1>2, <1>3, <1>4

\* The row and what was told, when no lease is granted or answered.
LEMMA ToldKept ==
  ASSUME RemoteInv, WorldGoesOn, RowMoves, row' \in Row \cup {NoRow},
         NEW t \in granted, t \notin gaveUp, known'[t] = known[t], late'[t] = late[t]
  PROVE  Covered(row', Limit', t, Told(t)')
<1>1. TypeOK /\ t \in Minted /\ t \in Token /\ Covered(row, Limit, t, Told(t))
  BY DEF RemoteInv, TypeOK, Minted, ToldOK
<1>2. Told(t)' = Told(t)
  BY <1>1 DEF Told, Corrected, WorldGoesOn
<1>3. Told(t) \in Int
  BY <1>1, ClockTypes DEF Told, Corrected
<1> QED BY <1>1, <1>2, <1>3, CoveredKept

-----------------------------------------------------------------------------
(* A step of one call                                                       *)

\* The call in lane l takes a step or ends; only its token is granted, and only
\* its token gets into the row.
LEMMA StepKeeps ==
  ASSUME RemoteInv, WorldGoesOn, RowMoves, row' \in Row \cup {NoRow}, NEW l \in Lane,
         NEW c \in Busy \cup {Idle}, call' = [call EXCEPT ![l] = c],
         CallOK(call[l])', OneCall', RowOK', TypeOK',
         \A t \in granted' \ granted : call[l].op = "acquire" /\ t = call[l].token,
         \/ row' = row \/ row' = NoRow
         \/ call[l].op \in {"acquire", "renew"} /\ row'.token = call[l].token,
         \A t \in granted' : \/ t \in gaveUp'
                             \/ t \in granted /\ known'[t] = known[t] /\ late'[t] = late[t]
                             \/ Covered(row', Limit', t, Told(t)')
  PROVE  RemoteInv'
<1>1. call' \in [Lane -> Busy \cup {Idle}]
  BY DEF RemoteInv
<1>2. ASSUME NEW k \in Lane PROVE CallOK(call[k])'
  <2>1. CASE k = l
    BY <2>1
  <2>2. CASE k # l
    <3>1. call'[k] = call[k]
      BY <2>2 DEF RemoteInv
    <3>2. /\ call[k].op = "acquire" => call[k].token \notin granted
          /\ call[k].op = "renew" => call[k].token \in granted
          /\ call[l].op = "acquire" => call[l].token \notin granted
      BY DEF RemoteInv, CallOK, AcquireOK, RenewOK
    <3>3. call[k].op \in {"acquire", "renew"} /\ call[l].op = call[k].op => call[l].token # call[k].token
      BY <2>2 DEF RemoteInv, OneCall
    <3>4. call[k].op = "acquire" => call[k].token \notin granted'
      BY <3>2, <3>3
    <3>5. call[k].op = "renew" /\ row' # row /\ row' # NoRow => row'.token # call[k].token
      BY <3>2, <3>3
    <3> QED BY <3>1, <3>4, <3>5, CallKept
  <2> QED BY <2>1, <2>2
<1>3. ToldOK'
  <2> SUFFICES ASSUME NEW t \in granted', t \notin gaveUp'
               PROVE  Covered(row', Limit', t, Told(t)')
    BY DEF ToldOK
  <2>1. CASE t \in granted /\ known'[t] = known[t] /\ late'[t] = late[t]
    <3>1. t \notin gaveUp
      BY DEF WorldGoesOn
    <3> QED BY <2>1, <3>1, ToldKept
  <2>2. CASE Covered(row', Limit', t, Told(t)')
    BY <2>2
  <2> QED BY <2>1, <2>2
<1> QED BY <1>1, <1>2, <1>3 DEF RemoteInv

\* A call that goes on with its token, or ends, starts no second one.
LEMMA OneCallKept ==
  ASSUME RemoteInv, NEW l \in Lane, NEW c \in Busy \cup {Idle}, call' = [call EXCEPT ![l] = c],
         c.op = "none" \/ (c.op = call[l].op /\ c.token = call[l].token)
  PROVE  OneCall'
<1> SUFFICES ASSUME NEW i \in Lane, NEW k \in Lane, call'[i].op \in {"acquire", "renew"},
                    call'[k].op = call'[i].op, call'[k].token = call'[i].token
             PROVE  i = k
  BY DEF OneCall
<1>1. call \in [Lane -> Busy \cup {Idle}] /\ OneCall
  BY DEF RemoteInv
<1>2. \A m \in Lane : m # l => call'[m] = call[m]
  BY <1>1
<1>3. call'[l] = c
  BY <1>1
<1>4. call[i].op = call'[i].op /\ call[k].op = call'[k].op
  BY <1>2, <1>3
<1>5. call[i].token = call'[i].token /\ call[k].token = call'[k].token
  BY <1>2, <1>3
<1> QED BY <1>1, <1>4, <1>5 DEF OneCall

\* Nothing but the calls and the row moves in a step of the store.
LEMMA StillWorld ==
  ASSUME TypeOK, UNCHANGED <<world, owner>>, granted \subseteq granted', gaveUp \subseteq gaveUp'
  PROVE  WorldGoesOn
BY ClockTypes DEF WorldGoesOn, world, Minted

\* A step that leaves the clients as they are has their types.
LEMMA TypesKept ==
  ASSUME TypeOK, UNCHANGED <<world, clients>>, row' \in Row \cup {NoRow}
  PROVE  TypeOK' /\ WorldGoesOn
<1>1. TypeOK'
  BY DEF TypeOK, world, clients, Minted
<1>2. WorldGoesOn
  BY StillWorld DEF world, clients
<1> QED BY <1>1, <1>2

LEMMA SweepKeeps == ASSUME RemoteInv, NEW l \in Lane, Sweep(l) PROVE RemoteInv'
<1>1. /\ call[l].op = "acquire" /\ AcquireOK(call[l]) /\ call[l].pc = "sweep" /\ call[l] \in Busy
      /\ TypeOK /\ RowOK /\ call \in [Lane -> Busy \cup {Idle}]
  BY CallFields DEF Sweep, RemoteInv, CallOK, Ops
<1>2. /\ UNCHANGED <<world, clients>> /\ RowMoves /\ (row' = row \/ row' = NoRow)
      /\ row' \in Row \cup {NoRow}
  BY <1>1, SweepMoves DEF Sweep, TypeOK
<1>3. TypeOK' /\ WorldGoesOn
  BY <1>1, <1>2, TypesKept
<1> DEFINE c == [call[l] EXCEPT !.pc = "put"]
<1>4. call' = [call EXCEPT ![l] = c]
  BY DEF Sweep, Goto
<1>5. c \in Busy /\ c.op = "acquire" /\ c.pc = "put" /\ c.token = call[l].token /\ c.at = call[l].at
  <2>1. "put" \in Pcs
    BY DEF Pcs
  <2> QED BY <1>1, <2>1, CallGoesOn
<1> HIDE DEF c
<1>6. call'[l] = c
  BY <1>1, <1>4
<1>7. CallOK(call[l])'
  BY <1>1, <1>2, <1>5, <1>6 DEF CallOK, AcquireOK, Minted, Clock, world, clients
<1>8. RowOK'
  BY <1>1, <1>2 DEF RowOK, Minted, Clock, world, clients
<1>9. OneCall'
  BY <1>1, <1>4, <1>5, OneCallKept
<1> QED BY <1>2, <1>3, <1>4, <1>5, <1>7, <1>8, <1>9, StepKeeps DEF clients

LEMMA IdleOK == ASSUME NEW l \in Lane, call'[l] = Idle PROVE CallOK(call[l])' /\ Idle.op = "none"
<1>1. Idle.op = "none"
  BY DEF Idle
<1> QED BY <1>1 DEF CallOK

LEMMA PutKeeps == ASSUME RemoteInv, NEW l \in Lane, Put(l) PROVE RemoteInv'
<1>1. /\ call[l].op = "acquire" /\ AcquireOK(call[l]) /\ call[l] \in Busy /\ call[l].at \in Int
      /\ TypeOK /\ RowOK /\ call \in [Lane -> Busy \cup {Idle}]
      /\ UNCHANGED <<world, clients>> /\ call[l].token \in Minted
  BY CallFields DEF Put, RemoteInv, CallOK, AcquireOK, Ops
<1>2. RowMoves /\ row' \in Row \cup {NoRow}
  BY NextMoves DEF Next, Step
<1>3. TypeOK' /\ WorldGoesOn
  BY <1>1, <1>2, TypesKept
<1>4. CASE Vacant(l)
  <2> DEFINE c == [call[l] EXCEPT !.pc = "won"]
  <2>1. call' = [call EXCEPT ![l] = c]
    BY <1>4 DEF Put, Goto
  <2>2. c \in Busy /\ c.op = "acquire" /\ c.pc = "won" /\ c.token = call[l].token /\ c.at = call[l].at
    <3>1. "won" \in Pcs
      BY DEF Pcs
    <3> QED BY <1>1, <3>1, CallGoesOn
  <2> HIDE DEF c
  <2>3. call'[l] = c
    BY <1>1, <2>1
  <2>4. /\ row' # NoRow /\ row'.token = call[l].token
        /\ row'.expiresAt = (IF backend = "redis" THEN now ELSE call[l].at) + TTL
    BY <1>4, PutMoves
  <2>5. call[l].at <= now + skew[owner[call[l].token]]
    BY <1>1 DEF AcquireOK, Clock
  <2>6. Corrected(call[l].token, call[l].at) + TTL <= row'.expiresAt
    BY <1>1, <2>4, <2>5, ClockTypes DEF Corrected
  <2>7. Covered(row', Limit', call'[l].token, Corrected(call[l].token, call[l].at)' + TTL)
    <3>1. Corrected(call[l].token, call[l].at)' = Corrected(call[l].token, call[l].at)
      BY <1>1, <2>2, <2>3 DEF Corrected, world, clients
    <3> QED BY <2>2, <2>3, <2>4, <2>6, <3>1 DEF Covered
  <2>8. CallOK(call[l])'
    BY <1>1, <2>2, <2>3, <2>7 DEF CallOK, AcquireOK, Minted, Clock, world, clients
  <2>9. RowOK'
    <3>1. row'.expiresAt <= TTL + (IF backend = "redis" THEN now ELSE now + skew[owner[row'.token]])
      BY <1>1, <2>4, <2>5, ClockTypes
    <3> QED BY <1>1, <2>4, <3>1 DEF RowOK, Minted, Clock, world, clients
  <2>10. OneCall'
    BY <1>1, <2>1, <2>2, OneCallKept
  <2> QED BY <1>1, <1>2, <1>3, <2>1, <2>2, <2>4, <2>8, <2>9, <2>10, StepKeeps DEF clients
<1>5. CASE ~Vacant(l) /\ backend = "sql"
  <2> DEFINE c == [call[l] EXCEPT !.pc = "look"]
  <2>1. call' = [call EXCEPT ![l] = c] /\ row' = row
    BY <1>5 DEF Put, Goto
  <2>2. c \in Busy /\ c.op = "acquire" /\ c.pc = "look" /\ c.token = call[l].token /\ c.at = call[l].at
    <3>1. "look" \in Pcs
      BY DEF Pcs
    <3> QED BY <1>1, <3>1, CallGoesOn
  <2> HIDE DEF c
  <2>3. call'[l] = c
    BY <1>1, <2>1
  <2>4. CallOK(call[l])'
    BY <1>1, <2>2, <2>3 DEF CallOK, AcquireOK, Minted, Clock, world, clients
  <2>5. RowOK'
    BY <1>1, <2>1 DEF RowOK, Minted, Clock, world, clients
  <2>6. OneCall'
    BY <1>1, <2>1, <2>2, OneCallKept
  <2> QED BY <1>1, <1>2, <1>3, <2>1, <2>2, <2>4, <2>5, <2>6, StepKeeps DEF clients
<1>6. CASE ~Vacant(l) /\ backend # "sql"
  <2>1. call' = [call EXCEPT ![l] = Idle] /\ row' = row
    BY <1>6 DEF Put, Return
  <2>2. CallOK(call[l])' /\ Idle.op = "none"
    BY <1>1, <2>1, IdleOK
  <2>3. RowOK'
    BY <1>1, <2>1 DEF RowOK, Minted, Clock, world, clients
  <2>4. OneCall'
    BY <2>1, <2>2, OneCallKept
  <2> QED BY <1>1, <1>2, <1>3, <2>1, <2>2, <2>3, <2>4, StepKeeps DEF clients
<1> QED BY <1>4, <1>5, <1>6

LEMMA ExtendKeeps == ASSUME RemoteInv, NEW l \in Lane, Extend(l) PROVE RemoteInv'
<1>1. /\ call[l].op = "renew" /\ call[l].pc = "extend" /\ RenewOK(call[l]) /\ call[l] \in Busy
      /\ call[l].at \in Int /\ TypeOK /\ RowOK /\ call \in [Lane -> Busy \cup {Idle}]
      /\ UNCHANGED <<world, clients>> /\ call[l].token \in Minted /\ call[l].token \in granted
  BY CallFields DEF Extend, RemoteInv, CallOK, RenewOK, TypeOK, Ops
<1>2. RowMoves /\ row' \in Row \cup {NoRow}
  BY NextMoves DEF Next, Step
<1>3. TypeOK' /\ WorldGoesOn
  BY <1>1, <1>2, TypesKept
<1>4. /\ row' = row \/ row' = NoRow \/ row'.token = call[l].token
      /\ RowOK'
  <2>1. CASE Extendable(l)
    <3>1. /\ row' # NoRow /\ row'.token = call[l].token /\ row'.expiresAt = Base(l) + TTL
      BY <2>1, ExtendMoves
    <3>2. row'.expiresAt <= TTL + (IF backend = "redis" THEN now ELSE now + skew[owner[row'.token]])
      BY <1>1, <3>1, ClockTypes DEF Base, RenewOK, Clock
    <3> QED BY <1>1, <3>1, <3>2 DEF RowOK, Minted, Clock, world, clients
  <2>2. CASE ~Extendable(l)
    BY <1>1, <2>2 DEF Extend, RowOK, Minted, Clock, world, clients
  <2> QED BY <2>1, <2>2
<1>5. CASE backend # "redis" \/ ~Extendable(l)
  <2>1. PICK p \in {"read", "lost"} : /\ call' = [call EXCEPT ![l] = [call[l] EXCEPT !.pc = p]]
                                      /\ p = "read" => backend # "redis"
    BY <1>5 DEF Extend, Goto
  <2> DEFINE c == [call[l] EXCEPT !.pc = p]
  <2>2. c \in Busy /\ c.op = "renew" /\ c.pc = p /\ c.token = call[l].token /\ c.at = call[l].at
    <3>1. p \in Pcs
      BY DEF Pcs
    <3> QED BY <1>1, <3>1, CallGoesOn
  <2> HIDE DEF c
  <2>3. call'[l] = c
    BY <1>1, <2>1 DEF c
  <2>4. CallOK(call[l])'
    <3>1. RenewOK(call[l])'
      BY <1>1, <2>1, <2>2, <2>3 DEF RenewOK, Clock, world, clients
    <3> QED BY <2>2, <2>3, <3>1 DEF CallOK
  <2>5. OneCall'
    BY <1>1, <2>1, <2>2, OneCallKept DEF c
  <2>6. call' = [call EXCEPT ![l] = c]
    BY <2>1 DEF c
  <2> QED BY <1>1, <1>2, <1>3, <1>4, <2>2, <2>4, <2>5, <2>6, StepKeeps DEF clients
<1>6. CASE backend = "redis" /\ Extendable(l)
  <2> DEFINE c == [call[l] EXCEPT !.pc = "extended", !.at = now]
  <2>1. call' = [call EXCEPT ![l] = c]
    BY <1>1, <1>6 DEF Extend
  <2>2. c \in Busy /\ c.op = "renew" /\ c.pc = "extended" /\ c.token = call[l].token /\ c.at = now
    <3>1. "extended" \in Pcs /\ now \in Int
      BY <1>1, ClockTypes DEF Pcs
    <3>2. call[l] \in Busy /\ call[l].op = "renew"
      BY <1>1
    <3>3. /\ c \in Busy /\ c.op = call[l].op /\ c.pc = "extended"
          /\ c.token = call[l].token /\ c.at = now
      BY <3>1, <3>2 DEF Busy
    <3> QED BY <3>2, <3>3
  <2> HIDE DEF c
  <2>3. call'[l] = c
    BY <1>1, <2>1
  <2>4. row' # NoRow /\ row'.token = call[l].token /\ row'.expiresAt = now + TTL
    BY <1>6, ExtendMoves DEF Base
  <2>5. Covered(row', Limit', call'[l].token, Extended(call[l])')
    <3>1. Extended(call[l])' = now + TTL /\ now + TTL \in Int
      BY <1>1, <1>6, <2>2, <2>3, ClockTypes DEF Extended, world
    <3> QED BY <2>2, <2>3, <2>4, <3>1 DEF Covered
  <2>6. CallOK(call[l])'
    BY <1>1, <1>6, <2>2, <2>3, <2>5, ClockTypes DEF CallOK, RenewOK, world, clients
  <2>7. OneCall'
    BY <1>1, <2>1, <2>2, OneCallKept
  <2> QED BY <1>1, <1>2, <1>3, <1>4, <2>1, <2>2, <2>6, <2>7, StepKeeps DEF clients
<1> QED BY <1>5, <1>6

LEMMA ReadBackKeeps == ASSUME RemoteInv, NEW l \in Lane, ReadBack(l) PROVE RemoteInv'
<1>1. /\ call[l].op = "renew" /\ call[l].pc = "read" /\ RenewOK(call[l]) /\ call[l] \in Busy
      /\ call[l].at \in Int /\ TypeOK /\ RowOK /\ call \in [Lane -> Busy \cup {Idle}]
      /\ UNCHANGED <<world, row, clients>> /\ call[l].token \in granted
  BY CallFields DEF ReadBack, RemoteInv, CallOK, RenewOK, Ops
<1>2. RowMoves /\ row' \in Row \cup {NoRow} /\ RowOK'
  BY <1>1 DEF RowMoves, TypeOK, RowOK, Minted, Clock, world, clients
<1>3. TypeOK' /\ WorldGoesOn
  BY <1>1, <1>2, TypesKept
<1>4. CASE LiveAt(call[l].at) /\ row.token = call[l].token
  <2> DEFINE c == [call[l] EXCEPT !.pc = "extended", !.at = row.expiresAt]
  <2>1. call' = [call EXCEPT ![l] = c]
    BY <1>4 DEF ReadBack
  <2>2. /\ row # NoRow /\ row.expiresAt \in Int
        /\ c \in Busy /\ c.op = "renew" /\ c.pc = "extended" /\ c.token = call[l].token
        /\ c.at = row.expiresAt
    <3>1. row # NoRow /\ row.expiresAt \in Int /\ "extended" \in Pcs
      BY <1>1, <1>4, ClockTypes DEF LiveAt, Pcs
    <3>2. call[l] \in Busy /\ call[l].op = "renew"
      BY <1>1
    <3> QED BY <3>1, <3>2 DEF Busy
  <2> HIDE DEF c
  <2>3. call'[l] = c
    BY <1>1, <2>1
  <2>4. backend # "redis" => Covered(row', Limit', call'[l].token, Extended(call[l])')
    BY <1>1, <1>4, <2>2, <2>3 DEF Extended, Covered, world
  <2>5. backend # "redis"
    BY <1>1 DEF RenewOK
  <2>6. CallOK(call[l])'
    BY <1>1, <2>2, <2>3, <2>4, <2>5 DEF CallOK, RenewOK, world, clients
  <2>7. OneCall'
    BY <1>1, <2>1, <2>2, OneCallKept
  <2> QED BY <1>1, <1>2, <1>3, <2>1, <2>2, <2>6, <2>7, StepKeeps DEF clients
<1>5. CASE ~(LiveAt(call[l].at) /\ row.token = call[l].token)
  <2> DEFINE c == [call[l] EXCEPT !.pc = "lost"]
  <2>1. call' = [call EXCEPT ![l] = c]
    BY <1>5 DEF ReadBack, Goto
  <2>2. c \in Busy /\ c.op = "renew" /\ c.pc = "lost" /\ c.token = call[l].token
    <3>1. "lost" \in Pcs
      BY DEF Pcs
    <3> QED BY <1>1, <3>1, CallGoesOn
  <2> HIDE DEF c
  <2>3. call'[l] = c
    BY <1>1, <2>1
  <2>4. CallOK(call[l])'
    BY <1>1, <2>2, <2>3 DEF CallOK, RenewOK, world, clients
  <2>5. OneCall'
    BY <1>1, <2>1, <2>2, OneCallKept
  <2> QED BY <1>1, <1>2, <1>3, <2>1, <2>2, <2>4, <2>5, StepKeeps DEF clients
<1> QED BY <1>4, <1>5

LEMMA AcquiredKeeps == ASSUME RemoteInv, NEW l \in Lane, Acquired(l) PROVE RemoteInv'
<1>1. /\ call[l].op = "acquire" /\ call[l].pc = "won" /\ AcquireOK(call[l]) /\ call[l].token \in Minted
      /\ call[l].at \in Int /\ TypeOK /\ RowOK /\ call \in [Lane -> Busy \cup {Idle}]
      /\ call[l].token \in Token /\ call[l].token \notin granted
  BY CallFields DEF Acquired, RemoteInv, CallOK, AcquireOK
<1>2. /\ UNCHANGED <<world, row, owner, gaveUp, late>> /\ call' = [call EXCEPT ![l] = Idle]
      /\ granted' = granted \cup {call[l].token}
      /\ known' = [known EXCEPT ![call[l].token] = call[l].at + TTL]
  BY DEF Acquired, Return
<1>3. WorldGoesOn
  BY <1>1, <1>2, StillWorld
<1>4. RowMoves /\ row' \in Row \cup {NoRow} /\ RowOK'
  BY <1>1, <1>2 DEF RowMoves, TypeOK, RowOK, Minted, Clock, world
<1>5. call[l].at + TTL \in Int
  BY <1>1, ClockTypes
<1>6. TypeOK'
  BY <1>1, <1>2, <1>5 DEF TypeOK, Minted, world
<1>7. ASSUME NEW t \in Token, t = call[l].token PROVE Covered(row', Limit', t, Told(t)')
  <2>1. /\ Corrected(t, call[l].at) + TTL \in Int
        /\ row # NoRow => row.expiresAt \in Int
        /\ Limit \in Int /\ late[t] \in Nat /\ skew[owner[t]] \in Int /\ TTL \in Nat
    BY <1>1, <1>7, ClockTypes DEF Corrected
  <2>2. Covered(row, Limit, t, Corrected(t, call[l].at) + TTL)
    BY <1>1, <1>7 DEF AcquireOK
  <2>3. row' = row /\ Limit' = Limit
    BY <1>2 DEF Limit, world
  <2>4. known'[t] = call[l].at + TTL /\ late'[t] = late[t]
    BY <1>1, <1>2, <1>7 DEF TypeOK
  <2>5. Told(t)' \in Int /\ Told(t)' <= Corrected(t, call[l].at) + TTL
    <3>1. CASE backend = "redis"
      <4>1. Told(t)' = (call[l].at + TTL) - late[t] - skew[owner[t]]
        <5>1. Told(t)' = known'[t] - late'[t] - skew'[owner'[t]]
          BY <1>2, <3>1 DEF Told, Corrected, world
        <5>2. skew' = skew /\ owner' = owner
          BY <1>2 DEF world
        <5> QED BY <2>4, <5>1, <5>2
      <4>2. Corrected(t, call[l].at) = call[l].at - skew[owner[t]]
        BY <3>1 DEF Corrected
      <4> QED BY <1>1, <2>1, <4>1, <4>2
    <3>2. CASE backend # "redis"
      <4>1. Told(t)' = call[l].at + TTL /\ Corrected(t, call[l].at) = call[l].at
        BY <1>2, <2>4, <3>2 DEF Told, Corrected, world
      <4> QED BY <1>1, <2>1, <4>1
    <3> QED BY <3>1, <3>2
  <2> QED BY <2>1, <2>2, <2>3, <2>5 DEF Covered
<1>8. \A t \in granted' : \/ t \in granted /\ known'[t] = known[t] /\ late'[t] = late[t]
                         \/ Covered(row', Limit', t, Told(t)')
  BY <1>1, <1>2, <1>7 DEF TypeOK
<1>9. CallOK(call[l])' /\ Idle.op = "none"
  BY <1>1, <1>2, IdleOK
<1>10. OneCall'
  BY <1>2, <1>9, OneCallKept
<1>11. \A t \in granted' \ granted : call[l].op = "acquire" /\ t = call[l].token
  BY <1>1, <1>2
<1> QED BY <1>2, <1>3, <1>4, <1>6, <1>8, <1>9, <1>10, <1>11, StepKeeps

LEMMA RenewedKeeps == ASSUME RemoteInv, NEW l \in Lane, Renewed(l) PROVE RemoteInv'
<1>1. /\ call[l].op = "renew" /\ call[l].pc = "extended" /\ RenewOK(call[l])
      /\ call[l].token \in Minted /\ call[l].token \in granted /\ call[l].token \in Token
      /\ call[l].at \in Int /\ TypeOK /\ RowOK /\ call \in [Lane -> Busy \cup {Idle}]
  BY CallFields DEF Renewed, RemoteInv, CallOK, RenewOK, TypeOK
<1>2. /\ UNCHANGED <<world, row, owner, granted, gaveUp>> /\ call' = [call EXCEPT ![l] = Idle]
      /\ IF backend = "redis"
         THEN /\ known' = [known EXCEPT ![call[l].token] = Clock(call[l].token) + TTL]
              /\ late' = [late EXCEPT ![call[l].token] = now - call[l].at]
         ELSE known' = [known EXCEPT ![call[l].token] = call[l].at] /\ UNCHANGED late
  BY DEF Renewed, Return
<1>3. WorldGoesOn
  BY <1>1, <1>2, StillWorld
<1>4. RowMoves /\ row' \in Row \cup {NoRow} /\ RowOK'
  BY <1>1, <1>2 DEF RowMoves, TypeOK, RowOK, Minted, Clock, world
<1>5. /\ Clock(call[l].token) \in Int /\ Clock(call[l].token) + TTL \in Int
      /\ Clock(call[l].token) = now + skew[owner[call[l].token]]
      /\ now \in Nat /\ TTL \in Nat /\ skew[owner[call[l].token]] \in Int
  BY <1>1, ClockTypes
<1>6. backend = "redis" => now - call[l].at \in Nat
  BY <1>1, <1>5 DEF RenewOK
<1>7. TypeOK'
  <2>1. known' \in [Token -> Int] /\ late' \in [Token -> Nat]
    BY <1>1, <1>2, <1>5, <1>6 DEF TypeOK
  <2> QED BY <1>1, <1>2, <2>1 DEF TypeOK, Minted, world
<1>8. ASSUME NEW t \in Token, t = call[l].token PROVE Told(t)' = Extended(call[l])
  <2>1. CASE backend = "redis"
    <3>1. known'[t] = Clock(t) + TTL /\ late'[t] = now - call[l].at
      BY <1>1, <1>2, <1>8, <2>1 DEF TypeOK
    <3>2. Told(t)' = (known'[t] - late'[t]) - skew[owner[t]]
      BY <1>2, <2>1 DEF Told, Corrected, world
    <3> QED BY <1>1, <1>5, <1>8, <2>1, <3>1, <3>2 DEF Extended
  <2>2. CASE backend # "redis"
    <3>1. known'[t] = call[l].at
      BY <1>1, <1>2, <1>8, <2>2 DEF TypeOK
    <3> QED BY <1>2, <2>2, <3>1 DEF Told, Extended, world
  <2> QED BY <2>1, <2>2
<1>9. ASSUME NEW t \in granted'
      PROVE  \/ t \in gaveUp'
             \/ t \in granted /\ known'[t] = known[t] /\ late'[t] = late[t]
             \/ Covered(row', Limit', t, Told(t)')
  <2>1. CASE t = call[l].token
    <3>1. /\ t \in gaveUp' \/ Covered(row, Limit, t, Extended(call[l]))
          /\ row' = row /\ Limit' = Limit
      BY <1>1, <1>2, <2>1 DEF RenewOK, Limit, world
    <3> QED BY <1>1, <1>8, <2>1, <3>1
  <2>2. CASE t # call[l].token
    <3>1. t \in granted /\ t \in Token
      BY <1>1, <1>2 DEF TypeOK, Minted
    <3>2. known'[t] = known[t] /\ late'[t] = late[t]
      BY <1>1, <1>2, <2>2, <3>1 DEF TypeOK
    <3> QED BY <3>1, <3>2
  <2> QED BY <2>1, <2>2
<1>10. CallOK(call[l])' /\ Idle.op = "none"
  BY <1>1, <1>2, IdleOK
<1>11. OneCall'
  BY <1>2, <1>10, OneCallKept
<1>12. \A t \in granted' \ granted : call[l].op = "acquire" /\ t = call[l].token
  BY <1>2
<1> QED BY <1>2, <1>3, <1>4, <1>7, <1>9, <1>10, <1>11, <1>12, StepKeeps

LEMMA LostKeeps == ASSUME RemoteInv, NEW l \in Lane, Lost(l) PROVE RemoteInv'
<1>1. /\ call[l].token \in granted /\ TypeOK /\ RowOK /\ call \in [Lane -> Busy \cup {Idle}]
  BY CallFields DEF Lost, RemoteInv, CallOK, RenewOK
<1>2. /\ UNCHANGED <<world, row, owner, granted, known, late>> /\ call' = [call EXCEPT ![l] = Idle]
      /\ gaveUp' = gaveUp \cup {call[l].token}
  BY DEF Lost, Return
<1>3. WorldGoesOn /\ TypeOK'
  <2>1. TypeOK'
    BY <1>1, <1>2 DEF TypeOK, Minted, world
  <2> QED BY <1>1, <1>2, <2>1, StillWorld
<1>4. RowMoves /\ row' \in Row \cup {NoRow} /\ RowOK'
  BY <1>1, <1>2 DEF RowMoves, TypeOK, RowOK, Minted, Clock, world
<1>5. CallOK(call[l])' /\ Idle.op = "none"
  BY <1>1, <1>2, IdleOK
<1>6. OneCall'
  BY <1>2, <1>5, OneCallKept
<1> QED BY <1>2, <1>3, <1>4, <1>5, <1>6, StepKeeps

LEMMA DeleteKeeps == ASSUME RemoteInv, NEW l \in Lane, Delete(l) PROVE RemoteInv'
<1>1. TypeOK /\ RowOK /\ call \in [Lane -> Busy \cup {Idle}]
  BY DEF RemoteInv
<1>2. /\ UNCHANGED <<world, clients>> /\ call' = [call EXCEPT ![l] = Idle]
      /\ row' = row \/ row' = NoRow
  BY DEF Delete, Return
<1>3. RowMoves /\ row' \in Row \cup {NoRow}
  BY NextMoves DEF Next, Step
<1>4. TypeOK' /\ WorldGoesOn
  BY <1>1, <1>2, <1>3, TypesKept
<1>5. RowOK'
  BY <1>1, <1>2 DEF RowOK, Minted, Clock, world, clients
<1>6. CallOK(call[l])' /\ Idle.op = "none"
  BY <1>1, <1>2, IdleOK
<1>7. OneCall'
  BY <1>2, <1>6, OneCallKept
<1> QED BY <1>2, <1>3, <1>4, <1>5, <1>6, <1>7, StepKeeps DEF clients

LEMMA EndKeeps == ASSUME RemoteInv, NEW l \in Lane, Look(l) \/ Drop(l) PROVE RemoteInv'
<1>1. TypeOK /\ RowOK /\ call \in [Lane -> Busy \cup {Idle}]
  BY DEF RemoteInv
<1>2. UNCHANGED <<world, row, clients>>
  BY DEF Look, Drop
<1>3. RowMoves /\ row' \in Row \cup {NoRow} /\ RowOK'
  BY <1>1, <1>2 DEF RowMoves, TypeOK, RowOK, Minted, Clock, world, clients
<1>4. TypeOK' /\ WorldGoesOn
  BY <1>1, <1>2, <1>3, TypesKept
<1>5. CASE call' = [call EXCEPT ![l] = Idle]
  <2>1. CallOK(call[l])' /\ Idle.op = "none"
    BY <1>1, <1>5, IdleOK
  <2>2. OneCall'
    BY <1>5, <2>1, OneCallKept
  <2> QED BY <1>2, <1>3, <1>4, <1>5, <2>1, <2>2, StepKeeps DEF clients
<1>6. CASE /\ call[l].op = "acquire"
           /\ call' = [call EXCEPT ![l] = [call[l] EXCEPT !.pc = "look"]]
  <2> DEFINE c == [call[l] EXCEPT !.pc = "look"]
  <2>1. call' = [call EXCEPT ![l] = c]
    BY <1>6
  <2>2. /\ c \in Busy /\ c.op = "acquire" /\ c.pc = "look" /\ c.token = call[l].token /\ c.at = call[l].at
        /\ AcquireOK(call[l])
    <3>1. "look" \in Pcs /\ call[l] \in Busy /\ AcquireOK(call[l])
      BY <1>6, CallFields DEF Pcs, RemoteInv, CallOK
    <3> QED BY <1>6, <3>1, CallGoesOn
  <2> HIDE DEF c
  <2>3. call'[l] = c
    BY <1>1, <2>1
  <2>4. CallOK(call[l])'
    BY <1>2, <2>2, <2>3 DEF CallOK, AcquireOK, Minted, Clock, world, clients
  <2>5. OneCall'
    BY <1>6, <2>1, <2>2, OneCallKept
  <2> QED BY <1>2, <1>3, <1>4, <2>1, <2>2, <2>4, <2>5, StepKeeps DEF clients
<1> QED BY <1>5, <1>6 DEF Look, Drop, Return, Goto

-----------------------------------------------------------------------------
(* A call that starts, and time                                             *)

LEMMA AcquireKeeps ==
  ASSUME RemoteInv, NEW l \in Lane, NEW u \in Client, NEW t \in Token, Acquire(l, u, t)
  PROVE  RemoteInv'
<1>1. /\ TypeOK /\ RowOK /\ call \in [Lane -> Busy \cup {Idle}] /\ owner[t] = NoRow /\ u # NoRow
      /\ t \notin Minted /\ t \notin granted
  BY NoRowAssumption DEF RemoteInv, Acquire, TypeOK, Minted
<1> DEFINE c == [op |-> "acquire", pc |-> IF backend = "sql" THEN "sweep" ELSE "put",
                 token |-> t, at |-> now + skew[u]]
<1>2. /\ UNCHANGED <<world, row, granted, gaveUp, known, late>> /\ call[l].op = "none"
      /\ owner' = [owner EXCEPT ![t] = u] /\ call' = [call EXCEPT ![l] = c]
  BY DEF Acquire, Call
<1>3. now + skew[u] \in Int
  BY <1>1, ClockTypes
<1>4. /\ c \in Busy /\ c.op = "acquire" /\ c.pc \in {"sweep", "put"} /\ c.token = t
      /\ c.at = now + skew[u]
      /\ c.pc = "sweep" => backend = "sql"
  BY <1>3 DEF Busy, Ops, Pcs
<1> HIDE DEF c
<1>5. call'[l] = c
  BY <1>1, <1>2
<1>6. \A m \in Minted : m \in Minted' /\ owner'[m] = owner[m]
  BY <1>1, <1>2 DEF TypeOK, Minted
<1>7. owner'[t] = u /\ t \in Minted'
  BY <1>1, <1>2 DEF TypeOK, Minted
<1>8. WorldGoesOn
  BY <1>1, <1>2, <1>6, ClockTypes DEF WorldGoesOn, world
<1>9. TypeOK'
  BY <1>1, <1>2, <1>6 DEF TypeOK, world
<1>10. RowMoves /\ row' \in Row \cup {NoRow}
  BY <1>1, <1>2 DEF RowMoves, TypeOK
<1>11. RowOK'
  BY <1>1, <1>2, <1>6 DEF RowOK, Clock, world
<1>12. CallOK(call[l])'
  <2>1. AcquireOK(call[l])'
    BY <1>1, <1>2, <1>3, <1>4, <1>5, <1>7 DEF AcquireOK, Clock, world
  <2> QED BY <1>4, <1>5, <2>1 DEF CallOK
<1>13. OneCall'
  <2> SUFFICES ASSUME NEW i \in Lane, NEW k \in Lane, call'[i].op \in {"acquire", "renew"},
                      call'[k].op = call'[i].op, call'[k].token = call'[i].token, i # k
               PROVE  FALSE
    BY DEF OneCall
  <2>1. \A m \in Lane : m # l => call'[m] = call[m]
    BY <1>1, <1>2
  <2>2. \A m \in Lane : m # l /\ call'[m].op = "acquire" => call'[m].token # t
    BY <1>1, <2>1 DEF RemoteInv, CallOK, AcquireOK
  <2>3. CASE i # l /\ k # l
    BY <2>1, <2>3 DEF RemoteInv, OneCall
  <2>4. CASE i = l \/ k = l
    BY <1>4, <1>5, <2>2, <2>4
  <2> QED BY <2>3, <2>4
<1> QED BY <1>2, <1>4, <1>8, <1>9, <1>10, <1>11, <1>12, <1>13, StepKeeps

LEMMA RenewKeeps ==
  ASSUME RemoteInv, NEW l \in Lane, NEW t \in Token, Renew(l, t) PROVE RemoteInv'
<1>1. /\ TypeOK /\ RowOK /\ call \in [Lane -> Busy \cup {Idle}] /\ t \in granted /\ t \in Minted
      /\ \A k \in Lane : call[k].op = "renew" => call[k].token # t
  BY DEF RemoteInv, Renew, TypeOK
<1> DEFINE c == [op |-> "renew", pc |-> "extend", token |-> t, at |-> Clock(t)]
<1>2. UNCHANGED <<world, row, clients>> /\ call[l].op = "none" /\ call' = [call EXCEPT ![l] = c]
  BY DEF Renew, Call
<1>3. Clock(t) \in Int /\ Clock(t) = now + skew[owner[t]] /\ TTL \in Nat
  BY <1>1, ClockTypes
<1>4. /\ c \in Busy /\ c.op = "renew" /\ c.pc = "extend" /\ c.token = t /\ c.at = Clock(t)
  BY <1>3 DEF Busy, Ops, Pcs
<1> HIDE DEF c
<1>5. call'[l] = c
  BY <1>1, <1>2
<1>6. RowMoves /\ row' \in Row \cup {NoRow} /\ RowOK'
  BY <1>1, <1>2 DEF RowMoves, TypeOK, RowOK, Minted, Clock, world, clients
<1>7. TypeOK' /\ WorldGoesOn
  BY <1>1, <1>2, <1>6, TypesKept
<1>8. CallOK(call[l])'
  <2>1. backend # "redis" /\ row # NoRow /\ row.token = t => row.expiresAt <= Clock(t) + TTL
    BY <1>1, <1>3, ClockTypes DEF RowOK
  <2>2. Clock(t)' = Clock(t)
    BY <1>2 DEF Clock, world, clients
  <2>3. RenewOK(call[l])'
    BY <1>1, <1>2, <1>3, <1>4, <1>5, <2>1, <2>2 DEF RenewOK, world, clients
  <2> QED BY <1>4, <1>5, <2>3 DEF CallOK
<1>9. OneCall'
  <2> SUFFICES ASSUME NEW i \in Lane, NEW k \in Lane, call'[i].op \in {"acquire", "renew"},
                      call'[k].op = call'[i].op, call'[k].token = call'[i].token, i # k
               PROVE  FALSE
    BY DEF OneCall
  <2>1. \A m \in Lane : m # l => call'[m] = call[m]
    BY <1>1, <1>2
  <2>2. CASE i # l /\ k # l
    BY <2>1, <2>2 DEF RemoteInv, OneCall
  <2>3. CASE i = l \/ k = l
    BY <1>1, <1>4, <1>5, <2>1, <2>3
  <2> QED BY <2>2, <2>3
<1> QED BY <1>2, <1>4, <1>6, <1>7, <1>8, <1>9, StepKeeps DEF clients

LEMMA ReleaseKeeps ==
  ASSUME RemoteInv, NEW l \in Lane, NEW t \in Token, Release(l, t) PROVE RemoteInv'
<1>1. /\ TypeOK /\ RowOK /\ call \in [Lane -> Busy \cup {Idle}] /\ t \in granted
  BY DEF RemoteInv, Release
<1> DEFINE c == [op |-> "release", pc |-> "delete", token |-> t, at |-> 0]
<1>2. /\ UNCHANGED <<world, row, owner, granted, known, late>> /\ gaveUp' = gaveUp \cup {t}
      /\ call[l].op = "none" /\ call' = [call EXCEPT ![l] = c]
  BY DEF Release, Call
<1>3. c \in Busy /\ c.op = "release" /\ c.pc = "delete" /\ c.token = t
  BY DEF Busy, Ops, Pcs
<1> HIDE DEF c
<1>4. call'[l] = c
  BY <1>1, <1>2
<1>5. RowMoves /\ row' \in Row \cup {NoRow} /\ RowOK'
  BY <1>1, <1>2 DEF RowMoves, TypeOK, RowOK, Minted, Clock, world
<1>6. TypeOK' /\ WorldGoesOn
  <2>1. TypeOK'
    BY <1>1, <1>2 DEF TypeOK, Minted, world
  <2> QED BY <1>1, <1>2, <2>1, StillWorld
<1>7. CallOK(call[l])'
  BY <1>2, <1>3, <1>4 DEF CallOK, ReleaseOK
<1>8. OneCall'
  <2> SUFFICES ASSUME NEW i \in Lane, NEW k \in Lane, call'[i].op \in {"acquire", "renew"},
                      call'[k].op = call'[i].op, call'[k].token = call'[i].token, i # k
               PROVE  FALSE
    BY DEF OneCall
  <2>1. \A m \in Lane : m # l => call'[m] = call[m]
    BY <1>1, <1>2
  <2>2. i # l /\ k # l
    BY <1>3, <1>4
  <2> QED BY <2>1, <2>2 DEF RemoteInv, OneCall
<1> QED BY <1>2, <1>3, <1>5, <1>6, <1>7, <1>8, StepKeeps

LEMMA TickKeeps == ASSUME RemoteInv, Tick PROVE RemoteInv'
<1>1. /\ TypeOK /\ RowOK /\ call \in [Lane -> Busy \cup {Idle}] /\ OneCall /\ now \in Nat
  BY DEF RemoteInv, TypeOK
<1>2. now' = now + 1 /\ UNCHANGED <<backend, skew, row, call, clients>>
  BY DEF Tick
<1>3. TypeOK' /\ WorldGoesOn
  BY <1>1, <1>2 DEF TypeOK, clients, Minted, WorldGoesOn
<1>4. RowMoves /\ row' \in Row \cup {NoRow}
  BY <1>1, <1>2 DEF RowMoves, TypeOK
<1>5. ASSUME NEW k \in Lane PROVE CallOK(call[k])'
  <2>1. call[k].op = "acquire" => call[k].token \notin granted'
    BY <1>2 DEF RemoteInv, CallOK, AcquireOK, clients
  <2> QED BY <1>2, <1>3, <1>4, <2>1, CallKept
<1>6. OneCall'
  BY <1>1, <1>2 DEF OneCall
<1>7. RowOK'
  <2> SUFFICES ASSUME row # NoRow
               PROVE  /\ row.token \in Minted'
                      /\ row.expiresAt <= TTL + (IF backend = "redis" THEN now' ELSE Clock(row.token)')
    BY <1>2 DEF RowOK
  <2>1. row.token \in Minted /\ Clock(row.token)' = Clock(row.token) + 1
    <3>1. row.token \in Minted
      BY <1>1 DEF RowOK
    <3>2. Clock(row.token) = now + skew[owner[row.token]] /\ skew[owner[row.token]] \in Int
      BY <1>1, <3>1, ClockTypes
    <3>3. Clock(row.token)' = (now + 1) + skew[owner[row.token]]
      BY <1>2 DEF Clock, clients
    <3> QED BY <1>1, <3>1, <3>2, <3>3
  <2>2. row.expiresAt <= TTL + (IF backend = "redis" THEN now ELSE Clock(row.token))
    BY <1>1 DEF RowOK
  <2>3. row.expiresAt \in Int /\ TTL \in Nat /\ Clock(row.token) \in Int
    BY <1>1, <2>1, ClockTypes
  <2> QED BY <1>1, <1>2, <1>3, <2>1, <2>2, <2>3 DEF WorldGoesOn
<1>8. ToldOK'
  <2> SUFFICES ASSUME NEW t \in granted', t \notin gaveUp'
               PROVE  Covered(row', Limit', t, Told(t)')
    BY DEF ToldOK
  <2>1. t \in granted /\ t \notin gaveUp /\ known'[t] = known[t] /\ late'[t] = late[t]
    BY <1>2 DEF clients
  <2> QED BY <1>3, <1>4, <2>1, ToldKept
<1> QED BY <1>1, <1>2, <1>3, <1>5, <1>6, <1>7, <1>8 DEF RemoteInv

LEMMA StutterKeeps == ASSUME RemoteInv, UNCHANGED vars PROVE RemoteInv'
<1>1. UNCHANGED <<world, row, call, clients>>
  BY DEF vars
<1>2. TypeOK' /\ RowOK' /\ OneCall'
  BY <1>1 DEF RemoteInv, TypeOK, RowOK, OneCall, Minted, Clock, world, clients
<1>3. \A l \in Lane : CallOK(call[l])'
  BY <1>1 DEF RemoteInv, CallOK, AcquireOK, RenewOK, ReleaseOK, Covered, Corrected, Extended, Limit,
              Minted, Clock, world, clients
<1>4. ToldOK'
  BY <1>1 DEF RemoteInv, ToldOK, Covered, Told, Corrected, Limit, world, clients
<1> QED BY <1>1, <1>2, <1>3, <1>4 DEF RemoteInv

-----------------------------------------------------------------------------
(* The theorems                                                             *)

LEMMA InitRemote == Init => RemoteInv
<1> SUFFICES ASSUME Init PROVE RemoteInv
  OBVIOUS
<1>1. TypeOK
  BY TimeAssumption, SkewAssumption DEF Init, TypeOK, Minted
<1>2. call \in [Lane -> Busy \cup {Idle}] /\ \A l \in Lane : CallOK(call[l]) /\ call[l].op = "none"
  BY DEF Init, Idle, CallOK
<1>3. OneCall
  BY <1>2 DEF OneCall
<1>4. RowOK /\ ToldOK
  BY DEF Init, RowOK, ToldOK
<1> QED BY <1>1, <1>2, <1>3, <1>4 DEF RemoteInv

LEMMA NextRemote == RemoteInv /\ [Next]_vars => RemoteInv'
<1> SUFFICES ASSUME RemoteInv, [Next]_vars PROVE RemoteInv'
  OBVIOUS
<1>1. ASSUME NEW l \in Lane, NEW t \in Token,
             (\E c \in Client : Acquire(l, c, t)) \/ Renew(l, t) \/ Release(l, t)
      PROVE  RemoteInv'
  BY <1>1, AcquireKeeps, RenewKeeps, ReleaseKeeps
<1>2. ASSUME NEW l \in Lane, Step(l) PROVE RemoteInv'
  BY <1>2, SweepKeeps, PutKeeps, EndKeeps, AcquiredKeeps, ExtendKeeps, ReadBackKeeps, RenewedKeeps,
     LostKeeps, DeleteKeeps DEF Step
<1>3. ASSUME NEW l \in Lane, Drop(l) PROVE RemoteInv'
  BY <1>3, EndKeeps
<1>4. CASE Tick
  BY <1>4, TickKeeps
<1>5. CASE UNCHANGED vars
  BY <1>5, StutterKeeps
<1> QED BY <1>1, <1>2, <1>3, <1>4, <1>5 DEF Next

\* Who believes, less its margin, has the row: it was told an expiry that the
\* row covers, and that expiry is not before the limit.
LEMMA BelieverHasRow ==
  ASSUME RemoteInv, NEW t \in Token, Believes(t, Margin(t))
  PROVE  row # NoRow /\ row.token = t
<1>1. /\ TypeOK /\ t \in granted /\ t \in Minted /\ Covered(row, Limit, t, Told(t))
  BY DEF RemoteInv, ToldOK, TypeOK, Believes
<1>2. /\ known[t] - Margin(t) >= Clock(t)
      /\ Clock(t) = now + skew[owner[t]] /\ skew[owner[t]] \in Int /\ skew[owner[t]] >= 0
      /\ now \in Nat /\ MaxSkew \in Nat /\ known[t] \in Int /\ late[t] \in Nat
  <2>1. skew[owner[t]] >= 0
    BY <1>1, ClockTypes
  <2> QED BY <1>1, <2>1, ClockTypes DEF Believes
<1>3. ~(Told(t) < Limit)
  <2>1. CASE backend = "redis"
    BY <1>2, <2>1 DEF Told, Corrected, Limit, Margin
  <2>2. CASE backend # "redis"
    BY <1>2, <2>2 DEF Told, Limit, Margin
  <2> QED BY <2>1, <2>2
<1> QED BY <1>1, <1>3 DEF Covered

\* No two processes are sure of the lease at once: whatever the clocks, the
\* delays and the calls that are lost, at most one token is believed in, less
\* the margin by which its holder may overrate it (AtMostOneHolder).
THEOREM HoldOrDoNotRun == Spec => []AtMostOneHolder
<1>1. RemoteInv => AtMostOneHolder
  BY BelieverHasRow DEF RemoteInv, AtMostOneHolder
<1> QED BY <1>1, InitRemote, NextRemote, PTL DEF Spec

\* A row that is live on every clock is extended by its own token, or released
\* by it, and no statement of anybody else touches it (LiveRowSurvives).
THEOREM NobodyTakesALiveRow == Spec => LiveRowSurvives
<1> DEFINE Kept ==
      LiveAt(now + MaxSkew) =>
        \/ row' # NoRow /\ row'.token = row.token
           /\ row'.expiresAt >= row.expiresAt
        \/ row' = NoRow /\ row.token \in gaveUp
<1>1. RemoteInv /\ [Next]_vars => Kept
  <2> SUFFICES ASSUME RemoteInv, [Next]_vars, LiveAt(now + MaxSkew)
               PROVE  \/ row' # NoRow /\ row'.token = row.token
                         /\ row'.expiresAt >= row.expiresAt
                      \/ row' = NoRow /\ row.token \in gaveUp
    OBVIOUS
  <2>1. /\ row # NoRow /\ row.expiresAt \in Int /\ ~(row.expiresAt < Limit)
    BY ClockTypes DEF RemoteInv, LiveAt
  <2>2. RowMoves
    BY NextMoves
  <2>3. row.expiresAt >= row.expiresAt
    BY <2>1
  <2> QED BY <2>1, <2>2, <2>3 DEF RowMoves
<1>2. RemoteInv /\ [Next]_vars => [Kept]_vars
  BY <1>1
<1>3. Spec => [][Kept]_vars
  BY <1>2, InitRemote, NextRemote, PTL DEF Spec
<1> QED BY <1>3 DEF LiveRowSurvives

-----------------------------------------------------------------------------
(* LeaseLock, the provider of one process                                     *)

\* The types are preserved by every operation of the provider, and its entry's
\* token is one handed out and not given up (lock.ts:96-140).
THEOREM MemoryTypeCorrect == MemorySpec => []MemoryTypeOK
<1>1. MemoryInit => MemoryTypeOK
  BY TimeAssumption DEF MemoryInit, MemoryTypeOK, Entry
<1>2. MemoryTypeOK /\ [MemoryNext]_memoryVars => MemoryTypeOK'
  <2> SUFFICES ASSUME MemoryTypeOK, [MemoryNext]_memoryVars PROVE MemoryTypeOK'
    OBVIOUS
  <2> USE NoEntryAssumption, TimeAssumption DEF MemoryTypeOK, Entry
  <2>1. ASSUME NEW c \in Client, NEW t \in Token, MemoryAcquire(c, t) PROVE MemoryTypeOK'
    BY <2>1 DEF MemoryAcquire, Install
  <2>2. ASSUME NEW t \in Token, MemoryRenew(t) PROVE MemoryTypeOK'
    BY <2>2 DEF MemoryRenew, Renewable, Matches, Install, Swept
  <2>3. ASSUME NEW t \in Token, MemoryRelease(t) PROVE MemoryTypeOK'
    BY <2>3 DEF MemoryRelease, Matches
  <2>4. CASE MemoryLook
    BY <2>4 DEF MemoryLook, Swept
  <2>5. CASE MemoryTick
    BY <2>5 DEF MemoryTick
  <2>6. CASE UNCHANGED memoryVars
    BY <2>6 DEF memoryVars
  <2> QED BY <2>1, <2>2, <2>3, <2>4, <2>5, <2>6 DEF MemoryNext
<1> QED BY <1>1, <1>2, PTL DEF MemorySpec

-----------------------------------------------------------------------------
\* The strengthening of MemoryTypeOK.  The entry carries the expiry its holder was
\* told; and a token whose expiry has not passed is still the entry unless it
\* was given up.
EntryIsKnown == locks # NoEntry => known[locks.token] = locks.expiresAt

UnexpiredIsEntry ==
  \A t \in past \ gaveUp : known[t] >= now => Matches(t)

MemoryInv == MemoryTypeOK /\ EntryIsKnown /\ UnexpiredIsEntry

LEMMA InitMemory == MemoryInit => MemoryInv
BY TimeAssumption DEF MemoryInit, MemoryInv, MemoryTypeOK, Entry, EntryIsKnown, UnexpiredIsEntry

LEMMA NextMemory == MemoryInv /\ MemoryTypeOK' /\ [MemoryNext]_memoryVars => MemoryInv'
<1> SUFFICES ASSUME MemoryInv, MemoryTypeOK', [MemoryNext]_memoryVars PROVE EntryIsKnown' /\ UnexpiredIsEntry'
  BY DEF MemoryInv
<1> USE NoEntryAssumption, TimeAssumption
    DEF MemoryInv, MemoryTypeOK, Entry, EntryIsKnown, UnexpiredIsEntry, Matches, Live, Unexpired
<1>1. ASSUME NEW c \in Client, NEW t \in Token, MemoryAcquire(c, t)
      PROVE EntryIsKnown' /\ UnexpiredIsEntry'
  <2>1. EntryIsKnown' BY <1>1 DEF MemoryAcquire, Install
  <2>2. UnexpiredIsEntry' BY <1>1 DEF MemoryAcquire, Install
  <2> QED BY <2>1, <2>2
<1>2. ASSUME NEW t \in Token, MemoryRenew(t) PROVE EntryIsKnown' /\ UnexpiredIsEntry'
  BY <1>2 DEF MemoryRenew, Renewable, Install, Swept
<1>3. ASSUME NEW t \in Token, MemoryRelease(t) PROVE EntryIsKnown' /\ UnexpiredIsEntry'
  BY <1>3 DEF MemoryRelease
<1>4. CASE MemoryLook
  BY <1>4 DEF MemoryLook, Swept
<1>5. CASE MemoryTick
  BY <1>5 DEF MemoryTick
<1>6. CASE UNCHANGED memoryVars
  BY <1>6 DEF memoryVars
<1> QED BY <1>1, <1>2, <1>3, <1>4, <1>5, <1>6 DEF MemoryNext

THEOREM MemoryInvariant == MemorySpec => []MemoryInv
BY MemoryTypeCorrect, InitMemory, NextMemory, PTL DEF MemorySpec

\* At most one acquisition has reason to believe it holds the key, and the
\* provider agrees with it (lock.ts:6-7).
THEOREM MutualExclusion == MemorySpec => [](AtMostOneBeliever /\ BeliefIsBacked)
<1>1. MemoryInv => AtMostOneBeliever /\ BeliefIsBacked
  BY DEF MemoryInv, MemoryTypeOK, UnexpiredIsEntry, EntryIsKnown, AtMostOneBeliever, BeliefIsBacked,
         BelievesHolding, Renewable, Matches, Live, Unexpired
<1> QED BY <1>1, MemoryInvariant, PTL

-----------------------------------------------------------------------------
\* No operation extends a lease that has lapsed (lock.ts:121-123).
THEOREM LapsedStaysLost == MemorySpec => LapsedIsLost
<1>1. MemoryInv /\ [MemoryNext]_memoryVars => [\A t \in past : known[t] < now => known'[t] = known[t]]_memoryVars
  <2> SUFFICES ASSUME MemoryInv, MemoryNext PROVE \A t \in past : known[t] < now => known'[t] = known[t]
    OBVIOUS
  <2> USE DEF MemoryInv, MemoryTypeOK, EntryIsKnown
  <2>1. ASSUME NEW c \in Client, NEW u \in Token, MemoryAcquire(c, u)
        PROVE \A t \in past : known[t] < now => known'[t] = known[t]
    BY <2>1 DEF MemoryAcquire, Install
  <2>2. ASSUME NEW u \in Token, MemoryRenew(u)
        PROVE \A t \in past : known[t] < now => known'[t] = known[t]
    BY <2>2, TimeAssumption, NoEntryAssumption
       DEF MemoryRenew, Renewable, Matches, Live, Unexpired, Install, Entry
  <2>3. ASSUME UNCHANGED known
        PROVE \A t \in past : known[t] < now => known'[t] = known[t]
    BY <2>3
  <2> QED BY <2>1, <2>2, <2>3 DEF MemoryNext, MemoryRelease, MemoryLook, MemoryTick
<1> QED BY <1>1, MemoryInvariant, PTL DEF MemorySpec, LapsedIsLost

\* A live entry is displaced only by the release of its own token
\* (lock.ts:51-57).
THEOREM LiveEntryIsSafe == MemorySpec => LiveEntrySurvives
<1> DEFINE Survives == Live => \/ locks' # NoEntry /\ locks'.token = locks.token
                               \/ locks' = NoEntry /\ locks.token \in gaveUp' \ gaveUp
<1>1. MemoryInv /\ [MemoryNext]_memoryVars => [Survives]_memoryVars
  <2> SUFFICES ASSUME MemoryInv, MemoryNext, Live PROVE Survives
    OBVIOUS
  <2> USE NoEntryAssumption DEF MemoryInv, MemoryTypeOK, Entry, EntryIsKnown
  <2>1. ASSUME NEW c \in Client, NEW t \in Token, MemoryAcquire(c, t) PROVE Survives
    BY <2>1 DEF MemoryAcquire
  <2>2. ASSUME NEW t \in Token, MemoryRenew(t) PROVE Survives
    BY <2>2, TimeAssumption DEF MemoryRenew, Renewable, Matches, Live, Swept, Install
  <2>3. ASSUME NEW t \in Token, MemoryRelease(t) PROVE Survives
    BY <2>3 DEF MemoryRelease, Matches, Live
  <2>4. ASSUME MemoryLook \/ MemoryTick PROVE Survives
    BY <2>4 DEF MemoryLook, MemoryTick, Swept, Live
  <2> QED BY <2>1, <2>2, <2>3, <2>4 DEF MemoryNext
<1> QED BY <1>1, MemoryInvariant, PTL DEF MemorySpec, LiveEntrySurvives

-----------------------------------------------------------------------------
\* The provider implements the contract every backend shares: a key has one
\* holder at a time, and an acquisition that lost it never holds it again.
THEOREM ImplementsContract == MemorySpec => LeaseContract
<1> DEFINE holder == IF Live THEN locks.token ELSE NoEntry
<1>1. MemoryInit => Contract!LeaseInit
  BY DEF MemoryInit, Contract!LeaseInit, Live
<1>2. MemoryInv /\ MemoryTypeOK' /\ [MemoryNext]_memoryVars => [Contract!LeaseNext]_(Contract!leaseVars)
  <2> SUFFICES ASSUME MemoryInv, MemoryTypeOK', [MemoryNext]_memoryVars
               PROVE Contract!LeaseNext \/ UNCHANGED Contract!leaseVars
    OBVIOUS
  <2> USE NoEntryAssumption, NoTokenAssumption, TimeAssumption
      DEF MemoryInv, MemoryTypeOK, Entry, Live, Unexpired,
          Contract!LeaseNext, Contract!leaseVars, Contract!Grant, Contract!Lose
  <2>1. ASSUME NEW c \in Client, NEW t \in Token, MemoryAcquire(c, t) PROVE Contract!Grant(t)
    BY <2>1 DEF MemoryAcquire, Install
  <2>2. ASSUME NEW t \in Token, MemoryRenew(t) PROVE UNCHANGED Contract!leaseVars
    BY <2>2 DEF MemoryRenew, Renewable, Matches, Install, Swept
  <2>3. ASSUME NEW t \in Token, MemoryRelease(t) PROVE Contract!Lose \/ UNCHANGED Contract!leaseVars
    BY <2>3 DEF MemoryRelease, Matches
  <2>4. CASE MemoryLook
    BY <2>4 DEF MemoryLook, Swept
  <2>5. CASE MemoryTick
    BY <2>5 DEF MemoryTick
  <2>6. CASE UNCHANGED memoryVars
    BY <2>6 DEF memoryVars
  <2> QED BY <2>1, <2>2, <2>3, <2>4, <2>5, <2>6 DEF MemoryNext
<1> QED BY <1>1, <1>2, MemoryTypeCorrect, MemoryInvariant, PTL DEF MemorySpec, LeaseContract, Contract!LeaseSpec

=============================================================================
