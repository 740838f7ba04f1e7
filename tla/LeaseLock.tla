------------------------------ MODULE LeaseLock ------------------------------
(***************************************************************************)
(* memoryLock (src/src/lock.ts): the lock provider every client uses by    *)
(* default, for one key.  Callers present the tokens they were handed, the *)
(* stale ones included, in any order and at any time; the clock is the one *)
(* the provider reads.                                                      *)
(***************************************************************************)
EXTENDS LockClients

CONSTANT NoEntry     \* the key is absent from the map

ASSUME NoEntryAssumption == NoEntry \notin [token : Token, expiresAt : Nat]
ASSUME NoTokenAssumption == NoEntry \notin Token

VARIABLES locks,    \* the map's entry under the key
          past      \* tokens handed out so far

memoryVars == <<now, locks, past, owner, known, gaveUp>>

Entry == [token : Token, expiresAt : Nat]

\* Mutant of Unexpired: stealable in the last millisecond of the lease.
UnexpiredStrict(t) == t > now

\* The lease has not lapsed: `held.expiresAt >= now()`.
Unexpired(t) == t >= now

\* `live(key) !== null`.  A lapsed entry is deleted when it is seen.
Live == locks # NoEntry /\ Unexpired(locks.expiresAt)
Swept == IF Live THEN locks ELSE NoEntry

\* Mutant of Matches: the release is matched on the owner alone.
MatchesOwner(t) == locks # NoEntry /\ owner[locks.token] = owner[t]

\* `locks.get(key)?.token === token.token`, whether or not the lease lapsed.
Matches(t) == locks # NoEntry /\ locks.token = t

\* Mutant of Renewable: renews a lapsed entry nobody has taken yet.
RenewableLapsed(t) == Matches(t)

\* `live(token.key)?.token === token.token`
Renewable(t) == Live /\ Matches(t)

MemoryInit ==
  /\ now = 0
  /\ locks = NoEntry
  /\ past = {}
  /\ owner \in [Token -> Client]
  /\ known = [t \in Token |-> 0]
  /\ gaveUp = {}

Install(t) ==
  /\ locks' = [token |-> t, expiresAt |-> now + TTL]
  /\ known' = [known EXCEPT ![t] = now + TTL]

\* acquire, when it returns a token.  Refused (null) while the entry is live.
MemoryAcquire(c, t) ==
  /\ ~Live
  /\ t \notin past
  /\ Install(t)
  /\ past' = past \cup {t}
  /\ owner' = [owner EXCEPT ![t] = c]
  /\ UNCHANGED <<now, gaveUp>>

\* renew with any token ever handed out.
MemoryRenew(t) ==
  /\ t \in past
  /\ IF Renewable(t)
     THEN Install(t)
     ELSE locks' = Swept /\ UNCHANGED known
  /\ UNCHANGED <<now, past, owner, gaveUp>>

\* release with any token ever handed out, and as often as the caller likes.
MemoryRelease(t) ==
  /\ t \in past
  /\ locks' = IF Matches(t) THEN NoEntry ELSE locks
  /\ gaveUp' = gaveUp \cup {t}
  /\ UNCHANGED <<now, past, owner, known>>

\* inspect, and an acquire that is refused: both only sweep a lapsed entry.
MemoryLook ==
  /\ locks' = Swept
  /\ UNCHANGED <<now, past, owner, known, gaveUp>>

MemoryTick ==
  /\ now < MaxNow
  /\ now' = now + 1
  /\ UNCHANGED <<locks, past, owner, known, gaveUp>>

MemoryNext ==
  \/ \E c \in Client, t \in Token : MemoryAcquire(c, t)
  \/ \E t \in Token : MemoryRenew(t) \/ MemoryRelease(t)
  \/ MemoryLook
  \/ MemoryTick

MemorySpec == MemoryInit /\ [][MemoryNext]_memoryVars

-----------------------------------------------------------------------------
(* Properties                                                               *)

\* The types; an entry's token is one handed out and not yet given up, so that
\* no late call of a former holder brings its lease back.
MemoryTypeOK ==
  /\ now \in Nat
  /\ locks \in Entry \cup {NoEntry}
  /\ locks # NoEntry => locks.token \in past \ gaveUp
  /\ past \subseteq Token
  /\ owner \in [Token -> Client]
  /\ known \in [Token -> Nat]
  /\ gaveUp \subseteq past

\* What a holder can tell by itself: it was granted the token, has not given
\* it up, and the expiry it was last told has not passed.
BelievesHolding(t) == t \in past \ gaveUp /\ known[t] >= now

\* Two acquisitions never both have reason to believe they hold the key:
\* "hold the lock or do not run -- and never split-brain" (lock.ts:6-7).
\* The holder's arithmetic and the provider's must agree to the millisecond.
AtMostOneBeliever ==
  \A t, u \in Token : BelievesHolding(t) /\ BelievesHolding(u) => t = u

\* Whoever believes it holds the key is the one the provider would renew.
BeliefIsBacked == \A t \in Token : BelievesHolding(t) => Renewable(t)

\* A lease that lapsed is a loss even if nobody has taken the key since: no
\* step extends it, so a stalled process cannot resume (lock.ts:121-123).
LapsedIsLost ==
  [][\A t \in past : known[t] < now => known'[t] = known[t]]_memoryVars

\* A live entry is only ever displaced by a release that presents its own
\* token: neither time, nor another acquire, nor the release of an older
\* token of the same instance takes it away (lock.ts:51-57).
LiveEntrySurvives ==
  [][Live => \/ locks' # NoEntry /\ locks'.token = locks.token
             \/ locks' = NoEntry /\ locks.token \in gaveUp' \ gaveUp]_memoryVars

\* The contract of every LockProvider, with the live entry as the holder.
Contract == INSTANCE Lease WITH None <- NoEntry,
                                holder <- IF Live THEN locks.token ELSE NoEntry
LeaseContract == Contract!LeaseSpec

=============================================================================
