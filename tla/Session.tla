------------------------------- MODULE Session -------------------------------
(***************************************************************************)
(* One Session (src/src/session/session.ts) with the sockets its driver    *)
(* runs, the lock it shares with other instances, and every continuation   *)
(* its awaits leave behind.                                                 *)
(*                                                                          *)
(* JavaScript runs one continuation at a time up to its next await, so an  *)
(* action is one such run: it starts where a call, a timer or a driver     *)
(* event enters the code, or where an await completes, and ends at the     *)
(* next await.  A lane holds one pending continuation: what it is part of  *)
(* (op), the await it stands at (pc), and the locals it will use.          *)
(*                                                                          *)
(* Admits names the overlaps the environment may produce; without one, the *)
(* code between the two ends of that overlap runs undisturbed:             *)
(*   "calls"    an API call made while another is still awaiting           *)
(*   "open"     anything run while a socket is being opened                *)
(*   "backoff"  start() called while a reconnect timer is pending          *)
(*   "renew"    anything run before the lock provider answers a renew      *)
(*   "end"      anything run while the driver is ending a socket that a    *)
(*              fence or the QR limit closed                                *)
(*   "save"     anything run while a credential write is in flight         *)
(*   "unlink"   the phone refusing a logout                                *)
(***************************************************************************)
EXTENDS SessionTable

CONSTANTS ApiLane,     \* API calls that may be awaiting at once
          TimerLane,   \* reconnect timers whose callback may be awaiting
          BeatLane,    \* heartbeats whose renew may be awaiting
          EventLane,   \* driver batches whose handler may be awaiting
          Socket,      \* driver sockets alive at once
          Timer,       \* reconnect timer handles
          Token,       \* lock acquisitions, ours and other instances'
          Nobody,      \* no lane local, no socket, no timer, no token
          Cause,       \* the disconnect causes the driver reports
          QrMax,             \* config.qr.maxAttempts
          ReconnectEnabled,  \* config.reconnect.enabled
          MaxAttempts,       \* config.reconnect.maxAttempts
          QrBound,           \* bound of the QR counter
          Admits

ASSUME CauseAssumption == Cause \subseteq DisconnectCauses
ASSUME NumberAssumption == QrMax \in Nat /\ MaxAttempts \in Nat /\ QrBound \in Nat
ASSUME EnabledAssumption == ReconnectEnabled \in BOOLEAN
ASSUME NobodyAssumption == Nobody \notin Socket \cup Timer \cup Token
ASSUME LaneAssumption == /\ ApiLane \cap BeatLane = {} /\ ApiLane \cap TimerLane = {}
                         /\ ApiLane \cap EventLane = {} /\ BeatLane \cap TimerLane = {}
                         /\ BeatLane \cap EventLane = {} /\ TimerLane \cap EventLane = {}

VARIABLES
  state, suppress, destroyed, queueClosed,   \* #machine, #suppressReconnect, ...
  qrAttempt, attempt,                        \* #qrAttempt, #policy.attempt
  sock, detach,                              \* #socket, and whom #detach detaches
  attached,                                  \* sockets whose batches reach us
  timer, timers,                             \* #timer, and the timers armed
  held, beat,                                \* #held, #heartbeat armed
  auth, stored,                              \* #auth loaded, credentials in storage
  kept,                                      \* history: the last purge failed
  lane,                                      \* the continuations awaiting
  wire,                                      \* driver: down, up or open
  holder, dead                               \* lock: holding token, lapsed tokens

counters == <<qrAttempt, attempt>>
listening == <<sock, detach, attached>>
clocks == <<timer, timers>>
lease == <<held, beat>>
backend == <<holder, dead>>
creds == <<auth, stored, kept>>
flags == <<destroyed, queueClosed>>

vars == <<state, suppress, flags, counters, listening, clocks, lease, creds, lane, wire, backend>>

Lane == ApiLane \cup TimerLane \cup BeatLane \cup EventLane

Idle == [op |-> "none", pc |-> "idle", sock |-> Nobody, token |-> Nobody]
At(op, pc) == [Idle EXCEPT !.op = op, !.pc = pc]

Go(l, pc) == lane' = [lane EXCEPT ![l].pc = pc]
Done(l) == lane' = [lane EXCEPT ![l] = Idle]

Opening(l) == lane[l].pc \in {"acquiring", "acquired", "refused", "loading", "factory"}
Renewing(l) == lane[l].pc \in {"renewing", "renewed", "lost"}
EndingAside(l) == lane[l].pc = "ending" /\ l \notin ApiLane
Saving(l) == lane[l].pc = "saving"

\* No other continuation is inside a stretch that Admits keeps undisturbed.
MayRun(l) ==
  \A k \in Lane \ {l} :
    /\ Opening(k) => "open" \in Admits
    /\ Renewing(k) => "renew" \in Admits
    /\ EndingAside(k) => "end" \in Admits
    /\ Saving(k) => "save" \in Admits

\* A continuation enters the code on lane l.
Enters(l) == lane[l] = Idle /\ MayRun(l)
Calls(l) ==
  /\ Enters(l)
  /\ \/ "calls" \in Admits
     \/ \A k \in ApiLane : lane[k] = Idle

\* The await at pc completes on lane l.
Resumes(l, pc) == lane[l].pc = pc /\ MayRun(l)

\* Sockets that some continuation is ending.
Ending == {lane[l].sock : l \in {k \in Lane : lane[k].pc = "ending"}}
Up == {s \in Socket : wire[s] # "down"}

Init ==
  /\ state = "idle" /\ suppress = FALSE
  /\ destroyed = FALSE /\ queueClosed = FALSE
  /\ qrAttempt = 0 /\ attempt = 0
  /\ sock = Nobody /\ detach = Nobody /\ attached = {}
  /\ timer = Nobody /\ timers = {}
  /\ held = Nobody /\ beat = FALSE
  /\ auth = FALSE /\ stored \in BOOLEAN /\ kept = FALSE
  /\ lane = [l \in Lane |-> Idle]
  /\ wire = [s \in Socket |-> "down"]
  /\ holder = Nobody /\ dead = {}

-----------------------------------------------------------------------------
(* Opening: #acquireLock, #ensureAuth and #openSocket, run by start and by  *)
(* the reconnect timer.                                                      *)

\* #openSocket up to its first await.
OpenSegment(l) ==
  /\ suppress' = FALSE
  /\ Go(l, "loading")

\* Mutant of Startable: the state is compared ad hoc instead of looked up.
StartableUnlessOpen == state # "open"

Startable == Can(state, "start")

\* Mutant of NeedsLock: a reconnect-style start that never asks for the lock.
NeedsLockNever == FALSE

\* #acquireLock asks the provider only when no token is held.
NeedsLock == held = Nobody

\* A closed queue is replaced by a new one, which is open.
QueueAfterStart == FALSE

\* start(): the machine refuses it unless the session is idle or closed.  A
\* lock still held from before is kept, so only the socket is opened then.
Start(l) ==
  /\ Calls(l)
  /\ "backoff" \in Admits \/ timers = {}
  /\ ~destroyed
  /\ Startable
  /\ state' = TryApply(state, "start")
  /\ queueClosed' = QueueAfterStart
  /\ IF NeedsLock
     THEN lane' = [lane EXCEPT ![l] = At("start", "acquiring")] /\ UNCHANGED suppress
     ELSE lane' = [lane EXCEPT ![l] = At("start", "loading")] /\ suppress' = FALSE
  /\ UNCHANGED <<destroyed, counters, listening, clocks, lease, creds, wire, backend>>

\* Tokens nobody remembers, so that one of them can stand for a new grant.
Remembered == {held, holder} \cup {lane[l].token : l \in Lane}
Unminted == Token \ Remembered

\* The provider decides the acquire.
AcquireDecided(l) ==
  /\ Resumes(l, "acquiring")
  /\ IF holder = Nobody
     THEN \E t \in Unminted :
            /\ holder' = t
            /\ dead' = dead \ {t}
            /\ lane' = [lane EXCEPT ![l].pc = "acquired", ![l].token = t]
     ELSE Go(l, "refused") /\ UNCHANGED backend
  /\ UNCHANGED <<state, suppress, flags, counters, listening, clocks, lease, creds, wire>>

\* Mutant of ScheduleRenew: a renew that does not arm the next one.
ScheduleNothing == UNCHANGED beat

\* The heartbeat is armed; one armed before is cleared first.
ScheduleRenew == beat' = TRUE

\* The token is ours: keep it, arm the heartbeat, go on to the socket.
Acquired(l) ==
  /\ Resumes(l, "acquired")
  /\ held' = lane[l].token
  /\ ScheduleRenew
  /\ suppress' = FALSE
  /\ lane' = [lane EXCEPT ![l] = At("start", "loading")]
  /\ UNCHANGED <<state, flags, counters, listening, clocks, creds, wire, backend>>

AuthLoaded(l) ==
  /\ Resumes(l, "loading")
  /\ auth' = TRUE
  /\ Go(l, "factory")
  /\ UNCHANGED <<state, suppress, flags, counters, listening, clocks, lease, stored, kept, wire, backend>>

\* A driver socket no part of the session refers to.
Fresh(s) ==
  /\ wire[s] = "down"
  /\ s \notin attached \cup {sock, detach}
  /\ \A l \in Lane : lane[l].sock # s

\* The factory delivers: the session adopts the socket, whatever happened to
\* the session while it was awaited.
Opened(l) ==
  /\ Resumes(l, "factory")
  /\ \E s \in Socket :
       /\ Fresh(s)
       /\ wire' = [wire EXCEPT ![s] = "up"]
       /\ sock' = s
       /\ detach' = s
       /\ attached' = attached \cup {s}
  /\ Done(l)
  /\ UNCHANGED <<state, suppress, flags, counters, clocks, lease, creds, backend>>

\* The lock is refused or its backend, the storage or the factory throws:
\* start rejects, reconnect reports, and both settle in `closed`.  A lock
\* already taken is kept.
OpenFails(l) ==
  /\ \E pc \in {"acquiring", "refused", "loading", "factory"} : Resumes(l, pc)
  /\ state' = TryApply(state, "disconnected")
  /\ Done(l)
  /\ UNCHANGED <<suppress, flags, counters, listening, clocks, lease, creds, wire, backend>>

-----------------------------------------------------------------------------
(* Closing: stop, destroy, remove and logout.                                *)

\* Mutant of ClearTimer: the handle is forgotten, the timer still runs.
ForgetTimer ==
  /\ timer' = Nobody
  /\ UNCHANGED timers

ClearTimer ==
  /\ timers' = timers \ {timer}
  /\ timer' = Nobody

\* #detachEvents and forgetting the socket.
DropSocket ==
  /\ attached' = attached \ {detach}
  /\ detach' = Nobody
  /\ sock' = Nobody

\* stop(), also as the first part of destroy() and remove().
StopSegment(l, op) ==
  /\ suppress' = TRUE
  /\ ClearTimer
  /\ state' = TryApply(state, "stop")
  /\ queueClosed' = TRUE
  /\ lane' = [lane EXCEPT ![l] = At(op, "draining")]
  /\ UNCHANGED <<counters, listening, lease, creds, wire, backend>>

Stop(l) == Calls(l) /\ StopSegment(l, "stop") /\ UNCHANGED destroyed

Remove(l) == Calls(l) /\ StopSegment(l, "remove") /\ UNCHANGED destroyed

Destroy(l) == Calls(l) /\ ~destroyed /\ destroyed' = TRUE /\ StopSegment(l, "destroy")

\* Mutant of AfterRelease: a logout that leaves the credentials behind.
AfterReleaseNoPurge(l) ==
  IF lane[l].op = "remove" THEN At("remove", "purging") ELSE Idle

\* The call releases what it holds: the heartbeat and the token are forgotten
\* before the provider is asked.
AfterRelease(l) ==
  IF lane[l].op \in {"remove", "logout"} THEN At(lane[l].op, "purging") ELSE Idle
Settled(op) == TryApply(state, IF op = "logout" THEN "logged_out" ELSE "stopped")

\* The heartbeat is cleared and the token forgotten.
ForgetLease ==
  /\ beat' = FALSE
  /\ held' = Nobody

ReleaseSegment(l) ==
  /\ ForgetLease
  /\ IF held = Nobody
     THEN lane' = [lane EXCEPT ![l] = AfterRelease(l)] /\ state' = Settled(lane[l].op)
     ELSE /\ lane' = [lane EXCEPT ![l] = [At(lane[l].op, "releasing") EXCEPT !.token = held]]
          /\ UNCHANGED state

\* Mutant of NothingToEnd: the end of the socket is not awaited.
EndNotAwaited == TRUE

\* #closeSocket returns at once when there is no socket.
NothingToEnd == sock = Nobody

\* The send queue is drained; the socket is dropped and ended, if there is one.
Drained(l) ==
  /\ Resumes(l, "draining")
  /\ DropSocket
  /\ IF NothingToEnd
     THEN ReleaseSegment(l)
     ELSE /\ lane' = [lane EXCEPT ![l].pc = "ending", ![l].sock = sock]
          /\ UNCHANGED <<state, lease>>
  /\ UNCHANGED <<suppress, flags, counters, clocks, creds, wire, backend>>

\* The driver has ended the socket, or threw: both count as down.
Ended(l) ==
  /\ Resumes(l, "ending")
  /\ wire' = [wire EXCEPT ![lane[l].sock] = "down"]
  /\ IF l \in ApiLane
     THEN ReleaseSegment(l)
     ELSE Done(l) /\ UNCHANGED <<state, lease>>
  /\ UNCHANGED <<suppress, flags, counters, listening, clocks, creds, backend>>

\* The provider releases the token if it still holds the key, or fails.
Released(l) ==
  /\ Resumes(l, "releasing")
  /\ holder' \in {holder, IF holder = lane[l].token THEN Nobody ELSE holder}
  /\ state' = Settled(lane[l].op)
  /\ lane' = [lane EXCEPT ![l] = AfterRelease(l)]
  /\ UNCHANGED <<suppress, flags, counters, listening, clocks, lease, creds, wire, dead>>

\* #purgeAuth: storage is cleared and the in-memory credentials are dropped.
Purged(l) ==
  /\ Resumes(l, "purging")
  /\ stored' = FALSE
  /\ auth' = FALSE
  /\ kept' = FALSE
  /\ Done(l)
  /\ UNCHANGED <<state, suppress, flags, counters, listening, clocks, lease, wire, backend>>

\* #purgeAuth throws: the credentials could not be loaded, or the clear failed,
\* before or after it reached them.  The handle stays, and so may the
\* credentials; the call rejects, or onClose reports it, and the state stays.
PurgeFails(l) ==
  /\ Resumes(l, "purging")
  /\ \/ ~auth /\ UNCHANGED <<auth, stored>>
     \/ auth' = TRUE /\ stored' \in {stored, FALSE}
  /\ kept' = TRUE
  /\ Done(l)
  /\ UNCHANGED <<state, suppress, flags, counters, listening, clocks, lease, wire, backend>>

\* logout(): listening stops before the phone is asked.
Logout(l) ==
  /\ Calls(l)
  /\ ~destroyed
  /\ state = "open" /\ sock # Nobody
  /\ suppress' = TRUE
  /\ ClearTimer
  /\ attached' = attached \ {detach}
  /\ detach' = Nobody
  /\ lane' = [lane EXCEPT ![l] = [At("logout", "unlinking") EXCEPT !.sock = sock]]
  /\ UNCHANGED <<state, flags, counters, sock, lease, creds, wire, backend>>

Unlinked(l) ==
  /\ Resumes(l, "unlinking")
  /\ DropSocket
  /\ IF NothingToEnd
     THEN ReleaseSegment(l)
     ELSE /\ lane' = [lane EXCEPT ![l].pc = "ending", ![l].sock = sock]
          /\ UNCHANGED <<state, lease>>
  /\ UNCHANGED <<suppress, flags, counters, clocks, creds, wire, backend>>

\* The credentials are kept and logout throws; nothing listens again.
UnlinkFails(l) ==
  /\ "unlink" \in Admits
  /\ Resumes(l, "unlinking")
  /\ suppress' = FALSE
  /\ Done(l)
  /\ UNCHANGED <<state, flags, counters, listening, clocks, lease, creds, wire, backend>>

Reset(l) ==
  /\ Calls(l)
  /\ ~destroyed
  /\ Can(state, "reset")
  /\ state' = TryApply(state, "reset")
  /\ qrAttempt' = 0
  /\ attempt' = 0
  /\ UNCHANGED <<suppress, flags, listening, clocks, lease, creds, lane, wire, backend>>

-----------------------------------------------------------------------------
(* Driver events, delivered only while our listener is attached.  A socket  *)
(* issues QR codes until it opens, opens once, closes once, and is silent   *)
(* after that.                                                               *)

\* #onQr, with the limit that closes the session.
OnQr(l, s) ==
  /\ Enters(l)
  /\ wire[s] = "up" /\ s \in attached
  /\ qrAttempt < QrBound
  /\ qrAttempt' = qrAttempt + 1
  /\ IF qrAttempt' > QrMax
     THEN /\ suppress' = TRUE
          /\ state' = TryApply(TryApply(state, "qr"), "qr_exhausted")
          /\ DropSocket
          /\ lane' = IF sock = Nobody THEN lane
                     ELSE [lane EXCEPT ![l] = [At("event", "ending") EXCEPT !.sock = sock]]
     ELSE /\ state' = TryApply(state, "qr")
          /\ UNCHANGED <<suppress, listening, lane>>
  /\ UNCHANGED <<flags, attempt, clocks, lease, creds, wire, backend>>

OnOpen(l, s) ==
  /\ Enters(l)
  /\ wire[s] = "up" /\ s \in attached
  /\ wire' = [wire EXCEPT ![s] = "open"]
  /\ state' = TryApply(state, "connected")
  /\ attempt' = 0
  /\ qrAttempt' = 0
  /\ UNCHANGED <<suppress, flags, listening, clocks, lease, creds, lane, backend>>

\* A reconnect is planned: a timer is armed over whatever #timer held.
PlanReconnect(c) ==
  IF ~suppress /\ Retries(c, ReconnectEnabled, attempt, MaxAttempts)
  THEN /\ \E t \in Timer \ timers : timer' = t /\ timers' = timers \cup {t}
       /\ attempt' = AttemptAfter(c, ReconnectEnabled, attempt, MaxAttempts)
  ELSE UNCHANGED <<timer, timers, attempt>>

\* #onClose.  A cause that purges is terminal, so nothing is planned after it.
OnClose(l, s, c) ==
  /\ Enters(l)
  /\ s \in Up \cap attached
  /\ wire' = [wire EXCEPT ![s] = "down"]
  /\ state' = TryApply(state, DisconnectTrigger(c, state))
  /\ attached' = attached \ {detach, s}
  /\ detach' = Nobody
  /\ sock' = Nobody
  /\ IF c \in PurgesCreds
     THEN lane' = [lane EXCEPT ![l] = At("event", "purging")] /\ UNCHANGED <<clocks, attempt>>
     ELSE PlanReconnect(c) /\ UNCHANGED lane
  /\ UNCHANGED <<suppress, flags, qrAttempt, lease, creds, backend>>

\* The peer drops a socket we no longer listen to.
ClosedUnheard(s) ==
  /\ s \in Up \ attached
  /\ wire' = [wire EXCEPT ![s] = "down"]
  /\ UNCHANGED <<state, suppress, flags, counters, listening, clocks, lease, creds, lane, backend>>

\* creds.update: written through the handle loaded at that moment, if any.
OnCreds(l, s) ==
  /\ Enters(l)
  /\ s \in Up \cap attached
  /\ auth
  /\ lane' = [lane EXCEPT ![l] = At("event", "saving")]
  /\ UNCHANGED <<state, suppress, flags, counters, listening, clocks, lease, creds, wire, backend>>

CredsSaved(l) ==
  /\ Resumes(l, "saving")
  /\ stored' \in {TRUE, stored}
  /\ Done(l)
  /\ UNCHANGED <<state, suppress, flags, counters, listening, clocks, lease, auth, kept, wire, backend>>

-----------------------------------------------------------------------------
(* Timers: #reconnect and #renew.                                            *)

\* A reconnect timer fires.
Reconnect(l, t) ==
  /\ Enters(l)
  /\ t \in timers
  /\ timers' = timers \ {t}
  /\ timer' = Nobody
  /\ LET next == IF state = "closed" THEN TryApply(state, "reconnect") ELSE state
     IN IF suppress \/ destroyed
        THEN UNCHANGED <<state, suppress, lane>>
        ELSE /\ state' = next
             /\ IF next = "connecting"
                THEN /\ suppress' = FALSE
                     /\ lane' = [lane EXCEPT ![l] = At("reconnect", "loading")]
                ELSE UNCHANGED <<suppress, lane>>
  /\ UNCHANGED <<flags, counters, listening, lease, creds, wire, backend>>

\* The heartbeat fires; a session that holds nothing lets it end.
Beat(l) ==
  /\ Enters(l)
  /\ beat
  /\ beat' = FALSE
  /\ lane' = IF held = Nobody \/ destroyed THEN lane
             ELSE [lane EXCEPT ![l] = [At("renew", "renewing") EXCEPT !.token = held]]
  /\ UNCHANGED <<state, suppress, flags, counters, listening, clocks, held, creds, wire, backend>>

\* The provider decides the renew: only the live holder's token is extended.
RenewDecided(l) ==
  /\ Resumes(l, "renewing")
  /\ Go(l, IF holder = lane[l].token THEN "renewed" ELSE "lost")
  /\ UNCHANGED <<state, suppress, flags, counters, listening, clocks, lease, creds, wire, backend>>

Renewed(l) ==
  /\ Resumes(l, "renewed")
  /\ held' = lane[l].token
  /\ ScheduleRenew
  /\ Done(l)
  /\ UNCHANGED <<state, suppress, flags, counters, listening, clocks, creds, wire, backend>>

\* #onFenced, up to the socket's end.
FenceSegment(l) ==
  /\ ForgetLease
  /\ suppress' = TRUE
  /\ ClearTimer
  /\ state' = TryApply(state, "fenced")
  /\ DropSocket
  /\ lane' = [lane EXCEPT ![l] = IF sock = Nobody THEN Idle
                                 ELSE [At("renew", "ending") EXCEPT !.sock = sock]]
  /\ UNCHANGED <<flags, counters, creds, wire, backend>>

Fenced(l) == Resumes(l, "lost") /\ FenceSegment(l)

\* The provider throws.  Retried while the lease last heard of is unexpired.
RenewThrows(l) ==
  /\ Resumes(l, "renewing")
  /\ IF lane[l].token \in dead
     THEN FenceSegment(l)
     ELSE /\ ScheduleRenew
          /\ Done(l)
          /\ UNCHANGED <<state, suppress, flags, counters, listening, clocks, held, creds,
                         wire, backend>>

-----------------------------------------------------------------------------
(* The lock as other instances and the clock change it.                      *)

\* Another instance takes a free key.
RivalTakes ==
  /\ holder = Nobody
  /\ \E t \in Unminted : holder' = t /\ dead' = dead \ {t}
  /\ UNCHANGED <<state, suppress, flags, counters, listening, clocks, lease, creds, lane, wire>>

\* A lease runs out, or another instance releases its own.
Lapse(t) ==
  /\ t \in (Remembered \ {Nobody}) \ dead
  /\ dead' = dead \cup {t}
  /\ holder' = IF holder = t THEN Nobody ELSE holder
  /\ UNCHANGED <<state, suppress, flags, counters, listening, clocks, lease, creds, lane, wire>>

-----------------------------------------------------------------------------
Call(l) == Start(l) \/ Stop(l) \/ Remove(l) \/ Destroy(l) \/ Logout(l) \/ Reset(l)

Event(l) ==
  \E s \in Socket : \/ OnQr(l, s) \/ OnOpen(l, s) \/ OnCreds(l, s)
                    \/ \E c \in Cause : OnClose(l, s, c)

\* The await of lane l completes.
Resume(l) ==
  \/ AcquireDecided(l) \/ Acquired(l) \/ AuthLoaded(l) \/ Opened(l) \/ OpenFails(l)
  \/ Drained(l) \/ Ended(l) \/ Released(l) \/ Purged(l) \/ PurgeFails(l)
  \/ Unlinked(l) \/ UnlinkFails(l)
  \/ CredsSaved(l) \/ RenewDecided(l) \/ Renewed(l) \/ Fenced(l) \/ RenewThrows(l)

Fire(l) == \E t \in Timer : Reconnect(l, t)

Next ==
  \/ \E l \in ApiLane : Call(l)
  \/ \E l \in EventLane : Event(l)
  \/ \E l \in TimerLane : Fire(l)
  \/ \E l \in BeatLane : Beat(l)
  \/ \E l \in Lane : Resume(l)
  \/ \E s \in Socket : ClosedUnheard(s)
  \/ RivalTakes
  \/ \E t \in Token : Lapse(t)

Spec == Init /\ [][Next]_vars

\* The event loop runs every continuation whose await completes and every
\* timer that is due, in turn: a stretch Admits keeps undisturbed delays them
\* but never starves them, hence the strong form.  Callers, peers and other
\* instances owe nothing.
Fairness ==
  /\ \A l \in Lane : SF_vars(Resume(l))
  /\ \A l \in TimerLane : SF_vars(Fire(l))
  /\ \A l \in BeatLane : SF_vars(Beat(l))

FairSpec == Spec /\ Fairness

-----------------------------------------------------------------------------
(* Properties                                                               *)

Ops == {"none", "start", "reconnect", "stop", "remove", "destroy", "logout", "event", "renew"}
Pcs == {"idle", "acquiring", "acquired", "refused", "loading", "factory", "draining",
        "ending", "releasing", "purging", "unlinking", "saving", "renewing", "renewed", "lost"}

\* The types; the attempts consumed stay within config.reconnect.maxAttempts.
TypeOK ==
  /\ state \in SessionStates
  /\ suppress \in BOOLEAN /\ destroyed \in BOOLEAN /\ queueClosed \in BOOLEAN
  /\ qrAttempt \in Nat /\ attempt \in Nat /\ WithinCap(attempt, MaxAttempts)
  /\ sock \in Socket \cup {Nobody} /\ detach \in Socket \cup {Nobody}
  /\ attached \subseteq Socket
  /\ timer \in Timer \cup {Nobody} /\ timers \subseteq Timer
  /\ held \in Token \cup {Nobody} /\ beat \in BOOLEAN
  /\ auth \in BOOLEAN /\ stored \in BOOLEAN /\ kept \in BOOLEAN
  /\ lane \in [Lane -> [op : Ops, pc : Pcs, sock : Socket \cup {Nobody},
                        token : Token \cup {Nobody}]]
  /\ wire \in [Socket -> {"down", "up", "open"}]
  /\ holder \in Token \cup {Nobody} /\ dead \subseteq Token

Awaits(pcs) == \E l \in Lane : lane[l].pc \in pcs
OpeningNow == \E l \in Lane : Opening(l)
ApiBusy == \E l \in ApiLane : lane[l] # Idle

\* Every driver socket on the wire is the session's own, or is being ended:
\* none is leaked ("One session: one socket, one machine", session.ts:2).
NoOrphanSocket == Up \subseteq {sock} \cup Ending

\* No socket is on the wire without the lock: the token held is the one the
\* provider honours, or its lease ran out and the heartbeat is yet to notice.
\* Only a socket already being ended may outlive it (lock.ts:4-7).
SocketUnderLease ==
  \A s \in Up \ Ending : held # Nobody /\ (holder = held \/ held \in dead)

\* The lock is given up only once no socket is left on the wire
\* (session.ts:190-191).
ReleasedAfterSocket == Awaits({"releasing"}) => Up = {}

\* While a token is held, a heartbeat is armed or a renew is on its way:
\* a lost lease cannot go unnoticed.  A destroyed session stops renewing.
HeldIsGuarded ==
  held # Nobody => beat \/ destroyed \/ \E l \in BeatLane : Renewing(l)

\* A settled session listens to no socket, and after a stop, a fence or the
\* QR limit no reconnect is waiting to undo it.
DownMeansDown ==
  /\ state \in {"idle", "closed", "logged_out"} /\ ~OpeningNow =>
       sock = Nobody /\ attached = {}
  /\ suppress => timers = {}

\* #socket is set and #detach is not: a logout has stopped listening.
Deaf == sock # Nobody /\ detach = Nobody

\* A session said to be coming up or open can still move: something of it
\* listens to a live socket, is opening one, or is about to.  Only one whose
\* logout the phone refused stays as it is (session.ts:212).
NotStranded ==
  state \in {"connecting", "awaiting_scan", "open"} =>
     \/ sock \in Up \cap attached
     \/ OpeningNow \/ timers # {} \/ ApiBusy \/ Awaits({"ending", "purging"})
     \/ state = "open" /\ Deaf

\* A session that is logged out and at rest has nothing left of the credentials,
\* on disk or in memory, whichever call or disconnect logged it out: unless its
\* purge threw, which logout() and remove() reject with and a disconnect emits
\* as session.error (session.ts:227, 239, 671-672).
PurgeIsFinal ==
  state = "logged_out" /\ (\A l \in Lane : lane[l] = Idle) /\ ~kept => ~stored /\ ~auth

\* A lease that ran out is noticed by the heartbeat and given up.
LapseIsNoticed == (held # Nobody /\ held \in dead) ~> (held \notin dead)

\* `connecting` is a passage, not a place to stay without a socket.
ConnectingMoves == state = "connecting" ~> (state # "connecting" \/ sock # Nobody)

\* Fail-stop, "hold the lock or do not run" (lock.ts:6): a lapse does not go
\* unnoticed, whatever the heartbeat meets; and a session that is coming up gets
\* a socket or gives up, whatever its opens and its reconnect policy come to.
NothingHangs == LapseIsNoticed /\ ConnectingMoves
=============================================================================
