---------------------------- MODULE SessionProofs ----------------------------
(***************************************************************************)
(* Session for every number of lanes, sockets, timers and tokens, every    *)
(* configuration and every set of overlaps: its types.  Then its safety     *)
(* where no call overlaps another, an open or a pending reconnect: renews,  *)
(* ends, credential writes and refused logouts may overlap anything, but    *)
(* for the one property each would break; and a purge is final even where   *)
(* calls overlap calls or a backoff.                                        *)
(***************************************************************************)
EXTENDS Session, TLAPS

LaneRecord == [op : Ops, pc : Pcs, sock : Socket \cup {Nobody}, token : Token \cup {Nobody}]

\* The machine stays in the table whatever trigger is tried.
LEMMA TryApplyType ==
  ASSUME NEW from \in SessionStates, NEW trigger
  PROVE  TryApply(from, trigger) \in SessionStates
<1>1. CASE Can(from, trigger)
  <2>1. PICK to \in SessionStates : <<from, trigger, to>> \in Transitions
    BY <1>1 DEF Can
  <2> QED BY <1>1, <2>1 DEF TryApply
<1>2. CASE ~Can(from, trigger)
  BY <1>2 DEF TryApply
<1> QED BY <1>1, <1>2

\* Lane records the steps build.
LEMMA AtType ==
  ASSUME NEW op \in Ops, NEW pc \in Pcs
  PROVE  At(op, pc) \in LaneRecord
BY DEF At, Idle, LaneRecord, Ops, Pcs

LEMMA IdleType == Idle \in LaneRecord
BY DEF Idle, LaneRecord, Ops, Pcs

\* A step that writes one lane keeps the lanes typed.
LEMMA OneLane ==
  ASSUME lane \in [Lane -> LaneRecord], NEW l \in Lane, NEW r \in LaneRecord,
         lane' = [lane EXCEPT ![l] = r]
  PROVE  lane' \in [Lane -> LaneRecord]
OBVIOUS

LEMMA GoType ==
  ASSUME lane \in [Lane -> LaneRecord], NEW l \in Lane, NEW pc \in Pcs, Go(l, pc)
  PROVE  lane' \in [Lane -> LaneRecord]
BY DEF Go, LaneRecord

LEMMA DoneType ==
  ASSUME lane \in [Lane -> LaneRecord], NEW l \in Lane, Done(l)
  PROVE  lane' \in [Lane -> LaneRecord]
BY IdleType DEF Done

LEMMA EndingType ==
  ASSUME NEW op \in Ops, NEW s \in Socket \cup {Nobody}, NEW pc \in Pcs
  PROVE  [At(op, pc) EXCEPT !.sock = s] \in LaneRecord
BY DEF At, Idle, LaneRecord, Ops, Pcs

LEMMA TokenLaneType ==
  ASSUME NEW op \in Ops, NEW t \in Token \cup {Nobody}, NEW pc \in Pcs
  PROVE  [At(op, pc) EXCEPT !.token = t] \in LaneRecord
BY DEF At, Idle, LaneRecord, Ops, Pcs

\* A record of a lane with another step and another token is a record of a lane.
LEMMA TokenStepType ==
  ASSUME NEW r \in LaneRecord, NEW t \in Token \cup {Nobody}, NEW pc \in Pcs
  PROVE  [r EXCEPT !.pc = pc, !.token = t] \in LaneRecord
BY DEF LaneRecord

LEMMA DropType ==
  ASSUME TypeOK, DropSocket
  PROVE  sock' \in Socket \cup {Nobody} /\ detach' \in Socket \cup {Nobody}
         /\ attached' \subseteq Socket
BY DEF TypeOK, DropSocket

LEMMA ReleaseType ==
  ASSUME TypeOK, NEW l \in Lane, ReleaseSegment(l)
  PROVE  /\ held' \in Token \cup {Nobody}
         /\ beat' \in BOOLEAN
         /\ lane' \in [Lane -> LaneRecord]
         /\ state' \in SessionStates
<1>0. lane[l].op \in Ops /\ lane \in [Lane -> LaneRecord]
  BY DEF TypeOK, LaneRecord
<1>1. AfterRelease(l) \in LaneRecord
  BY <1>0, IdleType, AtType DEF AfterRelease, Pcs
<1>2. [At(lane[l].op, "releasing") EXCEPT !.token = held] \in LaneRecord
  BY <1>0, TokenLaneType DEF TypeOK, Pcs
<1>3. Settled(lane[l].op) \in SessionStates
  BY TryApplyType DEF Settled, TypeOK
<1> QED BY <1>0, <1>1, <1>2, <1>3 DEF ReleaseSegment, ForgetLease, TypeOK

-----------------------------------------------------------------------------
LEMMA InitType == Init => TypeOK
<1> SUFFICES ASSUME Init PROVE TypeOK
  OBVIOUS
<1>1. lane \in [Lane -> LaneRecord]
  BY IdleType DEF Init
<1>2. wire \in [Socket -> {"down", "up", "open"}]
  BY DEF Init
<1>3. attempt \in Nat /\ qrAttempt \in Nat /\ WithinCap(attempt, MaxAttempts)
  BY NumberAssumption DEF Init, WithinCap
<1> QED BY <1>1, <1>2, <1>3 DEF Init, TypeOK, SessionStates, LaneRecord

\* Each group of actions keeps the types; the groups are those of Next.
LEMMA CallType == ASSUME TypeOK, NEW l \in ApiLane, Call(l) PROVE TypeOK'
<1> USE DEF TypeOK, flags, counters, listening, clocks, lease, creds, backend
<1>0. l \in Lane /\ lane \in [Lane -> LaneRecord]
  BY DEF Lane, LaneRecord
<1>t. \A trigger : TryApply(state, trigger) \in SessionStates
  BY TryApplyType
<1>1. ASSUME Start(l) PROVE TypeOK'
  <2>1. lane' \in [Lane -> LaneRecord]
    BY <1>0, <1>1, AtType DEF Start, Ops, Pcs
  <2> QED BY <1>1, <1>t, <2>1 DEF Start, QueueAfterStart, LaneRecord
<1>2. ASSUME NEW op \in Ops, StopSegment(l, op), destroyed' \in BOOLEAN PROVE TypeOK'
  <2>1. lane' \in [Lane -> LaneRecord]
    BY <1>0, <1>2, AtType DEF StopSegment, Pcs
  <2> QED BY <1>2, <1>t, <2>1 DEF StopSegment, ClearTimer, LaneRecord
<1>3. ASSUME Logout(l) PROVE TypeOK'
  <2>1. lane' \in [Lane -> LaneRecord]
    BY <1>0, <1>3, EndingType DEF Logout, Ops, Pcs
  <2> QED BY <1>3, <2>1 DEF Logout, ClearTimer, LaneRecord
<1>4. ASSUME Reset(l) PROVE TypeOK'
  BY <1>4, <1>t, NumberAssumption DEF Reset, WithinCap
<1>5. ASSUME Stop(l) \/ Remove(l) \/ Destroy(l) PROVE TypeOK'
  BY <1>2, <1>5 DEF Stop, Remove, Destroy, Ops
<1> QED BY <1>1, <1>3, <1>4, <1>5 DEF Call

LEMMA EventType == ASSUME TypeOK, NEW l \in EventLane, Event(l) PROVE TypeOK'
<1> USE DEF TypeOK, flags, counters, listening, clocks, lease, creds, backend
<1>0. l \in Lane /\ lane \in [Lane -> LaneRecord]
  BY DEF Lane, LaneRecord
<1>t. \A trigger : TryApply(state, trigger) \in SessionStates
  BY TryApplyType
<1>1. ASSUME NEW s \in Socket, OnQr(l, s) PROVE TypeOK'
  <2>1. lane' \in [Lane -> LaneRecord]
    BY <1>0, <1>1, EndingType DEF OnQr, Ops, Pcs
  <2>2. TryApply(TryApply(state, "qr"), "qr_exhausted") \in SessionStates
    BY <1>t, TryApplyType
  <2>3. state' \in SessionStates
    <3>1. TryApply(state, "qr") \in SessionStates
      BY <1>t
    <3> QED BY <1>1, <2>2, <3>1 DEF OnQr
  <2>5. suppress' \in BOOLEAN
    BY <1>1 DEF OnQr
  <2>6. qrAttempt' \in Nat
    BY <1>1 DEF OnQr
  <2>4. /\ sock' \in Socket \cup {Nobody} /\ detach' \in Socket \cup {Nobody}
        /\ attached' \subseteq Socket
    BY <1>1 DEF OnQr, DropSocket
  <2> QED BY <1>1, <2>1, <2>3, <2>4, <2>5, <2>6 DEF OnQr, LaneRecord
<1>2. ASSUME NEW s \in Socket, OnOpen(l, s) PROVE TypeOK'
  BY <1>2, <1>t, NumberAssumption DEF OnOpen, WithinCap
<1>3. ASSUME NEW s \in Socket, OnCreds(l, s) PROVE TypeOK'
  <2>1. lane' \in [Lane -> LaneRecord]
    BY <1>0, <1>3, AtType DEF OnCreds, Ops, Pcs
  <2> QED BY <1>3, <2>1 DEF OnCreds, LaneRecord
<1>4. ASSUME NEW s \in Socket, NEW c \in Cause, OnClose(l, s, c) PROVE TypeOK'
  <2>1. lane' \in [Lane -> LaneRecord]
    BY <1>0, <1>4, AtType DEF OnClose, Ops, Pcs
  <2>2. attempt' \in Nat /\ WithinCap(attempt', MaxAttempts)
    <3>1. CASE attempt' = attempt
      BY <3>1
    <3>2. CASE attempt' # attempt
      <4>1. /\ attempt' = attempt + 1
            /\ Retries(c, ReconnectEnabled, attempt, MaxAttempts) /\ c \in BackoffCauses
        BY <1>4, <3>2 DEF OnClose, PlanReconnect, AttemptAfter
      <4>2. c \notin ImmediateCauses
        BY <4>1 DEF BackoffCauses, ImmediateCauses
      <4> QED BY <4>1, <4>2 DEF Retries
    <3> QED BY <3>1, <3>2
  <2>3. timer' \in Timer \cup {Nobody} /\ timers' \subseteq Timer
    BY <1>4 DEF OnClose, PlanReconnect
  <2> QED BY <1>4, <1>t, <2>1, <2>2, <2>3 DEF OnClose, LaneRecord
<1> QED BY <1>1, <1>2, <1>3, <1>4 DEF Event

LEMMA FenceType == ASSUME TypeOK, NEW l \in Lane, FenceSegment(l) PROVE TypeOK'
<1> USE DEF TypeOK, flags, counters, listening, clocks, lease, creds
<1>1. lane' \in [Lane -> LaneRecord]
  <2>1. lane \in [Lane -> LaneRecord]
    BY DEF LaneRecord
  <2> QED BY <2>1, IdleType, EndingType DEF FenceSegment, ForgetLease, Ops, Pcs
<1>2. TryApply(state, "fenced") \in SessionStates
  BY TryApplyType
<1> QED BY <1>1, <1>2 DEF FenceSegment, ForgetLease, ClearTimer, DropSocket, backend, LaneRecord

LEMMA TimerType ==
  ASSUME TypeOK, NEW l \in Lane, Fire(l) \/ Beat(l)
  PROVE  TypeOK'
<1> USE DEF TypeOK, flags, counters, listening, clocks, lease, creds, backend
<1>0. lane \in [Lane -> LaneRecord]
  BY DEF LaneRecord
<1>1. ASSUME NEW t \in Timer, Reconnect(l, t) PROVE TypeOK'
  <2>1. lane' \in [Lane -> LaneRecord]
    BY <1>0, <1>1, AtType DEF Reconnect, Ops, Pcs
  <2>2. state' \in SessionStates
    BY <1>1, TryApplyType DEF Reconnect
  <2> QED BY <1>1, <2>1, <2>2 DEF Reconnect, LaneRecord
<1>2. ASSUME Beat(l) PROVE TypeOK'
  <2>1. lane' \in [Lane -> LaneRecord]
    BY <1>0, <1>2, TokenLaneType DEF Beat, Ops, Pcs
  <2> QED BY <1>2, <2>1 DEF Beat, LaneRecord
<1> QED BY <1>1, <1>2 DEF Fire

LEMMA OpeningType ==
  ASSUME TypeOK, NEW l \in Lane,
         AcquireDecided(l) \/ Acquired(l) \/ AuthLoaded(l) \/ Opened(l) \/ OpenFails(l)
  PROVE  TypeOK'
<1> USE DEF TypeOK, flags, counters, listening, clocks, lease, creds, backend
<1>0. lane \in [Lane -> LaneRecord]
  BY DEF LaneRecord
<1>1. ASSUME AcquireDecided(l) PROVE TypeOK'
  <2>1. CASE holder = Nobody
    <3>1. PICK t \in Unminted :
            /\ holder' = t
            /\ dead' = dead \ {t}
            /\ lane' = [lane EXCEPT ![l].pc = "acquired", ![l].token = t]
      BY <1>1, <2>1 DEF AcquireDecided
    <3>2. t \in Token
      BY DEF Unminted
    <3>3. [lane[l] EXCEPT !.pc = "acquired", !.token = t] \in LaneRecord
      BY <1>0, <3>2, TokenStepType DEF Pcs
    <3>4. lane' \in [Lane -> LaneRecord]
      BY <1>0, <3>1, <3>3
    <3> QED BY <1>1, <3>1, <3>2, <3>4 DEF AcquireDecided, LaneRecord
  <2>2. CASE holder # Nobody
    <3>1. lane' \in [Lane -> LaneRecord]
      BY <1>0, <1>1, <2>2, GoType DEF AcquireDecided, Pcs
    <3> QED BY <1>1, <2>2, <3>1 DEF AcquireDecided, LaneRecord
  <2> QED BY <2>1, <2>2
<1>2. ASSUME Acquired(l) PROVE TypeOK'
  <2>1. lane' \in [Lane -> LaneRecord]
    BY <1>0, <1>2, AtType DEF Acquired, Ops, Pcs
  <2>2. held' \in Token \cup {Nobody}
    BY <1>2 DEF Acquired
  <2> QED BY <1>2, <2>1, <2>2 DEF Acquired, ScheduleRenew, LaneRecord
<1>3. ASSUME AuthLoaded(l) PROVE TypeOK'
  <2>1. lane' \in [Lane -> LaneRecord]
    BY <1>0, <1>3, GoType DEF AuthLoaded, Pcs
  <2> QED BY <1>3, <2>1 DEF AuthLoaded, LaneRecord
<1>4. ASSUME Opened(l) PROVE TypeOK'
  <2>1. lane' \in [Lane -> LaneRecord]
    BY <1>0, <1>4, DoneType DEF Opened
  <2> QED BY <1>4, <2>1 DEF Opened, LaneRecord
<1>5. ASSUME OpenFails(l) PROVE TypeOK'
  <2>1. lane' \in [Lane -> LaneRecord]
    BY <1>0, <1>5, DoneType DEF OpenFails
  <2>2. state' \in SessionStates
    BY <1>5, TryApplyType DEF OpenFails
  <2> QED BY <1>5, <2>1, <2>2 DEF OpenFails, LaneRecord
<1> QED BY <1>1, <1>2, <1>3, <1>4, <1>5

LEMMA ClosingType ==
  ASSUME TypeOK, NEW l \in Lane,
         Drained(l) \/ Ended(l) \/ Released(l) \/ Purged(l) \/ PurgeFails(l) \/ Unlinked(l) \/ UnlinkFails(l)
  PROVE  TypeOK'
<1> USE DEF TypeOK, flags, counters, listening, clocks, lease, creds, backend
<1>0. lane \in [Lane -> LaneRecord]
  BY DEF LaneRecord
<1>1. ASSUME DropSocket,
             IF NothingToEnd
             THEN ReleaseSegment(l)
             ELSE /\ lane' = [lane EXCEPT ![l].pc = "ending", ![l].sock = sock]
                  /\ UNCHANGED <<state, lease>>,
             UNCHANGED <<suppress, flags, counters, clocks, creds, wire, backend>>
      PROVE  TypeOK'
  <2>1. /\ sock' \in Socket \cup {Nobody} /\ detach' \in Socket \cup {Nobody}
        /\ attached' \subseteq Socket
    BY <1>1, DropType
  <2>2. /\ held' \in Token \cup {Nobody} /\ beat' \in BOOLEAN
        /\ lane' \in [Lane -> LaneRecord] /\ state' \in SessionStates
    <3>1. CASE NothingToEnd
      BY <1>1, <3>1, ReleaseType
    <3>2. CASE ~NothingToEnd
      BY <1>0, <1>1, <3>2 DEF LaneRecord, Pcs
    <3> QED BY <3>1, <3>2
  <2> QED BY <1>1, <2>1, <2>2 DEF LaneRecord
<1>2. ASSUME Ended(l) PROVE TypeOK'
  <2>1. /\ held' \in Token \cup {Nobody} /\ beat' \in BOOLEAN
        /\ lane' \in [Lane -> LaneRecord] /\ state' \in SessionStates
    <3>1. CASE l \in ApiLane
      BY <1>2, <3>1, ReleaseType DEF Ended
    <3>2. CASE l \notin ApiLane
      BY <1>0, <1>2, <3>2, DoneType DEF Ended
    <3> QED BY <3>1, <3>2
  <2> QED BY <1>2, <2>1 DEF Ended, LaneRecord
<1>3. ASSUME Released(l) PROVE TypeOK'
  <2>1. AfterRelease(l) \in LaneRecord
    BY <1>0, IdleType, AtType DEF AfterRelease, Ops, Pcs
  <2>2. lane' \in [Lane -> LaneRecord]
    BY <1>0, <1>3, <2>1 DEF Released
  <2>3. state' \in SessionStates
    BY <1>3, TryApplyType DEF Released, Settled
  <2>4. holder' \in Token \cup {Nobody}
    BY <1>3 DEF Released
  <2> QED BY <1>3, <2>2, <2>3, <2>4 DEF Released, LaneRecord
<1>4. ASSUME Purged(l) PROVE TypeOK'
  <2>1. lane' \in [Lane -> LaneRecord]
    BY <1>0, <1>4, DoneType DEF Purged
  <2> QED BY <1>4, <2>1 DEF Purged, LaneRecord
<1>5. ASSUME UnlinkFails(l) PROVE TypeOK'
  <2>1. lane' \in [Lane -> LaneRecord]
    BY <1>0, <1>5, DoneType DEF UnlinkFails
  <2> QED BY <1>5, <2>1 DEF UnlinkFails, LaneRecord
<1>6. ASSUME PurgeFails(l) PROVE TypeOK'
  <2>1. lane' \in [Lane -> LaneRecord]
    BY <1>0, <1>6, DoneType DEF PurgeFails
  <2> QED BY <1>6, <2>1 DEF PurgeFails, LaneRecord
<1> QED BY <1>1, <1>2, <1>3, <1>4, <1>5, <1>6 DEF Drained, Unlinked

LEMMA RenewType ==
  ASSUME TypeOK, NEW l \in Lane,
         CredsSaved(l) \/ RenewDecided(l) \/ Renewed(l) \/ Fenced(l) \/ RenewThrows(l)
  PROVE  TypeOK'
<1> USE DEF TypeOK, flags, counters, listening, clocks, lease, creds, backend
<1>0. lane \in [Lane -> LaneRecord]
  BY DEF LaneRecord
<1>1. ASSUME CredsSaved(l) PROVE TypeOK'
  <2>1. lane' \in [Lane -> LaneRecord]
    BY <1>0, <1>1, DoneType DEF CredsSaved
  <2>2. stored' \in BOOLEAN
    BY <1>1 DEF CredsSaved
  <2>3. UNCHANGED <<auth, kept>>
    BY <1>1 DEF CredsSaved
  <2> QED BY <1>1, <2>1, <2>2, <2>3 DEF CredsSaved, LaneRecord
<1>2. ASSUME RenewDecided(l) PROVE TypeOK'
  <2>1. lane' \in [Lane -> LaneRecord]
    BY <1>0, <1>2, GoType DEF RenewDecided, Pcs
  <2> QED BY <1>2, <2>1 DEF RenewDecided, LaneRecord
<1>3. ASSUME Renewed(l) PROVE TypeOK'
  <2>1. lane' \in [Lane -> LaneRecord]
    BY <1>0, <1>3, DoneType DEF Renewed
  <2>2. held' \in Token \cup {Nobody}
    BY <1>3 DEF Renewed
  <2> QED BY <1>3, <2>1, <2>2 DEF Renewed, ScheduleRenew, LaneRecord
<1>4. ASSUME FenceSegment(l) PROVE TypeOK'
  BY <1>4, FenceType
<1>5. ASSUME RenewThrows(l), ~FenceSegment(l) PROVE TypeOK'
  <2>1. lane' \in [Lane -> LaneRecord]
    BY <1>0, <1>5, DoneType DEF RenewThrows
  <2> QED BY <1>5, <2>1 DEF RenewThrows, ScheduleRenew, LaneRecord
<1> QED BY <1>1, <1>2, <1>3, <1>4, <1>5 DEF Fenced

LEMMA EnvironmentType ==
  ASSUME TypeOK, (\E s \in Socket : ClosedUnheard(s)) \/ RivalTakes \/ (\E t \in Token : Lapse(t))
  PROVE  TypeOK'
<1> USE DEF TypeOK, flags, counters, listening, clocks, lease, creds, backend
<1>1. ASSUME NEW s \in Socket, ClosedUnheard(s) PROVE TypeOK'
  BY <1>1 DEF ClosedUnheard
<1>2. ASSUME RivalTakes PROVE TypeOK'
  BY <1>2 DEF RivalTakes, Unminted
<1>3. ASSUME NEW t \in Token, Lapse(t) PROVE TypeOK'
  BY <1>3 DEF Lapse
<1> QED BY <1>1, <1>2, <1>3

LEMMA NextType == TypeOK /\ [Next]_vars => TypeOK'
<1> SUFFICES ASSUME TypeOK, [Next]_vars PROVE TypeOK'
  OBVIOUS
<1>1. CASE UNCHANGED vars
  BY <1>1 DEF vars, TypeOK, flags, counters, listening, clocks, lease, creds, backend
<1>2. CASE \E l \in Lane : Resume(l)
  BY <1>2, OpeningType, ClosingType, RenewType DEF Resume
<1>3. CASE \/ \E l \in TimerLane : Fire(l)
           \/ \E l \in BeatLane : Beat(l)
  BY <1>3, TimerType DEF Lane
<1>4. CASE \/ \E l \in ApiLane : Call(l)
           \/ \E l \in EventLane : Event(l)
  BY <1>4, CallType, EventType
<1> QED BY <1>1, <1>2, <1>3, <1>4, EnvironmentType DEF Next

\* Every variable keeps its type, whatever overlaps (session.ts:78-90).
THEOREM TypeCorrect == Spec => []TypeOK
BY InitType, NextType, PTL DEF Spec

-----------------------------------------------------------------------------
(* The heartbeat.  A step either gives the token up, arms the heartbeat, or *)
(* leaves token and heartbeat alone and disturbs no renew under way.         *)

RenewsGoOn == \A k \in BeatLane : Renewing(k) => Renewing(k)'

LEMMA Undisturbed ==
  ASSUME HeldIsGuarded, RenewsGoOn, UNCHANGED <<held, beat>>, destroyed => destroyed'
  PROVE  HeldIsGuarded'
BY DEF HeldIsGuarded, RenewsGoOn

LEMMA GivenUp == ASSUME held' = Nobody PROVE HeldIsGuarded'
BY DEF HeldIsGuarded

LEMMA Rearmed == ASSUME beat' = TRUE PROVE HeldIsGuarded'
BY DEF HeldIsGuarded

\* Writing a lane that is not renewing disturbs no renew.
LEMMA WritesOtherLane ==
  ASSUME lane \in [Lane -> LaneRecord], NEW l \in Lane, ~Renewing(l),
         \A k \in Lane \ {l} : lane'[k] = lane[k]
  PROVE  RenewsGoOn
BY DEF RenewsGoOn, Renewing, Lane

LEMMA ReleaseGuarded == ASSUME NEW l, ReleaseSegment(l) PROVE HeldIsGuarded'
BY GivenUp DEF ReleaseSegment, ForgetLease

LEMMA FenceGuarded == ASSUME NEW l, FenceSegment(l) PROVE HeldIsGuarded'
BY GivenUp DEF FenceSegment, ForgetLease

LEMMA CallGuarded ==
  ASSUME TypeOK, HeldIsGuarded, NEW l \in ApiLane, Call(l)
  PROVE  HeldIsGuarded'
<1>0. l \in Lane /\ lane \in [Lane -> LaneRecord]
  BY DEF TypeOK, Lane, LaneRecord
<1>1. ~Renewing(l)
  BY DEF Call, Start, Stop, Remove, Destroy, Logout, Reset, Calls, Enters, Renewing, Idle
<1>2. RenewsGoOn
  <2>1. \A k \in Lane \ {l} : lane'[k] = lane[k]
    BY <1>0 DEF Call, Start, Stop, Remove, Destroy, Logout, Reset, StopSegment
  <2> QED BY <1>0, <1>1, <2>1, WritesOtherLane
<1>3. UNCHANGED <<held, beat>> /\ (destroyed => destroyed')
  BY DEF Call, Start, Stop, Remove, Destroy, Logout, Reset, StopSegment, lease, flags
<1> QED BY <1>2, <1>3, Undisturbed

LEMMA EventGuarded ==
  ASSUME TypeOK, HeldIsGuarded, NEW l \in EventLane, Event(l)
  PROVE  HeldIsGuarded'
<1>0. l \in Lane /\ lane \in [Lane -> LaneRecord]
  BY DEF TypeOK, Lane, LaneRecord
<1>1. ~Renewing(l)
  BY DEF Event, OnQr, OnOpen, OnCreds, OnClose, Enters, Renewing, Idle
<1>2. RenewsGoOn
  <2>1. \A k \in Lane \ {l} : lane'[k] = lane[k]
    BY <1>0 DEF Event, OnQr, OnOpen, OnCreds, OnClose
  <2> QED BY <1>0, <1>1, <2>1, WritesOtherLane
<1>3. UNCHANGED <<held, beat>> /\ (destroyed => destroyed')
  BY DEF Event, OnQr, OnOpen, OnCreds, OnClose, lease, flags
<1> QED BY <1>2, <1>3, Undisturbed

LEMMA TimerGuarded ==
  ASSUME TypeOK, HeldIsGuarded,
         (\E l \in TimerLane : Fire(l)) \/ (\E l \in BeatLane : Beat(l))
  PROVE  HeldIsGuarded'
<1>0. lane \in [Lane -> LaneRecord]
  BY DEF TypeOK, LaneRecord
<1>1. ASSUME NEW l \in TimerLane, NEW t \in Timer, Reconnect(l, t) PROVE HeldIsGuarded'
  <2>1. l \in Lane /\ ~Renewing(l)
    BY <1>1 DEF Reconnect, Enters, Renewing, Idle, Lane
  <2>2. \A k \in Lane \ {l} : lane'[k] = lane[k]
    BY <1>0, <1>1 DEF Reconnect
  <2>3. UNCHANGED <<held, beat>> /\ (destroyed => destroyed')
    BY <1>1 DEF Reconnect, lease, flags
  <2> QED BY <1>0, <2>1, <2>2, <2>3, WritesOtherLane, Undisturbed
\* The heartbeat ends only if there is no token, or the session is destroyed.
<1>2. ASSUME NEW l \in BeatLane, Beat(l) PROVE HeldIsGuarded'
  <2>1. CASE held = Nobody
    BY <1>2, <2>1, GivenUp DEF Beat
  <2>2. CASE destroyed
    BY <1>2, <2>2 DEF Beat, HeldIsGuarded, flags
  <2>3. CASE held # Nobody /\ ~destroyed
    <3>1. Renewing(l)'
      BY <1>0, <1>2, <2>3 DEF Beat, Renewing, At, Idle, Lane
    <3> QED BY <3>1 DEF HeldIsGuarded
  <2> QED BY <2>1, <2>2, <2>3
<1> QED BY <1>1, <1>2 DEF Fire

LEMMA ResumeGuarded ==
  ASSUME TypeOK, HeldIsGuarded, NEW l \in Lane, Resume(l)
  PROVE  HeldIsGuarded'
<1>0. lane \in [Lane -> LaneRecord]
  BY DEF TypeOK, LaneRecord
<1>1. CASE Acquired(l)
  BY <1>1, Rearmed DEF Acquired, ScheduleRenew
<1>2. CASE AcquireDecided(l) \/ AuthLoaded(l) \/ Opened(l) \/ OpenFails(l)
  <2>1. ~Renewing(l)
    BY <1>2 DEF AcquireDecided, AuthLoaded, Opened, OpenFails, Resumes, Renewing
  <2>2. \A k \in Lane \ {l} : lane'[k] = lane[k]
    BY <1>0, <1>2 DEF AcquireDecided, AuthLoaded, Opened, OpenFails, Go, Done
  <2>3. UNCHANGED <<held, beat>> /\ (destroyed => destroyed')
    BY <1>2 DEF AcquireDecided, AuthLoaded, Opened, OpenFails, lease, flags
  <2> QED BY <1>0, <2>1, <2>2, <2>3, WritesOtherLane, Undisturbed
<1>3. CASE Released(l) \/ Purged(l) \/ PurgeFails(l) \/ UnlinkFails(l) \/ CredsSaved(l)
  <2>1. ~Renewing(l)
    BY <1>3 DEF Released, Purged, PurgeFails, UnlinkFails, CredsSaved, Resumes, Renewing
  <2>2. \A k \in Lane \ {l} : lane'[k] = lane[k]
    BY <1>0, <1>3 DEF Released, Purged, PurgeFails, UnlinkFails, CredsSaved, Done
  <2>3. UNCHANGED <<held, beat>> /\ (destroyed => destroyed')
    <3>1. UNCHANGED lease /\ UNCHANGED flags
      BY <1>3 DEF Released, Purged, PurgeFails, UnlinkFails, CredsSaved
    <3> QED BY <3>1 DEF lease, flags
  <2> QED BY <1>0, <2>1, <2>2, <2>3, WritesOtherLane, Undisturbed
<1>4. CASE Drained(l) \/ Unlinked(l) \/ Ended(l)
  <2>1. CASE ReleaseSegment(l)
    BY <2>1, ReleaseGuarded
  <2>2. CASE ~ReleaseSegment(l)
    <3>1. ~Renewing(l)
      BY <1>4 DEF Drained, Unlinked, Ended, Resumes, Renewing
    <3>2. \A k \in Lane \ {l} : lane'[k] = lane[k]
      BY <1>0, <1>4, <2>2 DEF Drained, Unlinked, Ended, Done
    <3>3. UNCHANGED <<held, beat>> /\ (destroyed => destroyed')
      BY <1>4, <2>2 DEF Drained, Unlinked, Ended, lease, flags
    <3> QED BY <1>0, <3>1, <3>2, <3>3, WritesOtherLane, Undisturbed
  <2> QED BY <2>1, <2>2
\* The renew itself: decided, it is still under way; answered, it re-arms the
\* heartbeat or gives the token up.
<1>5. CASE RenewDecided(l)
  <2>1. RenewsGoOn
    BY <1>0, <1>5 DEF RenewDecided, Go, RenewsGoOn, Renewing, Lane, LaneRecord
  <2> QED BY <1>5, <2>1, Undisturbed DEF RenewDecided, lease, flags
<1>6. CASE Renewed(l)
  BY <1>6, Rearmed DEF Renewed, ScheduleRenew
<1>7. CASE Fenced(l)
  BY <1>7, FenceGuarded DEF Fenced
<1>8. CASE RenewThrows(l)
  BY <1>8, FenceGuarded, Rearmed DEF RenewThrows, ScheduleRenew
<1> QED BY <1>1, <1>2, <1>3, <1>4, <1>5, <1>6, <1>7, <1>8 DEF Resume

LEMMA NextGuarded == TypeOK /\ HeldIsGuarded /\ [Next]_vars => HeldIsGuarded'
<1> SUFFICES ASSUME TypeOK, HeldIsGuarded, [Next]_vars PROVE HeldIsGuarded'
  OBVIOUS
<1>1. CASE \/ UNCHANGED vars
           \/ \E s \in Socket : ClosedUnheard(s)
           \/ RivalTakes
           \/ \E t \in Token : Lapse(t)
  <2>1. UNCHANGED <<lane, held, beat, destroyed>>
    BY <1>1 DEF vars, ClosedUnheard, RivalTakes, Lapse, lease, flags
  <2> QED BY <2>1 DEF HeldIsGuarded, Renewing
<1> QED BY <1>1, CallGuarded, EventGuarded, TimerGuarded, ResumeGuarded DEF Next

\* Whatever calls, timers and events overlap, and however the provider
\* answers, a session that holds a token has a heartbeat armed or a renew
\* under way, until it is destroyed (session.ts:511-556).
THEOREM HeartbeatCovers == Spec => []HeldIsGuarded
<1>1. Init => HeldIsGuarded
  BY DEF Init, HeldIsGuarded
<1> QED BY <1>1, NextGuarded, TypeCorrect, PTL DEF Spec


-----------------------------------------------------------------------------
(* The state machine                                                        *)

\* Every trigger has one target, whatever state it is applied in.
Turns(trigger, From, to) ==
  \A s \in SessionStates : /\ Can(s, trigger) <=> s \in From
                           /\ TryApply(s, trigger) = IF s \in From THEN to ELSE s

LEMMA TableColumn ==
  ASSUME NEW trigger, NEW From, NEW to \in SessionStates,
         \A s, u \in SessionStates : <<s, trigger, u>> \in Transitions <=> s \in From /\ u = to
  PROVE  Turns(trigger, From, to)
<1> SUFFICES ASSUME NEW s \in SessionStates
             PROVE  /\ Can(s, trigger) <=> s \in From
                    /\ TryApply(s, trigger) = IF s \in From THEN to ELSE s
  BY DEF Turns
<1>1. Can(s, trigger) <=> s \in From
  BY DEF Can
<1>2. CASE s \in From
  <2>1. \A u \in SessionStates : <<s, trigger, u>> \in Transitions <=> u = to
    BY <1>2
  <2> QED BY <1>1, <1>2, <2>1 DEF TryApply
<1>3. CASE s \notin From
  BY <1>1, <1>3 DEF TryApply
<1> QED BY <1>1, <1>2, <1>3

Moving == {"connecting", "awaiting_scan", "open"}

LEMMA Machine ==
  /\ Turns("start", {"idle", "closed"}, "connecting")
  /\ Turns("qr", {"connecting", "awaiting_scan"}, "awaiting_scan")
  /\ Turns("qr_exhausted", {"awaiting_scan"}, "closed")
  /\ Turns("connected", {"connecting", "awaiting_scan"}, "open")
  /\ Turns("stop", Moving, "closing")
  /\ Turns("disconnected", Moving, "closed")
  /\ Turns("fenced", Moving, "closed")
  /\ Turns("logged_out", Moving \cup {"closed"}, "logged_out")
  /\ Turns("restart_required", {"awaiting_scan"}, "connecting")
  /\ Turns("stopped", {"closing"}, "closed")
  /\ Turns("reconnect", {"closed"}, "connecting")
  /\ Turns("reset", {"logged_out"}, "idle")
<1> USE DEF Transitions, SessionStates, Moving
<1>1. Turns("start", {"idle", "closed"}, "connecting")
  BY TableColumn
<1>2. Turns("qr", {"connecting", "awaiting_scan"}, "awaiting_scan")
  BY TableColumn
<1>3. Turns("qr_exhausted", {"awaiting_scan"}, "closed")
  BY TableColumn
<1>4. Turns("connected", {"connecting", "awaiting_scan"}, "open")
  BY TableColumn
<1>5. Turns("stop", Moving, "closing") /\ Turns("disconnected", Moving, "closed")
  BY TableColumn
<1>6. Turns("fenced", Moving, "closed") /\ Turns("logged_out", Moving \cup {"closed"}, "logged_out")
  BY TableColumn
<1>7. Turns("restart_required", {"awaiting_scan"}, "connecting")
  BY TableColumn
<1>8. Turns("stopped", {"closing"}, "closed")
  BY TableColumn
<1>9. Turns("reconnect", {"closed"}, "connecting") /\ Turns("reset", {"logged_out"}, "idle")
  BY TableColumn
<1> QED BY <1>1, <1>2, <1>3, <1>4, <1>5, <1>6, <1>7, <1>8, <1>9

-----------------------------------------------------------------------------
(* The invariant                                                            *)

OpenPcs == {"acquiring", "acquired", "refused", "loading", "factory"}
ClosePcs == {"draining", "ending", "releasing", "purging", "unlinking"}

\* The overlaps that break every property below.
Serial == {"calls", "open", "backoff"} \cap Admits = {}

\* Where the continuations of each kind of lane may stand.
KindOK(l, c) ==
  /\ c.pc = "idle" => c = Idle
  /\ l \in ApiLane => c.pc \in {"idle"} \cup OpenPcs \cup ClosePcs
  /\ l \in TimerLane => c.pc \in {"idle", "loading", "factory"}
  /\ l \in EventLane => c.pc \in {"idle", "ending", "purging", "saving"}
  /\ l \in BeatLane => c.pc \in {"idle", "renewing", "renewed", "lost", "ending"}
  /\ c.pc \in {"renewing", "renewed", "lost"} => c.token # Nobody

\* While a socket is opened there is none, and the session is connecting.
OpenAt(c) ==
  c.pc \in OpenPcs =>
    /\ state = "connecting" /\ sock = Nobody /\ timers = {} /\ ~destroyed
    /\ c.pc = "acquired" => c.token # Nobody
    /\ c.pc \in {"loading", "factory"} => ~suppress /\ held # Nobody

\* While a call closes the session no reconnect is planned, and from the moment
\* it took the socket away no other comes.
CloseAt(c) ==
  c.pc \in ClosePcs =>
    /\ suppress
    /\ c.op \in {"stop", "remove", "destroy", "logout"}
    /\ c.pc \in {"ending", "releasing", "purging"} => sock = Nobody
    /\ c.pc = "draining" => c.op # "logout"
    /\ c.pc = "unlinking" => c.op = "logout" /\ detach = Nobody /\ ~destroyed
    /\ c.pc = "unlinking" /\ state = "open" => sock # Nobody
    /\ c.op = "logout" => state \in {"open", "closed", "logged_out"}
    /\ c.op # "logout" \/ c.pc = "purging" => state \notin Moving

LanesOK ==
  \A l \in Lane : /\ KindOK(l, lane[l])
                  /\ OpenAt(lane[l])
                  /\ l \in ApiLane => CloseAt(lane[l])

\* One call at a time, and none of it while a timer opens a socket.
Alone ==
  /\ \A k, l \in ApiLane : lane[k] # Idle /\ lane[l] # Idle => k = l
  /\ \A k, l \in Lane :
       Opening(k) /\ (Opening(l) \/ (l \in ApiLane /\ lane[l] # Idle)) => k = l

\* We listen to our socket at most, it is not there in a settled state, and
\* never without the lock.
Listening ==
  /\ attached \subseteq {detach} /\ detach \in {sock, Nobody}
  /\ state \in {"idle", "closed", "logged_out"} => sock = Nobody
  /\ state = "open" /\ sock # Nobody => wire[sock] # "up"
  /\ sock # Nobody => held # Nobody
  /\ suppress /\ attached # {} => \E l \in ApiLane : lane[l].pc \in ClosePcs /\ lane[l].op # "logout"

\* A reconnect is pending only where one may follow, and #timer knows it.
TimerOK ==
  /\ timers \subseteq {timer}
  /\ timers # {} => sock = Nobody /\ held # Nobody /\ state \in {"connecting", "closed"}
  /\ suppress => timers = {}
  /\ destroyed \/ state = "closing" => suppress

Safe == LanesOK /\ Alone /\ Listening /\ TimerOK /\ NoOrphanSocket

-----------------------------------------------------------------------------
(* Lanes                                                                    *)

LEMMA RecordFields ==
  ASSUME NEW op, NEW pc, NEW s, NEW t
  PROVE  /\ Idle.op = "none" /\ Idle.pc = "idle" /\ Idle.sock = Nobody /\ Idle.token = Nobody
         /\ At(op, pc).op = op /\ At(op, pc).pc = pc
         /\ At(op, pc).sock = Nobody /\ At(op, pc).token = Nobody
         /\ [At(op, pc) EXCEPT !.sock = s].op = op /\ [At(op, pc) EXCEPT !.sock = s].pc = pc
         /\ [At(op, pc) EXCEPT !.sock = s].sock = s
         /\ [At(op, pc) EXCEPT !.token = t].op = op /\ [At(op, pc) EXCEPT !.token = t].pc = pc
         /\ [At(op, pc) EXCEPT !.token = t].sock = Nobody
         /\ [At(op, pc) EXCEPT !.token = t].token = t
BY DEF At, Idle

LEMMA LaneFields ==
  ASSUME TypeOK, NEW l \in Lane, NEW pc, NEW s, NEW t
  PROVE  /\ lane \in [Lane -> LaneRecord] /\ lane[l] \in LaneRecord
         /\ lane[l].pc \in Pcs /\ lane[l].op \in Ops /\ lane[l].sock \in Socket \cup {Nobody}
         /\ lane[l].token \in Token \cup {Nobody}
         /\ [lane[l] EXCEPT !.pc = pc].pc = pc /\ [lane[l] EXCEPT !.pc = pc].op = lane[l].op
         /\ [lane[l] EXCEPT !.pc = pc].sock = lane[l].sock
         /\ [lane[l] EXCEPT !.pc = pc].token = lane[l].token
         /\ [lane[l] EXCEPT !.pc = pc, !.sock = s].pc = pc
         /\ [lane[l] EXCEPT !.pc = pc, !.sock = s].op = lane[l].op
         /\ [lane[l] EXCEPT !.pc = pc, !.sock = s].sock = s
         /\ [lane[l] EXCEPT !.pc = pc, !.token = t].pc = pc
         /\ [lane[l] EXCEPT !.pc = pc, !.token = t].op = lane[l].op
         /\ [lane[l] EXCEPT !.pc = pc, !.token = t].token = t
<1>1. lane \in [Lane -> LaneRecord]
  BY DEF TypeOK, LaneRecord
<1>2. lane[l] \in LaneRecord
  BY <1>1
<1> QED BY <1>1, <1>2 DEF LaneRecord

\* Beside a continuation that runs, no socket is being opened.
LEMMA NoneOpening ==
  ASSUME Serial, NEW l, MayRun(l), NEW k \in Lane \ {l}
  PROVE  ~Opening(k) /\ lane[k].pc \notin OpenPcs
<1>1. ~Opening(k)
  BY DEF Serial, MayRun
<1> QED BY <1>1 DEF Opening, OpenPcs

\* A step on the lane of the one call there is.
LEMMA ApiMoves ==
  ASSUME Serial, TypeOK, LanesOK, Alone, NEW l \in ApiLane, MayRun(l),
         \A k \in ApiLane \ {l} : lane[k] = Idle,
         NEW r, lane' = [lane EXCEPT ![l] = r], KindOK(l, r), OpenAt(r)', CloseAt(r)'
  PROVE  LanesOK' /\ Alone'
<1>1. l \in Lane /\ ApiLane \subseteq Lane /\ lane'[l] = r /\ \A k \in Lane \ {l} : lane'[k] = lane[k]
  BY LaneFields DEF Lane
<1>2. \A k \in Lane \ {l} : lane[k].pc \notin OpenPcs /\ KindOK(k, lane[k])
  BY NoneOpening DEF LanesOK
<1>3. \A k \in ApiLane \ {l} : lane'[k] = Idle /\ lane'[k].pc \notin ClosePcs
  BY <1>1, RecordFields DEF ClosePcs
<1>4. ASSUME NEW k \in Lane
      PROVE  /\ KindOK(k, lane'[k]) /\ OpenAt(lane[k])'
             /\ k \in ApiLane => CloseAt(lane[k])'
  <2>1. CASE k = l
    BY <1>1, <2>1 DEF OpenAt, CloseAt
  <2>2. CASE k # l
    BY <1>1, <1>2, <1>3, <2>2 DEF OpenAt, CloseAt
  <2> QED BY <2>1, <2>2
<1>5. LanesOK'
  BY <1>4 DEF LanesOK, KindOK, Idle
<1>6. Alone'
  BY <1>1, <1>2, <1>3 DEF Alone, Opening, OpenPcs
<1> QED BY <1>5, <1>6

\* A step on another lane, that opens a socket only where no call is under way.
LEMMA OtherMoves ==
  ASSUME Serial, TypeOK, LanesOK, Alone, NEW l \in Lane \ ApiLane, MayRun(l),
         NEW r, lane' = [lane EXCEPT ![l] = r], KindOK(l, r), OpenAt(r)',
         r.pc \in OpenPcs => \A k \in ApiLane : lane[k] = Idle,
         \A k \in ApiLane : CloseAt(lane[k]) => CloseAt(lane[k])'
  PROVE  LanesOK' /\ Alone'
<1>1. lane'[l] = r /\ \A k \in Lane \ {l} : lane'[k] = lane[k]
  BY LaneFields
<1>2. \A k \in Lane \ {l} : lane[k].pc \notin OpenPcs /\ KindOK(k, lane[k])
  BY NoneOpening DEF LanesOK
<1>3. ASSUME NEW k \in Lane
      PROVE  /\ KindOK(k, lane'[k]) /\ OpenAt(lane[k])'
             /\ k \in ApiLane => CloseAt(lane[k])'
  <2>1. CASE k = l
    BY <1>1, <2>1 DEF OpenAt
  <2>2. CASE k # l
    BY <1>1, <1>2, <2>2 DEF OpenAt, LanesOK
  <2> QED BY <2>1, <2>2
<1>4. LanesOK'
  BY <1>3 DEF LanesOK, KindOK, Idle
<1>5. \A k \in ApiLane : k \in Lane /\ lane'[k] = lane[k]
  BY <1>1 DEF Lane
<1>6. Alone'
  BY <1>1, <1>2, <1>5 DEF Alone, Opening, OpenPcs
<1> QED BY <1>4, <1>6

\* The environment's steps touch nothing the lanes speak of.
LEMMA NothingMoves ==
  ASSUME LanesOK, Alone, UNCHANGED <<lane, state, sock, timers, destroyed, suppress, held, detach>>
  PROVE  LanesOK' /\ Alone'
BY DEF LanesOK, Alone, KindOK, OpenAt, CloseAt, Opening

\* A call that enters, or goes on, is the only one.
LEMMA OnlyCall ==
  ASSUME Serial, TypeOK, LanesOK, Alone, NEW l \in ApiLane,
         Calls(l) \/ \E pc \in Pcs \ {"idle"} : Resumes(l, pc)
  PROVE  MayRun(l) /\ \A k \in ApiLane \ {l} : lane[k] = Idle
<1>1. CASE Calls(l)
  BY <1>1 DEF Calls, Enters, Serial
<1>2. CASE \E pc \in Pcs \ {"idle"} : Resumes(l, pc)
  <2>1. lane[l] # Idle
    BY <1>2, RecordFields DEF Resumes
  <2> QED BY <1>2, <2>1 DEF Alone, Resumes
<1> QED BY <1>1, <1>2

-----------------------------------------------------------------------------
(* Sockets                                                                  *)

LEMMA EndingStays ==
  ASSUME TypeOK, NEW l \in Lane, NEW r, lane' = [lane EXCEPT ![l] = r], lane[l].pc # "ending"
  PROVE  Ending \subseteq Ending' /\ (r.pc = "ending" => r.sock \in Ending')
<1>1. lane'[l] = r /\ \A k \in Lane \ {l} : lane'[k] = lane[k]
  BY LaneFields
<1>2. ASSUME NEW k \in Lane, lane[k].pc = "ending" PROVE lane'[k].pc = "ending" /\ lane'[k].sock = lane[k].sock
  BY <1>1, <1>2
<1>3. Ending \subseteq Ending'
  BY <1>2 DEF Ending
<1>4. r.pc = "ending" => r.sock \in Ending'
  BY <1>1 DEF Ending
<1> QED BY <1>3, <1>4

\* A socket that is dropped is ended, or down.
LEMMA OrphanKept ==
  ASSUME NoOrphanSocket, Up' \subseteq Up, Ending \subseteq Ending',
         sock' = sock \/ sock \notin Up' \/ sock \in Ending'
  PROVE  NoOrphanSocket'
BY DEF NoOrphanSocket

LEMMA SameWire == ASSUME UNCHANGED wire PROVE Up' = Up
BY DEF Up

\* Nobody listens to nothing.
LEMMA NoSocketNoListener ==
  ASSUME TypeOK, Listening
  PROVE  /\ sock = Nobody \/ detach = Nobody => attached = {}
         /\ detach = Nobody => attached = {}
         /\ attached # {} => sock # Nobody /\ detach = sock /\ attached = {sock}
         /\ state \in SessionStates
         /\ state \in SessionStates \ {"idle", "closed", "logged_out"} <=> state \in Moving \cup {"closing"}
BY NobodyAssumption DEF TypeOK, Listening, SessionStates, Moving

-----------------------------------------------------------------------------
(* The calls                                                                *)

LEMMA StartSafe == ASSUME Serial, TypeOK, Safe, NEW l \in ApiLane, Start(l) PROVE Safe'
<1>1. /\ LanesOK /\ Alone /\ Listening /\ TimerOK /\ NoOrphanSocket /\ l \in Lane /\ lane[l] = Idle
      /\ MayRun(l) /\ \A k \in ApiLane \ {l} : lane[k] = Idle
  BY OnlyCall DEF Safe, Start, Calls, Enters, Lane
<1>2. /\ timers = {} /\ ~destroyed /\ UNCHANGED <<destroyed, sock, detach, attached, timer, timers, held, wire>>
  BY DEF Start, Serial, flags, listening, clocks, lease
<1>3. state \in {"idle", "closed"} /\ state' = "connecting" /\ sock = Nobody
  <2>1. state \in {"idle", "closed"} /\ state' = "connecting"
    BY Machine DEF Start, Startable, TypeOK, Turns
  <2> QED BY <1>1, <2>1 DEF Listening
<1>4. attached = {}
  BY <1>1, <1>3, NoSocketNoListener
<1>5. PICK pc \in {"acquiring", "loading"} :
        /\ lane' = [lane EXCEPT ![l] = At("start", pc)]
        /\ pc = "loading" => suppress' = FALSE /\ held # Nobody
        /\ pc # "loading" => suppress' = suppress
  BY DEF Start, NeedsLock
<1>6. At("start", pc).pc = pc
  BY RecordFields
<1>7. KindOK(l, At("start", pc)) /\ OpenAt(At("start", pc))' /\ CloseAt(At("start", pc))'
  <2>1. KindOK(l, At("start", pc))
    BY <1>6, LaneAssumption DEF KindOK, OpenPcs
  <2>2. pc \in OpenPcs /\ pc \notin ClosePcs
    BY DEF OpenPcs, ClosePcs
  <2> QED BY <1>2, <1>3, <1>5, <1>6, <2>1, <2>2 DEF OpenAt, CloseAt
<1>8. LanesOK' /\ Alone'
  BY <1>1, <1>5, <1>7, ApiMoves
<1>9. Listening' /\ TimerOK'
  BY <1>1, <1>2, <1>3, <1>4 DEF Listening, TimerOK
<1>10. NoOrphanSocket'
  BY <1>1, <1>2, <1>5, EndingStays, OrphanKept, SameWire, RecordFields
<1> QED BY <1>8, <1>9, <1>10 DEF Safe

\* A stop comes from any state; the one it leaves behind is not on the move.
LEMMA StopSafe ==
  ASSUME Serial, TypeOK, Safe, NEW l \in ApiLane, NEW op \in {"stop", "remove", "destroy"},
         Calls(l), StopSegment(l, op), destroyed' \in BOOLEAN
  PROVE  Safe'
<1>1. /\ LanesOK /\ Alone /\ Listening /\ TimerOK /\ NoOrphanSocket /\ l \in Lane /\ lane[l] = Idle
      /\ MayRun(l) /\ \A k \in ApiLane \ {l} : lane[k] = Idle
  BY OnlyCall DEF Safe, Calls, Enters, Lane
<1>2. /\ suppress' = TRUE /\ timers' = timers \ {timer} /\ timer' = Nobody
      /\ UNCHANGED <<sock, detach, attached, held, wire>>
  BY DEF StopSegment, ClearTimer, listening, lease
<1>3. timers' = {}
  BY <1>1, <1>2 DEF TimerOK
<1>4. /\ state \in Moving => state' = "closing"
      /\ state \notin Moving => state' = state
      /\ state' \notin Moving
  BY Machine DEF StopSegment, TypeOK, Turns, Moving
<1>5. lane' = [lane EXCEPT ![l] = At(op, "draining")] /\ At(op, "draining").pc = "draining"
      /\ At(op, "draining").op = op
  BY RecordFields DEF StopSegment
<1>6. KindOK(l, At(op, "draining")) /\ OpenAt(At(op, "draining"))' /\ CloseAt(At(op, "draining"))'
  BY <1>2, <1>4, <1>5, LaneAssumption DEF KindOK, OpenAt, CloseAt, OpenPcs, ClosePcs
<1>7. LanesOK' /\ Alone'
  BY <1>1, <1>5, <1>6, ApiMoves
<1>8. lane'[l].pc \in ClosePcs /\ lane'[l].op # "logout"
  BY <1>1, <1>5, LaneFields DEF ClosePcs
<1>9. Listening' /\ TimerOK'
  BY <1>1, <1>2, <1>3, <1>4, <1>8 DEF Listening, TimerOK, Moving
<1>10. NoOrphanSocket'
  BY <1>1, <1>2, <1>5, EndingStays, OrphanKept, SameWire, RecordFields
<1> QED BY <1>7, <1>9, <1>10 DEF Safe

LEMMA LogoutSafe == ASSUME Serial, TypeOK, Safe, NEW l \in ApiLane, Logout(l) PROVE Safe'
<1>1. /\ LanesOK /\ Alone /\ Listening /\ TimerOK /\ NoOrphanSocket /\ l \in Lane /\ lane[l] = Idle
      /\ MayRun(l) /\ \A k \in ApiLane \ {l} : lane[k] = Idle
  BY OnlyCall DEF Safe, Logout, Calls, Enters, Lane
<1>2. /\ suppress' = TRUE /\ timers' = timers \ {timer} /\ timer' = Nobody /\ ~destroyed
      /\ attached' = attached \ {detach} /\ detach' = Nobody
      /\ state = "open" /\ sock # Nobody /\ UNCHANGED <<state, destroyed, sock, held, wire>>
  BY DEF Logout, ClearTimer, flags, lease
<1>3. timers' = {} /\ attached' = {}
  BY <1>1, <1>2 DEF TimerOK, Listening
<1>4. PICK r : lane' = [lane EXCEPT ![l] = r] /\ r.pc = "unlinking" /\ r.op = "logout"
  <2> DEFINE c == [At("logout", "unlinking") EXCEPT !.sock = sock]
  <2>1. lane' = [lane EXCEPT ![l] = c]
    BY DEF Logout
  <2>2. c.pc = "unlinking" /\ c.op = "logout"
    BY RecordFields
  <2> HIDE DEF c
  <2> QED BY <2>1, <2>2
<1>5. KindOK(l, r) /\ OpenAt(r)' /\ CloseAt(r)'
  BY <1>2, <1>4, LaneAssumption DEF KindOK, OpenAt, CloseAt, OpenPcs, ClosePcs
<1>6. LanesOK' /\ Alone'
  BY <1>1, <1>4, <1>5, ApiMoves
<1>7. Listening' /\ TimerOK'
  BY <1>1, <1>2, <1>3 DEF Listening, TimerOK
<1>8. NoOrphanSocket'
  BY <1>1, <1>2, <1>4, EndingStays, OrphanKept, SameWire, RecordFields
<1> QED BY <1>6, <1>7, <1>8 DEF Safe

LEMMA ResetSafe == ASSUME Serial, TypeOK, Safe, NEW l \in ApiLane, Reset(l) PROVE Safe'
<1>1. /\ LanesOK /\ Alone /\ Listening /\ TimerOK /\ NoOrphanSocket /\ l \in Lane /\ lane[l] = Idle
      /\ MayRun(l) /\ \A k \in ApiLane \ {l} : lane[k] = Idle
  BY OnlyCall DEF Safe, Reset, Calls, Enters, Lane
<1>2. /\ UNCHANGED <<suppress, destroyed, sock, detach, attached, timer, timers, held, lane, wire>>
      /\ state = "logged_out" /\ state' = "idle"
  BY Machine DEF Reset, TypeOK, Turns, flags, listening, clocks, lease
<1>3. lane' = [lane EXCEPT ![l] = Idle] /\ Idle.pc = "idle"
  BY <1>1, <1>2, LaneFields, RecordFields
<1>4. KindOK(l, Idle) /\ OpenAt(Idle)' /\ CloseAt(Idle)'
  BY <1>3, LaneAssumption DEF KindOK, OpenAt, CloseAt, OpenPcs, ClosePcs
<1>5. LanesOK' /\ Alone'
  BY <1>1, <1>3, <1>4, ApiMoves
<1>6. Listening' /\ TimerOK' /\ NoOrphanSocket'
  BY <1>1, <1>2 DEF Listening, TimerOK, NoOrphanSocket, Up, Ending
<1> QED BY <1>5, <1>6 DEF Safe

-----------------------------------------------------------------------------
(* Opening                                                                  *)

LEMMA OpeningFacts ==
  ASSUME Serial, TypeOK, Safe, NEW l \in Lane, NEW pc \in OpenPcs, Resumes(l, pc)
  PROVE  /\ MayRun(l) /\ \A k \in ApiLane \ {l} : lane[k] = Idle
         /\ lane[l].pc = pc /\ KindOK(l, lane[l])
         /\ state = "connecting" /\ sock = Nobody /\ attached = {} /\ timers = {} /\ ~destroyed
         /\ pc = "acquired" => lane[l].token # Nobody
         /\ pc \in {"loading", "factory"} => ~suppress /\ held # Nobody
<1>1. lane[l].pc = pc /\ MayRun(l) /\ KindOK(l, lane[l]) /\ OpenAt(lane[l]) /\ Opening(l) /\ Listening
  BY DEF Resumes, Safe, LanesOK, Opening, OpenPcs
<1>2. \A k \in ApiLane \ {l} : lane[k] = Idle
  BY <1>1 DEF Safe, Alone, Lane
<1> QED BY <1>1, <1>2, NoSocketNoListener DEF OpenAt

LEMMA OpeningMoves ==
  ASSUME Serial, TypeOK, Safe, NEW l \in Lane, NEW pc \in OpenPcs, Resumes(l, pc),
         NEW r, lane' = [lane EXCEPT ![l] = r], KindOK(l, r), OpenAt(r)', r.pc \in {"idle"} \cup OpenPcs
  PROVE  LanesOK' /\ Alone' /\ Ending \subseteq Ending'
<1>1. /\ MayRun(l) /\ \A k \in ApiLane \ {l} : lane[k] = Idle
      /\ lane[l].pc = pc /\ LanesOK /\ Alone
  BY OpeningFacts DEF Safe
<1>2. Ending \subseteq Ending'
  BY <1>1, EndingStays DEF OpenPcs
<1>3. CloseAt(r)'
  BY DEF CloseAt, OpenPcs, ClosePcs
<1>4. CASE l \in ApiLane
  BY <1>1, <1>2, <1>3, <1>4, ApiMoves
<1>5. CASE l \notin ApiLane
  <2>1. \A k \in ApiLane : lane[k] = Idle
    BY <1>1, <1>5
  <2>2. \A k \in ApiLane : CloseAt(lane[k])'
    <3>1. \A k \in ApiLane : lane'[k] = Idle
      BY <1>5, <2>1, LaneFields DEF Lane
    <3> QED BY <3>1, RecordFields DEF CloseAt, ClosePcs
  <2> QED BY <1>1, <1>2, <1>5, <2>1, <2>2, OtherMoves
<1> QED BY <1>4, <1>5

LEMMA AcquireSafe ==
  ASSUME Serial, TypeOK, Safe, NEW l \in Lane, AcquireDecided(l) PROVE Safe'
<1>1. Resumes(l, "acquiring") /\ "acquiring" \in OpenPcs
  BY DEF AcquireDecided, OpenPcs
<1>2. /\ state = "connecting" /\ sock = Nobody /\ attached = {} /\ timers = {} /\ ~destroyed
      /\ KindOK(l, lane[l]) /\ lane[l].pc = "acquiring"
  BY <1>1, OpeningFacts
<1>3. UNCHANGED <<state, suppress, destroyed, sock, detach, attached, timer, timers, held, wire>>
  BY DEF AcquireDecided, flags, listening, clocks, lease
<1>4. PICK r : /\ lane' = [lane EXCEPT ![l] = r] /\ r.pc \in {"acquired", "refused"}
               /\ r.pc = "acquired" => r.token # Nobody
  <2>1. CASE holder = Nobody
    <3>1. PICK t \in Unminted : lane' = [lane EXCEPT ![l] = [lane[l] EXCEPT !.pc = "acquired", !.token = t]]
      BY <2>1 DEF AcquireDecided
    <3> DEFINE c == [lane[l] EXCEPT !.pc = "acquired", !.token = t]
    <3>2. c.pc = "acquired" /\ c.token = t /\ t # Nobody
      BY LaneFields, NobodyAssumption DEF Unminted
    <3> HIDE DEF c
    <3> QED BY <3>1, <3>2 DEF c
  <2>2. CASE holder # Nobody
    <3> DEFINE c == [lane[l] EXCEPT !.pc = "refused"]
    <3>1. lane' = [lane EXCEPT ![l] = c]
      BY <2>2 DEF AcquireDecided, Go
    <3>2. c.pc = "refused"
      BY LaneFields
    <3> HIDE DEF c
    <3> QED BY <3>1, <3>2
  <2> QED BY <2>1, <2>2
<1>5. KindOK(l, r) /\ OpenAt(r)' /\ r.pc \in OpenPcs
  <2>1. l \in ApiLane
    BY <1>2 DEF KindOK, Lane
  <2> QED BY <1>2, <1>3, <1>4, <2>1, LaneAssumption DEF KindOK, OpenAt, OpenPcs
<1>6. LanesOK' /\ Alone' /\ Ending \subseteq Ending'
  BY <1>1, <1>4, <1>5, OpeningMoves
<1>7. Listening' /\ TimerOK'
  BY <1>2, <1>3 DEF Safe, Listening, TimerOK
<1>8. NoOrphanSocket'
  BY <1>3, <1>6, OrphanKept, SameWire DEF Safe
<1> QED BY <1>6, <1>7, <1>8 DEF Safe

LEMMA AcquiredSafe ==
  ASSUME Serial, TypeOK, Safe, NEW l \in Lane, Acquired(l) PROVE Safe'
<1>1. Resumes(l, "acquired") /\ "acquired" \in OpenPcs
  BY DEF Acquired, OpenPcs
<1>2. /\ state = "connecting" /\ sock = Nobody /\ attached = {} /\ timers = {} /\ ~destroyed
      /\ KindOK(l, lane[l]) /\ lane[l].pc = "acquired" /\ lane[l].token # Nobody
  BY <1>1, OpeningFacts
<1>3. /\ UNCHANGED <<state, destroyed, sock, detach, attached, timer, timers, wire>>
      /\ suppress' = FALSE /\ held' # Nobody /\ lane' = [lane EXCEPT ![l] = At("start", "loading")]
  BY <1>2 DEF Acquired, flags, listening, clocks
<1>4. At("start", "loading").pc = "loading"
  BY RecordFields
<1>5. KindOK(l, At("start", "loading")) /\ OpenAt(At("start", "loading"))' /\ "loading" \in OpenPcs
  <2>1. l \in ApiLane
    BY <1>2 DEF KindOK, Lane
  <2> QED BY <1>2, <1>3, <1>4, <2>1, LaneAssumption DEF KindOK, OpenAt, OpenPcs
<1>6. LanesOK' /\ Alone' /\ Ending \subseteq Ending'
  BY <1>1, <1>3, <1>4, <1>5, OpeningMoves
<1>7. Listening' /\ TimerOK'
  BY <1>2, <1>3 DEF Safe, Listening, TimerOK
<1>8. NoOrphanSocket'
  BY <1>3, <1>6, OrphanKept, SameWire DEF Safe
<1> QED BY <1>6, <1>7, <1>8 DEF Safe

LEMMA AuthLoadedSafe ==
  ASSUME Serial, TypeOK, Safe, NEW l \in Lane, AuthLoaded(l) PROVE Safe'
<1>1. Resumes(l, "loading") /\ "loading" \in OpenPcs
  BY DEF AuthLoaded, OpenPcs
<1>2. /\ state = "connecting" /\ sock = Nobody /\ attached = {} /\ timers = {} /\ ~destroyed
      /\ KindOK(l, lane[l]) /\ lane[l].pc = "loading" /\ ~suppress /\ held # Nobody
  BY <1>1, OpeningFacts
<1>3. UNCHANGED <<state, suppress, destroyed, sock, detach, attached, timer, timers, held, wire>>
  BY DEF AuthLoaded, flags, listening, clocks, lease
<1>4. PICK r : lane' = [lane EXCEPT ![l] = r] /\ r.pc = "factory"
  <2> DEFINE c == [lane[l] EXCEPT !.pc = "factory"]
  <2>1. lane' = [lane EXCEPT ![l] = c]
    BY DEF AuthLoaded, Go
  <2>2. c.pc = "factory"
    BY LaneFields
  <2> HIDE DEF c
  <2> QED BY <2>1, <2>2
<1>5. KindOK(l, r) /\ OpenAt(r)' /\ r.pc \in OpenPcs
  BY <1>2, <1>3, <1>4 DEF KindOK, OpenAt, OpenPcs
<1>6. LanesOK' /\ Alone' /\ Ending \subseteq Ending'
  BY <1>1, <1>4, <1>5, OpeningMoves
<1>7. Listening' /\ TimerOK'
  BY <1>2, <1>3 DEF Safe, Listening, TimerOK
<1>8. NoOrphanSocket'
  BY <1>3, <1>6, OrphanKept, SameWire DEF Safe
<1> QED BY <1>6, <1>7, <1>8 DEF Safe

\* The session adopts the socket: it had none, so none is left behind.
LEMMA OpenedSafe ==
  ASSUME Serial, TypeOK, Safe, NEW l \in Lane, Opened(l) PROVE Safe'
<1>1. Resumes(l, "factory") /\ "factory" \in OpenPcs
  BY DEF Opened, OpenPcs
<1>2. /\ state = "connecting" /\ sock = Nobody /\ attached = {} /\ timers = {} /\ ~destroyed
      /\ KindOK(l, lane[l]) /\ lane[l].pc = "factory" /\ ~suppress /\ held # Nobody
  BY <1>1, OpeningFacts
<1>3. UNCHANGED <<state, suppress, destroyed, timer, timers, held>> /\ lane' = [lane EXCEPT ![l] = Idle]
  BY DEF Opened, Done, flags, clocks, lease
<1>4. PICK s \in Socket : /\ wire' = [wire EXCEPT ![s] = "up"] /\ sock' = s /\ detach' = s
                          /\ attached' = attached \cup {s}
  BY DEF Opened
<1>5. KindOK(l, Idle) /\ OpenAt(Idle)' /\ Idle.pc = "idle"
  BY RecordFields DEF KindOK, OpenAt, OpenPcs
<1>6. LanesOK' /\ Alone' /\ Ending \subseteq Ending'
  BY <1>1, <1>3, <1>5, OpeningMoves
<1>7. Listening' /\ TimerOK'
  BY <1>2, <1>3, <1>4 DEF Safe, Listening, TimerOK
<1>8. NoOrphanSocket'
  <2>1. Up' \subseteq Up \cup {s}
    BY <1>4 DEF Up, TypeOK
  <2>2. Up \subseteq Ending
    BY <1>2, NobodyAssumption DEF Safe, NoOrphanSocket, Up
  <2> QED BY <1>4, <1>6, <2>1, <2>2 DEF NoOrphanSocket
<1> QED BY <1>6, <1>7, <1>8 DEF Safe

LEMMA OpenFailsSafe ==
  ASSUME Serial, TypeOK, Safe, NEW l \in Lane, OpenFails(l) PROVE Safe'
<1>1. PICK pc \in OpenPcs : Resumes(l, pc)
  BY DEF OpenFails, OpenPcs
<1>2. /\ state = "connecting" /\ sock = Nobody /\ attached = {} /\ timers = {} /\ ~destroyed
  BY <1>1, OpeningFacts
<1>3. /\ UNCHANGED <<suppress, destroyed, sock, detach, attached, timer, timers, held, wire>>
      /\ lane' = [lane EXCEPT ![l] = Idle]
  BY DEF OpenFails, Done, flags, listening, clocks, lease
<1>4. state' = "closed"
  BY <1>2, Machine DEF OpenFails, TypeOK, Turns, Moving
<1>5. KindOK(l, Idle) /\ OpenAt(Idle)' /\ Idle.pc = "idle"
  BY RecordFields DEF KindOK, OpenAt, OpenPcs
<1>6. LanesOK' /\ Alone' /\ Ending \subseteq Ending'
  BY <1>1, <1>3, <1>5, OpeningMoves
<1>7. Listening' /\ TimerOK'
  BY <1>2, <1>3, <1>4 DEF Safe, Listening, TimerOK
<1>8. NoOrphanSocket'
  BY <1>3, <1>6, OrphanKept, SameWire DEF Safe
<1> QED BY <1>6, <1>7, <1>8 DEF Safe

-----------------------------------------------------------------------------
(* Closing                                                                  *)

\* A call that closes the session goes on: the only call, with no reconnect planned.
LEMMA ClosingFacts ==
  ASSUME Serial, TypeOK, Safe, NEW l \in ApiLane, NEW pc \in ClosePcs, Resumes(l, pc)
  PROVE  /\ MayRun(l) /\ \A k \in ApiLane \ {l} : lane[k] = Idle
         /\ l \in Lane /\ lane[l].pc = pc /\ CloseAt(lane[l]) /\ suppress /\ timers = {}
         /\ lane[l].op \in {"stop", "remove", "destroy", "logout"}
<1>1. l \in Lane /\ lane[l].pc = pc /\ pc \in Pcs \ {"idle"}
  BY DEF Resumes, ClosePcs, Pcs, Lane
<1>2. MayRun(l) /\ \A k \in ApiLane \ {l} : lane[k] = Idle
  BY <1>1, OnlyCall DEF Safe
<1>3. CloseAt(lane[l])
  BY <1>1 DEF Safe, LanesOK
<1> QED BY <1>1, <1>2, <1>3 DEF CloseAt, Safe, TimerOK

\* Where a call settles: a logout has logged out, the others are down.
LEMMA SettledFacts ==
  ASSUME NEW op \in {"stop", "remove", "destroy", "logout"}, state \in SessionStates,
         op = "logout" => state \in {"open", "closed", "logged_out"},
         op # "logout" => state \notin Moving
  PROVE  /\ Settled(op) \in {"idle", "closed", "logged_out"}
         /\ op = "logout" => Settled(op) = "logged_out"
<1>1. CASE op = "logout"
  BY <1>1, Machine DEF Settled, Turns, Moving
<1>2. CASE op # "logout"
  BY <1>2, Machine DEF Settled, Turns, Moving, SessionStates
<1> QED BY <1>1, <1>2

\* The lease is forgotten once the socket is gone: whatever comes next, the
\* session is down, and another step of this call or none.
LEMMA ReleaseSafe ==
  ASSUME Serial, TypeOK, Safe, NEW l \in ApiLane, NEW pc \in ClosePcs, Resumes(l, pc),
         ReleaseSegment(l), UNCHANGED <<suppress, destroyed, timers, timer>>,
         sock' = Nobody, detach' = Nobody, attached' = {}
  PROVE  LanesOK' /\ Alone' /\ Listening' /\ TimerOK'
<1>1. /\ MayRun(l) /\ \A k \in ApiLane \ {l} : lane[k] = Idle
      /\ l \in Lane /\ lane[l].pc = pc /\ CloseAt(lane[l]) /\ suppress /\ timers = {}
      /\ lane[l].op \in {"stop", "remove", "destroy", "logout"}
      /\ LanesOK /\ Alone /\ TimerOK
  BY ClosingFacts DEF Safe
<1> DEFINE op == lane[l].op
<1>2. /\ op = "logout" => state \in {"open", "closed", "logged_out"}
      /\ op # "logout" => state \notin Moving
  BY <1>1 DEF CloseAt
<1>3. /\ Settled(op) \in {"idle", "closed", "logged_out"}
      /\ op = "logout" => Settled(op) = "logged_out"
  BY <1>1, <1>2, SettledFacts DEF TypeOK
<1>4. PICK r : /\ lane' = [lane EXCEPT ![l] = r]
               /\ \/ r = Idle /\ state' = Settled(op)
                  \/ r.pc = "purging" /\ r.op = op /\ state' = Settled(op)
                  \/ r.pc = "releasing" /\ r.op = op /\ state' = state
  <2>1. CASE held = Nobody
    <3>1. lane' = [lane EXCEPT ![l] = AfterRelease(l)] /\ state' = Settled(op)
      BY <2>1 DEF ReleaseSegment
    <3>2. AfterRelease(l) = Idle \/ (AfterRelease(l).pc = "purging" /\ AfterRelease(l).op = op)
      BY RecordFields DEF AfterRelease
    <3> QED BY <3>1, <3>2
  <2>2. CASE held # Nobody
    <3> DEFINE c == [At(op, "releasing") EXCEPT !.token = held]
    <3>1. lane' = [lane EXCEPT ![l] = c] /\ state' = state
      BY <2>2 DEF ReleaseSegment
    <3>2. c.pc = "releasing" /\ c.op = op
      BY RecordFields
    <3> HIDE DEF c
    <3> QED BY <3>1, <3>2
  <2> QED BY <2>1, <2>2
<1>5. r.pc \in {"idle", "purging", "releasing"} /\ (r.pc = "idle" => r = Idle)
  BY <1>4, RecordFields
<1>6. KindOK(l, r) /\ OpenAt(r)'
  BY <1>5, LaneAssumption DEF KindOK, OpenAt, OpenPcs, ClosePcs
<1>7. CloseAt(r)'
  <2>1. CASE r.pc = "idle"
    BY <2>1 DEF CloseAt, ClosePcs
  <2>2. CASE r.pc # "idle"
    BY <1>1, <1>2, <1>3, <1>4, <1>5, <2>2, RecordFields DEF CloseAt, ClosePcs, Moving
  <2> QED BY <2>1, <2>2
<1>8. LanesOK' /\ Alone'
  BY <1>1, <1>4, <1>6, <1>7, ApiMoves
<1>9. Listening' /\ TimerOK'
  BY <1>1 DEF Listening, TimerOK
<1> QED BY <1>8, <1>9

\* The socket is dropped and the driver asked to end it.
LEMMA DropSafe ==
  ASSUME Serial, TypeOK, Safe, NEW l \in ApiLane, NEW pc \in {"draining", "unlinking"},
         Resumes(l, pc), DropSocket,
         IF NothingToEnd
         THEN ReleaseSegment(l)
         ELSE /\ lane' = [lane EXCEPT ![l].pc = "ending", ![l].sock = sock]
              /\ UNCHANGED <<state, lease>>,
         UNCHANGED <<suppress, flags, counters, clocks, creds, wire, backend>>
  PROVE  Safe'
<1>1. /\ MayRun(l) /\ \A k \in ApiLane \ {l} : lane[k] = Idle
      /\ l \in Lane /\ lane[l].pc = pc /\ CloseAt(lane[l]) /\ suppress /\ timers = {}
      /\ lane[l].op \in {"stop", "remove", "destroy", "logout"}
      /\ LanesOK /\ Alone /\ Listening /\ TimerOK /\ NoOrphanSocket
  BY ClosingFacts DEF Safe, ClosePcs
<1>2. /\ sock' = Nobody /\ detach' = Nobody /\ attached' = {}
      /\ UNCHANGED <<suppress, destroyed, timers, timer, wire>>
  BY <1>1 DEF DropSocket, Listening, flags, clocks
<1>3. CASE NothingToEnd
  <2>1. LanesOK' /\ Alone' /\ Listening' /\ TimerOK'
    BY <1>2, <1>3, ReleaseSafe DEF ClosePcs
  <2>2. Ending \subseteq Ending'
    <3>1. PICK r : lane' = [lane EXCEPT ![l] = r]
      BY <1>3 DEF ReleaseSegment
    <3> QED BY <1>1, <3>1, EndingStays
  <2>3. NoOrphanSocket'
    BY <1>1, <1>2, <1>3, <2>2, OrphanKept, SameWire DEF NothingToEnd
  <2> QED BY <2>1, <2>3 DEF Safe
<1>4. CASE ~NothingToEnd
  <2>1. PICK r : /\ lane' = [lane EXCEPT ![l] = r] /\ r.pc = "ending" /\ r.op = lane[l].op /\ r.sock = sock
    <3> DEFINE c == [lane[l] EXCEPT !.pc = "ending", !.sock = sock]
    <3>1. lane' = [lane EXCEPT ![l] = c]
      BY <1>4
    <3>2. c.pc = "ending" /\ c.op = lane[l].op /\ c.sock = sock
      BY <1>1, LaneFields
    <3> HIDE DEF c
    <3> QED BY <3>1, <3>2
  <2>2. UNCHANGED <<state, held>>
    BY <1>4 DEF lease
  <2>3. KindOK(l, r) /\ OpenAt(r)' /\ CloseAt(r)'
    <3>1. KindOK(l, r) /\ OpenAt(r)'
      BY <2>1, LaneAssumption DEF KindOK, OpenAt, OpenPcs, ClosePcs
    <3>2. CloseAt(r)'
      BY <1>1, <1>2, <2>1, <2>2 DEF CloseAt, ClosePcs
    <3> QED BY <3>1, <3>2
  <2>4. LanesOK' /\ Alone'
    BY <1>1, <2>1, <2>3, ApiMoves
  <2>5. Listening' /\ TimerOK'
    BY <1>1, <1>2, <2>2 DEF Listening, TimerOK
  <2>6. NoOrphanSocket'
    BY <1>1, <1>2, <2>1, EndingStays, OrphanKept, SameWire
  <2> QED BY <2>4, <2>5, <2>6 DEF Safe
<1> QED BY <1>3, <1>4

\* An ended socket is off the wire.
LEMMA EndedWire ==
  ASSUME TypeOK, NEW l \in Lane, Resumes(l, "ending"), wire' = [wire EXCEPT ![lane[l].sock] = "down"],
         NEW r, lane' = [lane EXCEPT ![l] = r], NoOrphanSocket, sock' = sock
  PROVE  NoOrphanSocket' /\ Up' \subseteq Up \ {lane[l].sock}
<1>1. Up' \subseteq Up \ {lane[l].sock}
  BY DEF Up, TypeOK
<1>2. Ending \subseteq Ending' \cup {lane[l].sock}
  <2>1. lane'[l] = r /\ \A k \in Lane \ {l} : lane'[k] = lane[k]
    BY LaneFields
  <2>2. ASSUME NEW k \in Lane, lane[k].pc = "ending" PROVE lane[k].sock \in Ending' \cup {lane[l].sock}
    BY <2>1, <2>2 DEF Ending
  <2> QED BY <2>2 DEF Ending
<1> QED BY <1>1, <1>2 DEF NoOrphanSocket

LEMMA EndedSafe == ASSUME Serial, TypeOK, Safe, NEW l \in Lane, Ended(l) PROVE Safe'
<1>1. /\ Resumes(l, "ending") /\ wire' = [wire EXCEPT ![lane[l].sock] = "down"] /\ "ending" \in ClosePcs
      /\ UNCHANGED <<suppress, destroyed, sock, detach, attached, timer, timers>>
      /\ LanesOK /\ Alone /\ Listening /\ TimerOK /\ NoOrphanSocket
  BY DEF Ended, flags, listening, clocks, Safe, ClosePcs
<1>2. CASE l \in ApiLane
  <2>1. ReleaseSegment(l) /\ sock = Nobody
    BY <1>1, <1>2, ClosingFacts DEF Ended, CloseAt
  <2>2. detach = Nobody /\ attached = {}
    BY <1>1, <2>1, NoSocketNoListener DEF Listening
  <2>3. LanesOK' /\ Alone' /\ Listening' /\ TimerOK'
    BY <1>1, <1>2, <2>1, <2>2, ReleaseSafe
  <2>4. NoOrphanSocket'
    <3>1. PICK r : lane' = [lane EXCEPT ![l] = r]
      BY <2>1 DEF ReleaseSegment
    <3> QED BY <1>1, <3>1, EndedWire
  <2> QED BY <2>3, <2>4 DEF Safe
<1>3. CASE l \notin ApiLane
  <2>1. lane' = [lane EXCEPT ![l] = Idle] /\ UNCHANGED <<state, held>> /\ MayRun(l)
    BY <1>1, <1>3 DEF Ended, Done, lease, Resumes
  <2>2. KindOK(l, Idle) /\ OpenAt(Idle)' /\ Idle.pc \notin OpenPcs
    BY RecordFields DEF KindOK, OpenAt, OpenPcs
  <2>3. \A k \in ApiLane : lane'[k] = lane[k]
    BY <1>3, <2>1, LaneFields DEF Lane
  <2>4. \A k \in ApiLane : CloseAt(lane[k]) => CloseAt(lane[k])'
    BY <1>1, <2>1, <2>3 DEF CloseAt
  <2>5. LanesOK' /\ Alone'
    BY <1>1, <1>3, <2>1, <2>2, <2>4, OtherMoves
  <2>6. Listening' /\ TimerOK'
    <3>1. sock # Nobody => (wire'[sock] = wire[sock] \/ wire'[sock] = "down")
      BY <1>1 DEF TypeOK
    <3> QED BY <1>1, <2>1, <2>3, <3>1 DEF Listening, TimerOK
  <2>7. NoOrphanSocket'
    BY <1>1, <2>1, EndedWire
  <2> QED BY <2>5, <2>6, <2>7 DEF Safe
<1> QED BY <1>2, <1>3

LEMMA ReleasedSafe == ASSUME Serial, TypeOK, Safe, NEW l \in Lane, Released(l) PROVE Safe'
<1>1. /\ Resumes(l, "releasing") /\ lane[l].pc = "releasing" /\ "releasing" \in ClosePcs
      /\ UNCHANGED <<suppress, destroyed, sock, detach, attached, timer, timers, held, wire>>
      /\ LanesOK /\ Alone /\ Listening /\ TimerOK /\ NoOrphanSocket
      /\ lane' = [lane EXCEPT ![l] = AfterRelease(l)] /\ state' = Settled(lane[l].op)
  BY DEF Released, Resumes, flags, listening, clocks, lease, Safe, ClosePcs
<1>2. l \in ApiLane
  BY <1>1 DEF LanesOK, KindOK, Lane
<1>3. /\ MayRun(l) /\ \A k \in ApiLane \ {l} : lane[k] = Idle
      /\ CloseAt(lane[l]) /\ suppress /\ timers = {} /\ sock = Nobody
      /\ lane[l].op \in {"stop", "remove", "destroy", "logout"}
  BY <1>1, <1>2, ClosingFacts DEF CloseAt
<1>4. /\ Settled(lane[l].op) \in {"idle", "closed", "logged_out"}
      /\ lane[l].op = "logout" => Settled(lane[l].op) = "logged_out"
  <2>1. /\ lane[l].op = "logout" => state \in {"open", "closed", "logged_out"}
        /\ lane[l].op # "logout" => state \notin Moving
    BY <1>1, <1>3 DEF CloseAt
  <2> QED BY <1>3, <2>1, SettledFacts DEF TypeOK
<1>5. PICK r : /\ lane' = [lane EXCEPT ![l] = r]
               /\ r = Idle \/ (r.pc = "purging" /\ r.op = lane[l].op)
  <2>1. AfterRelease(l) = Idle \/ (AfterRelease(l).pc = "purging" /\ AfterRelease(l).op = lane[l].op)
    BY RecordFields DEF AfterRelease
  <2> QED BY <1>1, <2>1
<1>6. KindOK(l, r) /\ OpenAt(r)' /\ CloseAt(r)'
  <2>1. r.pc \in {"idle", "purging"} /\ (r.pc = "idle" => r = Idle)
    BY <1>5, RecordFields
  <2>2. KindOK(l, r) /\ OpenAt(r)'
    BY <1>2, <2>1, LaneAssumption DEF KindOK, OpenAt, OpenPcs, ClosePcs
  <2>3. CloseAt(r)'
    BY <1>1, <1>3, <1>4, <1>5, <2>1, RecordFields DEF CloseAt, ClosePcs, Moving
  <2> QED BY <2>2, <2>3
<1>7. LanesOK' /\ Alone'
  BY <1>1, <1>2, <1>3, <1>5, <1>6, ApiMoves
<1>8. Listening' /\ TimerOK'
  <2>1. attached = {}
    BY <1>1, <1>3, NoSocketNoListener
  <2> QED BY <1>1, <1>3, <1>4, <2>1 DEF Listening, TimerOK
<1>9. NoOrphanSocket'
  BY <1>1, <1>5, EndingStays, OrphanKept, SameWire
<1> QED BY <1>7, <1>8, <1>9 DEF Safe

LEMMA UnlinkFailsSafe == ASSUME Serial, TypeOK, Safe, NEW l \in Lane, UnlinkFails(l) PROVE Safe'
<1>1. /\ Resumes(l, "unlinking") /\ lane[l].pc = "unlinking" /\ "unlinking" \in ClosePcs
      /\ UNCHANGED <<state, destroyed, sock, detach, attached, timer, timers, held, wire>>
      /\ LanesOK /\ Alone /\ Listening /\ TimerOK /\ NoOrphanSocket
      /\ lane' = [lane EXCEPT ![l] = Idle] /\ suppress' = FALSE
  BY DEF UnlinkFails, Resumes, Done, flags, listening, clocks, lease, Safe, ClosePcs
<1>2. l \in ApiLane
  BY <1>1 DEF LanesOK, KindOK, Lane
<1>3. /\ MayRun(l) /\ \A k \in ApiLane \ {l} : lane[k] = Idle
      /\ CloseAt(lane[l]) /\ timers = {}
      /\ ~destroyed /\ state # "closing"
  BY <1>1, <1>2, ClosingFacts DEF CloseAt
<1>4. KindOK(l, Idle) /\ OpenAt(Idle)' /\ CloseAt(Idle)'
  BY RecordFields DEF KindOK, OpenAt, CloseAt, OpenPcs, ClosePcs
<1>5. LanesOK' /\ Alone'
  BY <1>1, <1>2, <1>3, <1>4, ApiMoves
<1>6. Listening' /\ TimerOK'
  BY <1>1, <1>3 DEF Listening, TimerOK
<1>7. NoOrphanSocket'
  BY <1>1, EndingStays, OrphanKept, SameWire
<1> QED BY <1>5, <1>6, <1>7 DEF Safe

\* A step that only ends its continuation, or leads it on, on any lane.
LEMMA QuietSafe ==
  ASSUME Serial, TypeOK, Safe, NEW l \in Lane, MayRun(l), NEW r, lane' = [lane EXCEPT ![l] = r],
         KindOK(l, r), r.pc \notin OpenPcs \cup ClosePcs \/ (r.pc \in ClosePcs /\ l \notin ApiLane),
         lane[l].pc # "ending", l \in ApiLane => lane[l].pc \in ClosePcs,
         l \in ApiLane => attached = {}, 
         held # Nobody => held' # Nobody,
         UNCHANGED <<state, suppress, destroyed, sock, detach, attached, timer, timers, wire>>
  PROVE  Safe'
<1>1. LanesOK /\ Alone /\ Listening /\ TimerOK /\ NoOrphanSocket
  BY DEF Safe
<1>2. OpenAt(r)'
  BY DEF OpenAt, OpenPcs, ClosePcs
<1>3. LanesOK' /\ Alone' /\ Listening'
  <2>1. CASE l \in ApiLane
    <3>1. \A k \in ApiLane \ {l} : lane[k] = Idle
      <4>1. lane[l] # Idle
        BY <2>1, RecordFields DEF ClosePcs
      <4> QED BY <1>1, <2>1, <4>1 DEF Alone
    <3>2. CloseAt(r)'
      BY <2>1 DEF CloseAt
    <3> QED BY <1>1, <1>2, <2>1, <3>1, <3>2, ApiMoves DEF Listening
  <2>2. CASE l \notin ApiLane
    <3>1. \A k \in ApiLane : lane'[k] = lane[k]
      BY <2>2, LaneFields DEF Lane
    <3>2. \A k \in ApiLane : CloseAt(lane[k]) => CloseAt(lane[k])'
      BY <3>1 DEF CloseAt
    <3>3. r.pc \notin OpenPcs
      BY DEF OpenPcs, ClosePcs
    <3> QED BY <1>1, <1>2, <2>2, <3>1, <3>2, <3>3, OtherMoves DEF Listening
  <2> QED BY <2>1, <2>2
<1>4. TimerOK'
  BY <1>1 DEF TimerOK
<1>5. NoOrphanSocket'
  BY <1>1, EndingStays, OrphanKept, SameWire
<1> QED BY <1>3, <1>4, <1>5 DEF Safe

LEMMA PurgedSafe ==
  ASSUME Serial, TypeOK, Safe, NEW l \in Lane, Purged(l) \/ PurgeFails(l) PROVE Safe'
<1>1. /\ Resumes(l, "purging") /\ lane[l].pc = "purging" /\ MayRun(l) /\ lane' = [lane EXCEPT ![l] = Idle]
      /\ UNCHANGED <<state, suppress, destroyed, sock, detach, attached, timer, timers, held, wire>>
  BY DEF Purged, PurgeFails, Resumes, Done, flags, listening, clocks, lease
<1>2. l \in ApiLane => attached = {}
  <2>1. l \in ApiLane => sock = Nobody
    BY <1>1 DEF Safe, LanesOK, CloseAt, ClosePcs
  <2> QED BY <2>1, NoSocketNoListener DEF Safe
<1>3. KindOK(l, Idle) /\ Idle.pc \notin OpenPcs \cup ClosePcs
  BY RecordFields DEF KindOK, OpenPcs, ClosePcs
<1> QED BY <1>1, <1>2, <1>3, QuietSafe DEF ClosePcs

LEMMA CredsSavedSafe == ASSUME Serial, TypeOK, Safe, NEW l \in Lane, CredsSaved(l) PROVE Safe'
<1>1. /\ lane[l].pc = "saving" /\ MayRun(l) /\ lane' = [lane EXCEPT ![l] = Idle]
      /\ UNCHANGED <<state, suppress, destroyed, sock, detach, attached, timer, timers, held, wire>>
  BY DEF CredsSaved, Resumes, Done, flags, listening, clocks, lease
<1>2. l \notin ApiLane
  BY <1>1 DEF Safe, LanesOK, KindOK, OpenPcs, ClosePcs
<1>3. KindOK(l, Idle) /\ Idle.pc \notin OpenPcs \cup ClosePcs
  BY RecordFields DEF KindOK, OpenPcs, ClosePcs
<1> QED BY <1>1, <1>2, <1>3, QuietSafe

-----------------------------------------------------------------------------
(* The heartbeat                                                            *)

\* A renew runs on a heartbeat's lane, with a token.
LEMMA RenewFacts ==
  ASSUME Safe, NEW l \in Lane, lane[l].pc \in {"renewing", "renewed", "lost"}
  PROVE  l \in BeatLane /\ l \notin ApiLane /\ lane[l].token # Nobody
<1>1. KindOK(l, lane[l])
  BY DEF Safe, LanesOK
<1> QED BY <1>1 DEF KindOK, Lane, OpenPcs, ClosePcs

LEMMA BeatSafe == ASSUME Serial, TypeOK, Safe, NEW l \in BeatLane, Beat(l) PROVE Safe'
<1>1. /\ l \in Lane /\ l \notin ApiLane /\ MayRun(l) /\ lane[l] = Idle
      /\ UNCHANGED <<state, suppress, destroyed, sock, detach, attached, timer, timers, held, wire>>
  BY LaneAssumption DEF Beat, Enters, Lane, flags, listening, clocks
<1>2. PICK r : /\ lane' = [lane EXCEPT ![l] = r]
               /\ r = Idle \/ (r.pc = "renewing" /\ r.token # Nobody)
  <2>1. CASE held = Nobody \/ destroyed
    BY <1>1, <2>1, LaneFields DEF Beat
  <2>2. CASE ~(held = Nobody \/ destroyed)
    <3> DEFINE c == [At("renew", "renewing") EXCEPT !.token = held]
    <3>1. lane' = [lane EXCEPT ![l] = c]
      BY <2>2 DEF Beat
    <3>2. c.pc = "renewing" /\ c.token = held
      BY RecordFields
    <3> HIDE DEF c
    <3> QED BY <2>2, <3>1, <3>2
  <2> QED BY <2>1, <2>2
<1>3. r.pc \in {"idle", "renewing"} /\ (r.pc = "idle" => r = Idle)
  BY <1>2, RecordFields
<1>4. KindOK(l, r) /\ r.pc \notin OpenPcs \cup ClosePcs
  BY <1>1, <1>2, <1>3, LaneAssumption, RecordFields DEF KindOK, OpenPcs, ClosePcs
<1>5. lane[l].pc # "ending"
  BY <1>1, RecordFields
<1> QED BY <1>1, <1>2, <1>4, <1>5, QuietSafe

LEMMA RenewDecidedSafe == ASSUME Serial, TypeOK, Safe, NEW l \in Lane, RenewDecided(l) PROVE Safe'
<1>1. /\ lane[l].pc = "renewing" /\ MayRun(l)
      /\ UNCHANGED <<state, suppress, destroyed, sock, detach, attached, timer, timers, held, wire>>
  BY DEF RenewDecided, Resumes, flags, listening, clocks, lease
<1>2. l \in BeatLane /\ l \notin ApiLane /\ lane[l].token # Nobody
  BY <1>1, RenewFacts
<1>3. PICK r : lane' = [lane EXCEPT ![l] = r] /\ r.pc \in {"renewed", "lost"} /\ r.token = lane[l].token
  <2>1. PICK p \in {"renewed", "lost"} : lane' = [lane EXCEPT ![l] = [lane[l] EXCEPT !.pc = p]]
    BY DEF RenewDecided, Go
  <2> DEFINE c == [lane[l] EXCEPT !.pc = p]
  <2>2. c.pc = p /\ c.token = lane[l].token
    BY LaneFields
  <2> HIDE DEF c
  <2> QED BY <2>1, <2>2 DEF c
<1>4. KindOK(l, r) /\ r.pc \notin OpenPcs \cup ClosePcs
  BY <1>2, <1>3, LaneAssumption DEF KindOK, OpenPcs, ClosePcs
<1> QED BY <1>1, <1>2, <1>3, <1>4, QuietSafe

\* An answered renew, and one that fails on a lease still thought unexpired.
LEMMA RenewEndsSafe ==
  ASSUME Serial, TypeOK, Safe, NEW l \in Lane, Renewed(l) \/ (RenewThrows(l) /\ lane[l].token \notin dead)
  PROVE  Safe'
<1>1. /\ lane[l].pc \in {"renewing", "renewed"} /\ MayRun(l) /\ lane' = [lane EXCEPT ![l] = Idle]
      /\ UNCHANGED <<state, suppress, destroyed, sock, detach, attached, timer, timers, wire>>
      /\ held' \in {held, lane[l].token}
  BY DEF Renewed, RenewThrows, Resumes, Done, flags, listening, clocks
<1>2. l \notin ApiLane /\ lane[l].token # Nobody
  BY <1>1, RenewFacts
<1>3. KindOK(l, Idle) /\ Idle.pc \notin OpenPcs \cup ClosePcs
  BY RecordFields DEF KindOK, OpenPcs, ClosePcs
<1> QED BY <1>1, <1>2, <1>3, QuietSafe

\* A fence takes the socket down, whatever call is under way.
LEMMA FenceSafe ==
  ASSUME Serial, TypeOK, Safe, NEW l \in Lane, lane[l].pc \in {"renewing", "lost"}, MayRun(l),
         FenceSegment(l)
  PROVE  Safe'
<1>1. /\ LanesOK /\ Alone /\ Listening /\ TimerOK /\ NoOrphanSocket
      /\ l \in BeatLane /\ l \notin ApiLane
  BY RenewFacts DEF Safe
<1>2. /\ suppress' = TRUE /\ timers' = timers \ {timer} /\ timer' = Nobody
      /\ attached' = attached \ {detach} /\ detach' = Nobody /\ sock' = Nobody
      /\ UNCHANGED <<destroyed, wire>>
  BY DEF FenceSegment, ClearTimer, DropSocket, flags
<1>3. timers' = {} /\ attached' = {}
  BY <1>1, <1>2 DEF TimerOK, Listening
<1>4. /\ state \in Moving => state' = "closed"
      /\ state \notin Moving => state' = state
  BY Machine DEF FenceSegment, TypeOK, Turns, Moving
<1>5. PICK r : /\ lane' = [lane EXCEPT ![l] = r]
               /\ \/ r = Idle /\ sock = Nobody
                  \/ r.pc = "ending" /\ r.sock = sock
  <2>1. CASE sock = Nobody
    BY <2>1 DEF FenceSegment
  <2>2. CASE sock # Nobody
    <3> DEFINE c == [At("renew", "ending") EXCEPT !.sock = sock]
    <3>1. lane' = [lane EXCEPT ![l] = c]
      BY <2>2 DEF FenceSegment
    <3>2. c.pc = "ending" /\ c.sock = sock
      BY RecordFields
    <3> HIDE DEF c
    <3> QED BY <3>1, <3>2
  <2> QED BY <2>1, <2>2
<1>6. r.pc \in {"idle", "ending"} /\ (r.pc = "idle" => r = Idle)
  BY <1>5, RecordFields
<1>7. KindOK(l, r) /\ OpenAt(r)' /\ r.pc \notin OpenPcs
  BY <1>1, <1>6, LaneAssumption DEF KindOK, OpenAt, OpenPcs
<1>8. ASSUME NEW k \in ApiLane, CloseAt(lane[k]) PROVE CloseAt(lane[k])'
  <2>1. lane'[k] = lane[k]
    BY <1>1, <1>5, LaneFields DEF Lane
  <2> QED BY <1>2, <1>4, <1>8, <2>1 DEF CloseAt, Moving
<1>9. LanesOK' /\ Alone'
  BY <1>1, <1>5, <1>7, <1>8, OtherMoves
<1>10. Listening' /\ TimerOK'
  BY <1>1, <1>2, <1>3, <1>4 DEF Listening, TimerOK, Moving
<1>11. NoOrphanSocket'
  <2>1. Ending \subseteq Ending' /\ (r.pc = "ending" => r.sock \in Ending')
    BY <1>5, EndingStays
  <2> QED BY <1>1, <1>2, <1>5, <2>1, OrphanKept, SameWire
<1> QED BY <1>9, <1>10, <1>11 DEF Safe

-----------------------------------------------------------------------------
(* The reconnect timer                                                      *)

LEMMA ReconnectSafe ==
  ASSUME Serial, TypeOK, Safe, NEW l \in TimerLane, NEW t \in Timer, Reconnect(l, t) PROVE Safe'
<1>1. /\ LanesOK /\ Alone /\ Listening /\ TimerOK /\ NoOrphanSocket
      /\ l \in Lane /\ l \notin ApiLane /\ MayRun(l) /\ lane[l] = Idle /\ t \in timers
  BY LaneAssumption DEF Safe, Reconnect, Enters, Lane
<1>2. /\ ~suppress /\ ~destroyed /\ sock = Nobody /\ held # Nobody /\ state \in {"connecting", "closed"}
      /\ attached = {} /\ timers = {timer} /\ t = timer
  BY <1>1, NoSocketNoListener DEF TimerOK
<1>3. IF state = "closed" THEN TryApply(state, "reconnect") = "connecting" ELSE state = "connecting"
  BY <1>2, Machine DEF Turns, SessionStates
<1>4. /\ state' = "connecting" /\ suppress' = FALSE /\ timers' = {} /\ timer' = Nobody
      /\ lane' = [lane EXCEPT ![l] = At("reconnect", "loading")]
      /\ UNCHANGED <<destroyed, sock, detach, attached, held, wire>>
  BY <1>2, <1>3 DEF Reconnect, flags, listening, lease
<1>5. At("reconnect", "loading").pc = "loading"
  BY RecordFields
<1>6. KindOK(l, At("reconnect", "loading")) /\ OpenAt(At("reconnect", "loading"))'
  BY <1>2, <1>4, <1>5, LaneAssumption DEF KindOK, OpenAt, OpenPcs
<1>7. \A k \in ApiLane : lane[k] = Idle
  <2> SUFFICES ASSUME NEW k \in ApiLane PROVE lane[k] = Idle
    OBVIOUS
  <2>1. k \in Lane /\ k # l /\ lane[k].pc \notin OpenPcs /\ KindOK(k, lane[k]) /\ CloseAt(lane[k])
    BY <1>1, NoneOpening DEF Lane, LanesOK
  <2> QED BY <1>2, <2>1 DEF KindOK, CloseAt
<1>8. \A k \in ApiLane : lane'[k] = Idle /\ CloseAt(lane[k])'
  <2>1. \A k \in ApiLane : lane'[k] = Idle
    BY <1>1, <1>4, <1>7, LaneFields DEF Lane
  <2> QED BY <2>1, RecordFields DEF CloseAt, ClosePcs
<1>9. LanesOK' /\ Alone'
  BY <1>1, <1>4, <1>6, <1>7, <1>8, OtherMoves
<1>10. Listening' /\ TimerOK'
  BY <1>1, <1>2, <1>4 DEF Listening, TimerOK
<1>11. NoOrphanSocket'
  BY <1>1, <1>4, EndingStays, OrphanKept, SameWire, RecordFields
<1> QED BY <1>9, <1>10, <1>11 DEF Safe

-----------------------------------------------------------------------------
(* The driver's events                                                      *)

\* What an event finds: our socket, and of the calls at most a stop that drains.
LEMMA HeardFacts ==
  ASSUME Serial, TypeOK, Safe, NEW l \in EventLane, Enters(l), NEW s \in attached
  PROVE  /\ LanesOK /\ Alone /\ Listening /\ TimerOK /\ NoOrphanSocket
         /\ l \in Lane \ ApiLane /\ MayRun(l) /\ lane[l] = Idle
         /\ sock = s /\ detach = s /\ attached = {s} /\ s \in Socket /\ held # Nobody /\ timers = {}
         /\ state \in Moving \cup {"closing"} /\ (suppress <=> state = "closing")
         /\ \A k \in ApiLane : lane[k].pc \in ClosePcs =>
              lane[k].pc = "draining" /\ lane[k].op # "logout" /\ state = "closing"
<1>1. /\ LanesOK /\ Alone /\ Listening /\ TimerOK /\ NoOrphanSocket
      /\ l \in Lane \ ApiLane /\ MayRun(l) /\ lane[l] = Idle
  BY LaneAssumption DEF Safe, Enters, Lane
<1>2. sock = s /\ detach = s /\ attached = {s} /\ s \in Socket /\ sock # Nobody
  BY <1>1, NoSocketNoListener DEF TypeOK
<1>3. held # Nobody /\ timers = {} /\ state \in Moving \cup {"closing"}
  BY <1>1, <1>2, NoSocketNoListener DEF Listening, TimerOK
<1>4. ASSUME NEW k \in ApiLane, lane[k].pc \in ClosePcs
      PROVE  lane[k].pc = "draining" /\ lane[k].op # "logout" /\ state = "closing"
  <2>1. CloseAt(lane[k])
    BY <1>1 DEF LanesOK, Lane
  <2>2. lane[k].pc \notin {"ending", "releasing", "purging", "unlinking"}
    BY <1>2, <2>1, NobodyAssumption DEF CloseAt, ClosePcs
  <2>3. lane[k].pc = "draining"
    BY <1>4, <2>2 DEF ClosePcs
  <2> QED BY <1>3, <1>4, <2>1, <2>3 DEF CloseAt
<1>5. suppress <=> state = "closing"
  <2>1. suppress => \E k \in ApiLane : lane[k].pc \in ClosePcs
    BY <1>1, <1>2 DEF Listening
  <2> QED BY <1>1, <1>4, <2>1 DEF TimerOK
<1> QED BY <1>1, <1>2, <1>3, <1>4, <1>5

\* A call that drains is not disturbed by an event.
LEMMA DrainGoesOn ==
  ASSUME Serial, TypeOK, Safe, NEW l \in EventLane, Enters(l), NEW s \in attached,
         NEW r, lane' = [lane EXCEPT ![l] = r], r.pc \in {"idle", "ending", "purging", "saving"},
         r.pc = "idle" => r = Idle, UNCHANGED destroyed,
         state = "closing" => state' = "closing" /\ suppress'
  PROVE  /\ LanesOK' /\ Alone' /\ Ending \subseteq Ending' /\ (r.pc = "ending" => r.sock \in Ending')
         /\ \A k \in ApiLane : lane'[k] = lane[k]
<1>1. /\ LanesOK /\ Alone /\ l \in Lane \ ApiLane /\ MayRun(l) /\ lane[l].pc = "idle"
      /\ \A k \in ApiLane : lane[k].pc \in ClosePcs =>
           lane[k].pc = "draining" /\ lane[k].op # "logout" /\ state = "closing"
  BY HeardFacts, RecordFields
<1>2. \A k \in ApiLane : lane'[k] = lane[k]
  BY <1>1, LaneFields DEF Lane
<1>3. KindOK(l, r) /\ OpenAt(r)' /\ r.pc \notin OpenPcs
  BY <1>1, LaneAssumption DEF KindOK, OpenAt, OpenPcs
<1>4. ASSUME NEW k \in ApiLane, CloseAt(lane[k]) PROVE CloseAt(lane[k])'
  BY <1>1, <1>2, <1>4 DEF CloseAt, Moving
<1>5. LanesOK' /\ Alone'
  BY <1>1, <1>3, <1>4, OtherMoves
<1> QED BY <1>1, <1>2, <1>5, EndingStays

\* The limit closes a session that waits for a scan, and no other.
LEMMA OnQrSafe ==
  ASSUME Serial, TypeOK, Safe, NEW l \in EventLane, NEW s \in Socket, OnQr(l, s) PROVE Safe'
<1>1. /\ Listening /\ TimerOK /\ NoOrphanSocket /\ lane[l] = Idle /\ l \in Lane
      /\ sock = s /\ detach = s /\ attached = {s} /\ held # Nobody /\ timers = {} /\ sock # Nobody
      /\ state \in Moving \cup {"closing"} /\ (suppress <=> state = "closing")
      /\ Enters(l) /\ s \in attached /\ wire[s] = "up"
  BY HeardFacts, NobodyAssumption DEF OnQr
<1>2. state # "open" /\ UNCHANGED <<destroyed, timer, timers, held, wire>>
  BY <1>1 DEF OnQr, Listening, flags, clocks, lease
<1>3. CASE qrAttempt' > QrMax
  <2>1. /\ suppress' = TRUE /\ sock' = Nobody /\ detach' = Nobody /\ attached' = {}
        /\ state' = TryApply(TryApply(state, "qr"), "qr_exhausted")
    BY <1>1, <1>3 DEF OnQr, DropSocket
  <2>2. state' = IF state = "closing" THEN "closing" ELSE "closed"
    BY <1>1, <1>2, <2>1, Machine DEF Turns, Moving, SessionStates
  <2>3. PICK r : lane' = [lane EXCEPT ![l] = r] /\ r.pc = "ending" /\ r.sock = sock
    <3> DEFINE c == [At("event", "ending") EXCEPT !.sock = sock]
    <3>1. lane' = [lane EXCEPT ![l] = c]
      BY <1>1, <1>3 DEF OnQr
    <3>2. c.pc = "ending" /\ c.sock = sock
      BY RecordFields
    <3> HIDE DEF c
    <3> QED BY <3>1, <3>2
  <2>4. LanesOK' /\ Alone' /\ Ending \subseteq Ending' /\ sock \in Ending'
    BY <1>1, <1>2, <2>1, <2>2, <2>3, DrainGoesOn
  <2>5. Listening' /\ TimerOK'
    BY <1>1, <1>2, <2>1, <2>2 DEF Listening, TimerOK
  <2>6. NoOrphanSocket'
    BY <1>1, <1>2, <2>4, OrphanKept, SameWire
  <2> QED BY <2>4, <2>5, <2>6 DEF Safe
<1>4. CASE ~(qrAttempt' > QrMax)
  <2>1. state' = TryApply(state, "qr") /\ UNCHANGED <<suppress, sock, detach, attached, lane>>
    BY <1>4 DEF OnQr, listening
  <2>2. state' = IF state = "closing" THEN "closing" ELSE "awaiting_scan"
    BY <1>1, <1>2, <2>1, Machine DEF Turns, Moving, SessionStates
  <2>3. lane' = [lane EXCEPT ![l] = Idle] /\ Idle.pc = "idle"
    BY <1>1, <2>1, LaneFields, RecordFields
  <2>4. LanesOK' /\ Alone' /\ Ending \subseteq Ending'
    BY <1>1, <1>2, <2>1, <2>2, <2>3, DrainGoesOn
  <2>5. Listening' /\ TimerOK'
    BY <1>1, <1>2, <2>1, <2>2 DEF Listening, TimerOK
  <2>6. NoOrphanSocket'
    BY <1>1, <1>2, <2>1, <2>4, OrphanKept, SameWire
  <2> QED BY <2>4, <2>5, <2>6 DEF Safe
<1> QED BY <1>3, <1>4

LEMMA OnOpenSafe ==
  ASSUME Serial, TypeOK, Safe, NEW l \in EventLane, NEW s \in Socket, OnOpen(l, s) PROVE Safe'
<1>1. /\ Listening /\ TimerOK /\ NoOrphanSocket /\ lane[l] = Idle /\ l \in Lane
      /\ sock = s /\ detach = s /\ attached = {s} /\ held # Nobody /\ timers = {} /\ sock # Nobody
      /\ state \in Moving \cup {"closing"} /\ (suppress <=> state = "closing")
      /\ Enters(l) /\ s \in attached /\ wire[s] = "up"
  BY HeardFacts, NobodyAssumption DEF OnOpen
<1>2. /\ UNCHANGED <<suppress, destroyed, sock, detach, attached, timer, timers, held, lane>>
      /\ wire' = [wire EXCEPT ![s] = "open"]
  BY DEF OnOpen, flags, listening, clocks, lease
<1>3. state' = IF state = "closing" THEN "closing" ELSE "open"
  BY <1>1, Machine DEF OnOpen, Turns, Moving, SessionStates
<1>4. lane' = [lane EXCEPT ![l] = Idle] /\ Idle.pc = "idle"
  BY <1>1, <1>2, LaneFields, RecordFields
<1>5. LanesOK' /\ Alone' /\ Ending \subseteq Ending'
  BY <1>1, <1>2, <1>3, <1>4, DrainGoesOn
<1>6. wire'[sock] = "open" /\ Up' \subseteq Up
  BY <1>1, <1>2 DEF Up, TypeOK
<1>7. Listening' /\ TimerOK'
  BY <1>1, <1>2, <1>3, <1>6 DEF Listening, TimerOK
<1>8. NoOrphanSocket'
  BY <1>1, <1>2, <1>5, <1>6, OrphanKept
<1> QED BY <1>5, <1>7, <1>8 DEF Safe

\* Where a disconnect leads.
LEMMA CloseMoves ==
  ASSUME NEW c \in Cause, state \in Moving \cup {"closing"}
  PROVE  /\ state = "closing" => TryApply(state, DisconnectTrigger(c, state)) = "closing"
         /\ state # "closing" =>
              TryApply(state, DisconnectTrigger(c, state)) =
                IF c \in PurgesCreds THEN "logged_out"
                ELSE IF c \in ImmediateCauses /\ state = "awaiting_scan" THEN "connecting"
                     ELSE "closed"
BY Machine DEF DisconnectTrigger, Turns, Moving, SessionStates

LEMMA OnCloseSafe ==
  ASSUME Serial, TypeOK, Safe, NEW l \in EventLane, NEW s \in Socket, NEW c \in Cause, OnClose(l, s, c)
  PROVE  Safe'
<1>1. /\ Listening /\ TimerOK /\ NoOrphanSocket /\ lane[l] = Idle /\ l \in Lane
      /\ sock = s /\ detach = s /\ attached = {s} /\ held # Nobody /\ timers = {} /\ sock # Nobody
      /\ state \in Moving \cup {"closing"} /\ (suppress <=> state = "closing")
      /\ Enters(l) /\ s \in attached
  BY HeardFacts, NobodyAssumption DEF OnClose
<1>2. /\ UNCHANGED <<suppress, destroyed, held>> /\ wire' = [wire EXCEPT ![s] = "down"]
      /\ attached' = {} /\ detach' = Nobody /\ sock' = Nobody
      /\ state' = TryApply(state, DisconnectTrigger(c, state))
  BY <1>1 DEF OnClose, flags, lease
<1>3. /\ state = "closing" => state' = "closing"
      /\ state # "closing" => state' \in {"logged_out", "connecting", "closed"}
      /\ state # "closing" /\ c \notin PurgesCreds => state' \in {"connecting", "closed"}
  BY <1>1, <1>2, CloseMoves
<1>4. \/ UNCHANGED <<timer, timers>>
      \/ /\ ~suppress /\ c \notin PurgesCreds
         /\ \E t \in Timer : timer' = t /\ timers' = {t}
  BY <1>1 DEF OnClose, PlanReconnect, clocks
<1>5. PICK r : lane' = [lane EXCEPT ![l] = r] /\ r.pc \in {"idle", "purging"} /\ (r.pc = "idle" => r = Idle)
  <2>1. lane' = [lane EXCEPT ![l] = At("event", "purging")] \/ lane' = lane
    BY DEF OnClose
  <2>2. lane = [lane EXCEPT ![l] = Idle] /\ Idle.pc = "idle" /\ At("event", "purging").pc = "purging"
    BY <1>1, LaneFields, RecordFields
  <2> QED BY <2>1, <2>2
<1>6. LanesOK' /\ Alone' /\ Ending \subseteq Ending'
  BY <1>1, <1>2, <1>3, <1>5, DrainGoesOn
<1>7. Up' = Up \ {s}
  BY <1>2 DEF Up, TypeOK
<1>8. Listening' /\ TimerOK'
  BY <1>1, <1>2, <1>3, <1>4 DEF Listening, TimerOK
<1>9. NoOrphanSocket'
  BY <1>1, <1>6, <1>7, OrphanKept
<1> QED BY <1>6, <1>8, <1>9 DEF Safe

LEMMA OnCredsSafe ==
  ASSUME Serial, TypeOK, Safe, NEW l \in EventLane, NEW s \in Socket, OnCreds(l, s) PROVE Safe'
<1>1. /\ l \in Lane \ ApiLane /\ MayRun(l) /\ lane[l].pc = "idle"
      /\ UNCHANGED <<state, suppress, destroyed, sock, detach, attached, timer, timers, held, wire>>
      /\ lane' = [lane EXCEPT ![l] = At("event", "saving")]
  BY HeardFacts, RecordFields DEF OnCreds, flags, listening, clocks, lease
<1>2. At("event", "saving").pc = "saving"
  BY RecordFields
<1>3. KindOK(l, At("event", "saving")) /\ At("event", "saving").pc \notin OpenPcs \cup ClosePcs
  BY <1>2, LaneAssumption DEF KindOK, OpenPcs, ClosePcs
<1> QED BY <1>1, <1>3, QuietSafe

-----------------------------------------------------------------------------
(* The environment                                                          *)

LEMMA OutsideSafe ==
  ASSUME Serial, TypeOK, Safe,
         \/ \E s \in Socket : ClosedUnheard(s)
         \/ RivalTakes
         \/ \E t \in Token : Lapse(t)
         \/ UNCHANGED vars
  PROVE  Safe'
<1>1. /\ UNCHANGED <<lane, state, suppress, destroyed, sock, detach, attached, timer, timers, held>>
      /\ wire' = wire \/ \E s \in Socket : wire' = [wire EXCEPT ![s] = "down"]
  BY DEF ClosedUnheard, RivalTakes, Lapse, vars, flags, listening, clocks, lease
<1>2. LanesOK' /\ Alone'
  BY <1>1, NothingMoves DEF Safe
<1>3. Up' \subseteq Up /\ \A s \in Socket : wire'[s] = "up" => wire[s] = "up"
  BY <1>1 DEF Up, TypeOK
<1>4. Listening' /\ TimerOK'
  BY <1>1, <1>3 DEF Safe, Listening, TimerOK, TypeOK
<1>5. NoOrphanSocket'
  BY <1>1, <1>3 DEF Safe, NoOrphanSocket, Ending
<1> QED BY <1>2, <1>4, <1>5 DEF Safe

-----------------------------------------------------------------------------
(* Every socket is accounted for, and down means down                       *)

LEMMA InitSafe == Init => Safe
<1> SUFFICES ASSUME Init PROVE Safe
  OBVIOUS
<1>1. \A l \in Lane : lane[l] = Idle
  BY DEF Init
<1>2. \A l \in ApiLane : lane[l] = Idle
  BY <1>1 DEF Lane
<1>3. LanesOK /\ Alone
  BY <1>1, <1>2, RecordFields DEF LanesOK, Alone, KindOK, OpenAt, CloseAt, Opening, OpenPcs, ClosePcs
<1>4. Listening /\ TimerOK /\ NoOrphanSocket
  BY DEF Init, Listening, TimerOK, NoOrphanSocket, Up
<1> QED BY <1>3, <1>4 DEF Safe

LEMMA CallSafe == ASSUME Serial, TypeOK, Safe, NEW l \in ApiLane, Call(l) PROVE Safe'
<1>1. ASSUME Stop(l) \/ Remove(l) \/ Destroy(l) PROVE Safe'
  <2>1. PICK op \in {"stop", "remove", "destroy"} :
          Calls(l) /\ StopSegment(l, op) /\ destroyed' \in BOOLEAN
    BY <1>1 DEF Stop, Remove, Destroy, TypeOK
  <2> QED BY <2>1, StopSafe
<1> QED BY <1>1, StartSafe, LogoutSafe, ResetSafe DEF Call

LEMMA ResumeSafe == ASSUME Serial, TypeOK, Safe, NEW l \in Lane, Resume(l) PROVE Safe'
<1>1. ASSUME Drained(l) \/ Unlinked(l) PROVE Safe'
  <2>1. PICK pc \in {"draining", "unlinking"} : Resumes(l, pc)
    BY <1>1 DEF Drained, Unlinked
  <2>2. l \in ApiLane
    BY <2>1 DEF Safe, LanesOK, KindOK, Lane, Resumes
  <2> QED BY <1>1, <2>1, <2>2, DropSafe DEF Drained, Unlinked
<1>2. ASSUME Fenced(l) \/ (RenewThrows(l) /\ lane[l].token \in dead) PROVE Safe'
  <2>1. FenceSegment(l) /\ lane[l].pc \in {"renewing", "lost"} /\ MayRun(l)
    BY <1>2 DEF Fenced, RenewThrows, Resumes
  <2> QED BY <2>1, FenceSafe
<1>3. CASE AcquireDecided(l) \/ Acquired(l) \/ AuthLoaded(l) \/ Opened(l) \/ OpenFails(l)
  BY <1>3, AcquireSafe, AcquiredSafe, AuthLoadedSafe, OpenedSafe, OpenFailsSafe
<1>4. CASE Ended(l) \/ Released(l) \/ Purged(l) \/ PurgeFails(l) \/ UnlinkFails(l) \/ CredsSaved(l)
  BY <1>4, EndedSafe, ReleasedSafe, PurgedSafe, UnlinkFailsSafe, CredsSavedSafe
<1>5. CASE RenewDecided(l) \/ Renewed(l) \/ (RenewThrows(l) /\ lane[l].token \notin dead)
  BY <1>5, RenewDecidedSafe, RenewEndsSafe
<1> QED BY <1>1, <1>2, <1>3, <1>4, <1>5 DEF Resume

LEMMA NextSafe == ASSUME Serial PROVE TypeOK /\ Safe /\ [Next]_vars => Safe'
<1> SUFFICES ASSUME TypeOK, Safe, [Next]_vars PROVE Safe'
  OBVIOUS
<1>1. CASE \E l \in EventLane : Event(l)
  BY <1>1, OnQrSafe, OnOpenSafe, OnCredsSafe, OnCloseSafe DEF Event
<1>2. CASE \E l \in TimerLane : Fire(l)
  BY <1>2, ReconnectSafe DEF Fire
<1>3. CASE \E l \in BeatLane : Beat(l)
  BY <1>3, BeatSafe
<1>4. CASE \E l \in ApiLane : Call(l)
  BY <1>4, CallSafe
<1>5. CASE \E l \in Lane : Resume(l)
  BY <1>5, ResumeSafe
<1> QED BY <1>1, <1>2, <1>3, <1>4, <1>5, OutsideSafe DEF Next

LEMMA AlwaysSafe == ASSUME Serial PROVE Spec => [](TypeOK /\ Safe)
<1>1. Init => TypeOK /\ Safe
  BY InitType, InitSafe
<1>2. TypeOK /\ Safe /\ [Next]_vars => (TypeOK /\ Safe)'
  BY NextType, NextSafe
<1> QED BY <1>1, <1>2, PTL DEF Spec

\* Where calls, opens and pending reconnects do not overlap, every socket on
\* the wire is the session's own or is being ended (NoOrphanSocket), whatever
\* the heartbeat, the phone and the credential writes do meanwhile.
THEOREM NoneLeaked == ASSUME Serial PROVE Spec => []NoOrphanSocket
<1>1. Safe => NoOrphanSocket
  BY DEF Safe
<1> QED BY <1>1, AlwaysSafe, PTL

\* There too, a session that settled listens to no socket, and no reconnect is
\* pending to undo a stop, a fence or the QR limit (DownMeansDown).
THEOREM DownIsDown == ASSUME Serial PROVE Spec => []DownMeansDown
<1>1. TypeOK /\ Safe => DownMeansDown
  <2> SUFFICES ASSUME TypeOK, Safe PROVE DownMeansDown
    OBVIOUS
  <2> QED BY NoSocketNoListener DEF Safe, Listening, TimerOK, DownMeansDown
<1> QED BY <1>1, AlwaysSafe, PTL

-----------------------------------------------------------------------------
(* What a step writes                                                       *)

\* The step of lane l leaves the lanes alone, or leads lane l to one of pcs.
Leads(l, pcs) ==
  lane' = lane \/ \E r \in LaneRecord : lane' = [lane EXCEPT ![l] = r] /\ r.pc \in pcs

LEMMA LeadsWhere ==
  ASSUME TypeOK, NEW l \in Lane, NEW pcs, Leads(l, pcs), NEW m \in Lane, lane'[m] # lane[m]
  PROVE  m = l /\ lane'[m].pc \in pcs
BY LaneFields DEF Leads

\* A lane that remembers our socket, or our token.
LEMMA BuiltLanes ==
  ASSUME TypeOK, NEW op \in Ops, NEW pc \in Pcs
  PROVE  /\ [At(op, pc) EXCEPT !.sock = sock] \in LaneRecord
         /\ [At(op, pc) EXCEPT !.token = held] \in LaneRecord
<1>1. sock \in Socket \cup {Nobody} /\ held \in Token \cup {Nobody}
  BY DEF TypeOK
<1>2. [At(op, pc) EXCEPT !.sock = sock] \in LaneRecord
  BY <1>1, EndingType
<1>3. [At(op, pc) EXCEPT !.token = held] \in LaneRecord
  BY <1>1, TokenLaneType
<1> QED BY <1>2, <1>3

LEMMA CallLeads ==
  ASSUME TypeOK, NEW l \in ApiLane, Call(l)
  PROVE  Leads(l, {"acquiring", "loading", "draining", "unlinking"})
<1>1. ASSUME NEW op \in Ops, NEW pc \in {"acquiring", "loading", "draining", "unlinking"},
             lane' = [lane EXCEPT ![l] = At(op, pc)]
      PROVE  Leads(l, {"acquiring", "loading", "draining", "unlinking"})
  <2>1. At(op, pc).pc = pc /\ At(op, pc) \in LaneRecord
    BY AtType, RecordFields DEF Pcs
  <2> QED BY <1>1, <2>1 DEF Leads
<1>2. ASSUME Logout(l) PROVE Leads(l, {"acquiring", "loading", "draining", "unlinking"})
  <2> DEFINE c == [At("logout", "unlinking") EXCEPT !.sock = sock]
  <2>1. lane' = [lane EXCEPT ![l] = c]
    BY <1>2 DEF Logout
  <2>2. c.pc = "unlinking" /\ c \in LaneRecord
    <3>1. c \in LaneRecord
      BY BuiltLanes DEF Ops, Pcs
    <3> QED BY <3>1, RecordFields
  <2> HIDE DEF c
  <2> QED BY <2>1, <2>2 DEF Leads
<1>3. CASE Start(l)
  BY <1>1, <1>3 DEF Start, Ops
<1>4. CASE Stop(l) \/ Remove(l) \/ Destroy(l)
  BY <1>1, <1>4 DEF Stop, Remove, Destroy, StopSegment, Ops
<1>5. CASE Reset(l)
  BY <1>5 DEF Reset, Leads
<1> QED BY <1>2, <1>3, <1>4, <1>5 DEF Call

LEMMA EventLeads ==
  ASSUME TypeOK, NEW l \in EventLane, Event(l) PROVE Leads(l, {"ending", "purging", "saving"})
<1>1. ASSUME NEW pc \in {"purging", "saving"}, lane' = [lane EXCEPT ![l] = At("event", pc)]
      PROVE  Leads(l, {"ending", "purging", "saving"})
  <2>1. At("event", pc).pc = pc /\ At("event", pc) \in LaneRecord
    BY AtType, RecordFields DEF Pcs, Ops
  <2> QED BY <1>1, <2>1 DEF Leads
<1>2. ASSUME NEW s \in Socket, OnQr(l, s) PROVE Leads(l, {"ending", "purging", "saving"})
  <2> DEFINE c == [At("event", "ending") EXCEPT !.sock = sock]
  <2>1. lane' = lane \/ lane' = [lane EXCEPT ![l] = c]
    BY <1>2 DEF OnQr
  <2>2. c.pc = "ending" /\ c \in LaneRecord
    <3>1. c \in LaneRecord
      BY BuiltLanes DEF Ops, Pcs
    <3> QED BY <3>1, RecordFields
  <2> HIDE DEF c
  <2> QED BY <2>1, <2>2 DEF Leads
<1>3. ASSUME NEW s \in Socket, OnOpen(l, s) \/ OnCreds(l, s) PROVE Leads(l, {"ending", "purging", "saving"})
  BY <1>1, <1>3 DEF OnOpen, OnCreds, Leads
<1>4. ASSUME NEW s \in Socket, NEW c \in Cause, OnClose(l, s, c)
      PROVE  Leads(l, {"ending", "purging", "saving"})
  BY <1>1, <1>4 DEF OnClose, Leads
<1> QED BY <1>2, <1>3, <1>4 DEF Event

LEMMA TimerLeads ==
  ASSUME TypeOK, NEW l, Fire(l) \/ Beat(l)
  PROVE  /\ Fire(l) => Leads(l, {"loading"})
         /\ Beat(l) => Leads(l, {"renewing"})
<1>1. ASSUME Fire(l) PROVE Leads(l, {"loading"})
  <2>1. At("reconnect", "loading").pc = "loading" /\ At("reconnect", "loading") \in LaneRecord
    BY AtType, RecordFields DEF Pcs, Ops
  <2> QED BY <1>1, <2>1 DEF Fire, Reconnect, Leads
<1>2. ASSUME Beat(l) PROVE Leads(l, {"renewing"})
  <2> DEFINE c == [At("renew", "renewing") EXCEPT !.token = held]
  <2>1. lane' = lane \/ lane' = [lane EXCEPT ![l] = c]
    BY <1>2 DEF Beat
  <2>2. c.pc = "renewing" /\ c \in LaneRecord
    <3>1. c \in LaneRecord
      BY BuiltLanes DEF Ops, Pcs
    <3> QED BY <3>1, RecordFields
  <2> HIDE DEF c
  <2> QED BY <2>1, <2>2 DEF Leads
<1> QED BY <1>1, <1>2

LEMMA FenceLeads ==
  ASSUME TypeOK, NEW l \in Lane, FenceSegment(l) PROVE Leads(l, {"idle", "ending"})
<1> DEFINE c == [At("renew", "ending") EXCEPT !.sock = sock]
<1>1. lane' = [lane EXCEPT ![l] = c] \/ lane' = [lane EXCEPT ![l] = Idle]
  BY DEF FenceSegment
<1>2. c.pc = "ending" /\ Idle.pc = "idle" /\ c \in LaneRecord /\ Idle \in LaneRecord
  <2>1. c \in LaneRecord
    BY BuiltLanes DEF Ops, Pcs
  <2> QED BY <2>1, RecordFields, IdleType
<1> HIDE DEF c
<1> QED BY <1>1, <1>2 DEF Leads

\* A call that took the socket away gives up the lock, or its lane goes on.
LEMMA ReleaseLeads ==
  ASSUME TypeOK, NEW l \in Lane, ReleaseSegment(l)
  PROVE  Leads(l, {"idle", "purging", "releasing"}) /\ held' = Nobody
<1> DEFINE c == [At(lane[l].op, "releasing") EXCEPT !.token = held]
<1>1. lane' = [lane EXCEPT ![l] = c] \/ lane' = [lane EXCEPT ![l] = AfterRelease(l)]
  BY DEF ReleaseSegment
<1>2. c.pc = "releasing" /\ c \in LaneRecord
  <2>1. c \in LaneRecord
    BY BuiltLanes, LaneFields DEF Pcs
  <2> QED BY <2>1, RecordFields
<1>3. AfterRelease(l).pc \in {"idle", "purging"} /\ AfterRelease(l) \in LaneRecord
  BY RecordFields, AtType, IdleType, LaneFields DEF AfterRelease, Pcs
<1> HIDE DEF c
<1> QED BY <1>1, <1>2, <1>3 DEF Leads, ReleaseSegment, ForgetLease

LEMMA DoneLeads == ASSUME NEW l, Done(l) PROVE Leads(l, {"idle"})
BY RecordFields, IdleType DEF Done, Leads

LEMMA GoLeads == ASSUME TypeOK, NEW l \in Lane, NEW pc \in Pcs, Go(l, pc) PROVE Leads(l, {pc})
<1> DEFINE c == [lane[l] EXCEPT !.pc = pc]
<1>1. lane' = [lane EXCEPT ![l] = c]
  BY DEF Go
<1>2. c.pc = pc /\ c \in LaneRecord
  BY LaneFields DEF LaneRecord
<1> HIDE DEF c
<1> QED BY <1>1, <1>2 DEF Leads

\* A dropped socket is ended, or the lock given up at once.
LEMMA DropLeads ==
  ASSUME TypeOK, NEW l \in Lane, Drained(l) \/ Unlinked(l)
  PROVE  \/ sock = Nobody /\ ReleaseSegment(l)
         \/ sock # Nobody /\ Leads(l, {"ending"}) /\ UNCHANGED <<state, held>>
<1>1. CASE NothingToEnd
  BY <1>1 DEF Drained, Unlinked, NothingToEnd
<1>2. CASE ~NothingToEnd
  <2> DEFINE c == [lane[l] EXCEPT !.pc = "ending", !.sock = sock]
  <2>1. lane' = [lane EXCEPT ![l].pc = "ending", ![l].sock = sock] /\ UNCHANGED <<state, held>>
    BY <1>2 DEF Drained, Unlinked, lease
  <2>2. lane' = [lane EXCEPT ![l] = c]
    BY <2>1
  <2>3. c.pc = "ending" /\ c \in LaneRecord
    <3>1. lane[l] \in LaneRecord /\ sock \in Socket \cup {Nobody}
      BY LaneFields DEF TypeOK
    <3> QED BY <3>1 DEF LaneRecord, Pcs
  <2> HIDE DEF c
  <2> QED BY <1>2, <2>1, <2>2, <2>3 DEF Leads, NothingToEnd
<1> QED BY <1>1, <1>2

\* A decided acquire.
LEMMA AcquireLeads ==
  ASSUME TypeOK, NEW l \in Lane, AcquireDecided(l)
  PROVE  \/ UNCHANGED backend /\ Leads(l, {"refused"})
         \/ /\ holder = Nobody
            /\ \E t \in Unminted : /\ holder' = t /\ dead' = dead \ {t} /\ t # Nobody
                                   /\ \E r \in LaneRecord : /\ lane' = [lane EXCEPT ![l] = r]
                                                            /\ r.pc = "acquired" /\ r.token = t
<1>1. CASE holder # Nobody
  BY <1>1, GoLeads DEF AcquireDecided, Pcs
<1>2. CASE holder = Nobody
  <2>1. PICK t \in Unminted : /\ holder' = t /\ dead' = dead \ {t}
                              /\ lane' = [lane EXCEPT ![l].pc = "acquired", ![l].token = t]
    BY <1>2 DEF AcquireDecided
  <2> DEFINE c == [lane[l] EXCEPT !.pc = "acquired", !.token = t]
  <2>2. lane' = [lane EXCEPT ![l] = c]
    BY <2>1
  <2>3. t \in Token /\ t # Nobody /\ lane[l] \in LaneRecord
    BY NobodyAssumption, LaneFields DEF Unminted
  <2>4. c.pc = "acquired" /\ c.token = t /\ c \in LaneRecord
    BY <2>3 DEF LaneRecord, Pcs
  <2> HIDE DEF c
  <2> QED BY <1>2, <2>1, <2>2, <2>3, <2>4
<1> QED BY <1>1, <1>2

-----------------------------------------------------------------------------
(* The lock is given up last                                                *)

\* A release begins where a call took the socket away, or found none.
LEMMA ReleaseBegins ==
  ASSUME TypeOK, Safe, [Next]_vars, NEW m \in Lane, lane[m].pc # "releasing", lane'[m].pc = "releasing"
  PROVE  /\ m \in ApiLane /\ MayRun(m)
         /\ \/ (Drained(m) \/ Unlinked(m)) /\ sock = Nobody
            \/ Ended(m)
<1>1. ASSUME NEW l \in Lane, NEW pcs, Leads(l, pcs) PROVE l = m /\ "releasing" \in pcs
  BY <1>1, LeadsWhere
<1>2. PICK l \in Lane : Resume(l)
  BY <1>1, CallLeads, EventLeads, TimerLeads DEF Next, Lane, ClosedUnheard, RivalTakes, Lapse, vars
<1>3. ~Done(l) /\ ~FenceSegment(l) /\ \A pc \in Pcs \ {"releasing"} : ~Go(l, pc)
  <2>1. ~Done(l) /\ ~FenceSegment(l)
    BY <1>1, DoneLeads, FenceLeads
  <2>2. ASSUME NEW pc \in Pcs \ {"releasing"}, Go(l, pc) PROVE FALSE
    BY <1>1, <2>2, GoLeads
  <2> QED BY <2>1, <2>2
<1>4. ~AcquireDecided(l)
  BY <1>1, AcquireLeads, LaneFields
<1>5. ~Acquired(l) /\ ~Released(l)
  <2>1. ASSUME Acquired(l) PROVE FALSE
    BY <2>1, LaneFields, RecordFields DEF Acquired
  <2>2. ASSUME Released(l) PROVE FALSE
    <3>1. AfterRelease(l).pc \in {"purging", "idle"}
      BY RecordFields DEF AfterRelease
    <3> QED BY <2>2, <3>1, LaneFields DEF Released
  <2> QED BY <2>1, <2>2
<1>6. Drained(l) \/ Unlinked(l) \/ Ended(l)
  BY <1>2, <1>3, <1>4, <1>5 DEF Resume, AuthLoaded, Opened, OpenFails, Purged, PurgeFails, UnlinkFails,
     CredsSaved, RenewDecided, Renewed, Fenced, RenewThrows, Pcs
<1>7. ASSUME Drained(l) \/ Unlinked(l) PROVE l = m /\ sock = Nobody /\ l \in ApiLane /\ MayRun(l)
  <2>1. sock = Nobody /\ ReleaseSegment(l)
    BY <1>1, <1>7, DropLeads
  <2>2. l = m
    BY <1>1, <2>1, ReleaseLeads
  <2> QED BY <1>7, <2>1, <2>2 DEF Drained, Unlinked, Resumes, Safe, LanesOK, KindOK, Lane
<1>8. ASSUME Ended(l) PROVE l = m /\ l \in ApiLane /\ MayRun(l)
  <2>1. l \in ApiLane /\ ReleaseSegment(l)
    BY <1>3, <1>8 DEF Ended
  <2> QED BY <1>1, <1>8, <2>1, ReleaseLeads DEF Ended, Resumes
<1> QED BY <1>6, <1>7, <1>8

\* While a call waits for the release, the driver holds no socket of ours.
LEMMA ReleaseKept ==
  ASSUME Serial, "end" \notin Admits, TypeOK, Safe, ReleasedAfterSocket, [Next]_vars
  PROVE  ReleasedAfterSocket'
<1> SUFFICES ASSUME NEW m \in Lane, lane'[m].pc = "releasing" PROVE Up' = {}
  BY DEF ReleasedAfterSocket, Awaits
<1>0. LanesOK /\ Alone /\ NoOrphanSocket /\ Listening
  BY DEF Safe
<1>1. CASE lane[m].pc = "releasing"
  <2>1. Up = {} /\ m \in ApiLane
    BY <1>0, <1>1 DEF ReleasedAfterSocket, Awaits, LanesOK, KindOK, Lane
  <2>2. ASSUME NEW l \in Lane, Opened(l) PROVE FALSE
    <3>1. Opening(l) /\ l # m
      BY <1>1, <2>2 DEF Opened, Resumes, Opening
    <3>2. lane[m] # Idle
      BY <1>1, RecordFields
    <3> QED BY <1>0, <2>1, <3>1, <3>2 DEF Alone, Lane
  <2>3. CASE \E l \in Lane : Resume(l)
    <3>1. wire' = wire \/ \E s \in Socket \cup {Nobody} : wire' = [wire EXCEPT ![s] = "down"]
      BY <2>2, <2>3, LaneFields DEF Resume, AcquireDecided, Acquired, AuthLoaded, OpenFails, Drained, Ended,
         Released, Purged, PurgeFails, Unlinked, UnlinkFails, CredsSaved, RenewDecided, Renewed, Fenced, RenewThrows,
         FenceSegment
    <3> QED BY <2>1, <3>1 DEF Up, TypeOK
  <2>4. CASE \E l \in EventLane : Event(l)
    <3>1. Up # {} \/ UNCHANGED wire
      BY <2>4 DEF Event, OnQr, OnOpen, OnClose, OnCreds, Up
    <3> QED BY <2>1, <3>1 DEF Up
  <2>5. CASE \E s \in Socket : ClosedUnheard(s)
    BY <2>1, <2>5 DEF ClosedUnheard
  <2>6. CASE \/ \E l \in ApiLane : Call(l)
             \/ \E l \in TimerLane : Fire(l)
             \/ \E l \in BeatLane : Beat(l)
             \/ RivalTakes \/ (\E t \in Token : Lapse(t)) \/ UNCHANGED vars
    <3>1. UNCHANGED wire
      BY <2>6 DEF Call, Start, Stop, Remove, Destroy, StopSegment, Logout, Reset, Fire, Reconnect, Beat,
         RivalTakes, Lapse, vars
    <3> QED BY <2>1, <3>1 DEF Up
  <2> QED BY <2>3, <2>4, <2>5, <2>6 DEF Next
\* The step that begins the release ran beside no other end of a socket.
<1>2. CASE lane[m].pc # "releasing"
  <2>1. /\ m \in ApiLane /\ MayRun(m)
        /\ \/ (Drained(m) \/ Unlinked(m)) /\ sock = Nobody
           \/ Ended(m)
    BY <1>2, ReleaseBegins
  <2>2. PICK pc \in ClosePcs : Resumes(m, pc) /\ (Ended(m) => pc = "ending") /\ (~Ended(m) => pc # "ending")
    BY <2>1 DEF Drained, Unlinked, Ended, ClosePcs
  <2>3. lane[m].pc = pc /\ \A k \in ApiLane \ {m} : lane[k] = Idle
    BY <2>1, <2>2, ClosingFacts
  <2>4. ASSUME NEW k \in Lane \ {m} PROVE lane[k].pc # "ending"
    <3>1. k \notin ApiLane => ~EndingAside(k)
      BY <2>1 DEF MayRun
    <3> QED BY <2>3, <3>1, RecordFields DEF EndingAside
  <2>5. CASE ~Ended(m)
    <3>1. Ending = {}
      BY <2>2, <2>3, <2>4, <2>5 DEF Ending
    <3>2. sock = Nobody /\ UNCHANGED wire
      BY <2>1, <2>5 DEF Drained, Unlinked
    <3> QED BY <1>0, <3>1, <3>2, NobodyAssumption DEF NoOrphanSocket, Up
  <2>6. CASE Ended(m)
    <3>1. Ending \subseteq {lane[m].sock}
      BY <2>4 DEF Ending
    <3>2. sock = Nobody
      BY <2>1, <2>2, <2>6, ClosingFacts DEF CloseAt
    <3>3. wire' = [wire EXCEPT ![lane[m].sock] = "down"]
      BY <2>6 DEF Ended
    <3> QED BY <1>0, <3>1, <3>2, <3>3, NobodyAssumption DEF NoOrphanSocket, Up, TypeOK
  <2> QED BY <2>5, <2>6
<1> QED BY <1>1, <1>2

\* Where moreover nothing runs while the driver ends a socket a fence or the QR
\* limit closed, a call asks for the release of the lock only once no socket is
\* left on the wire (ReleasedAfterSocket).
THEOREM LockGivenUpLast == ASSUME Serial, "end" \notin Admits PROVE Spec => []ReleasedAfterSocket
<1>1. Init => ReleasedAfterSocket
  BY DEF Init, ReleasedAfterSocket, Up
<1>2. TypeOK /\ Safe /\ ReleasedAfterSocket /\ [Next]_vars => ReleasedAfterSocket'
  BY ReleaseKept
<1> QED BY <1>1, <1>2, AlwaysSafe, PTL DEF Spec

-----------------------------------------------------------------------------
(* No socket without the lock                                               *)

\* What each continuation knows of the lease: a renew carries the token held,
\* none is held while one is asked for or given back, and one just granted is
\* the provider's.
LeaseAt(c) ==
  /\ c.pc \in {"renewing", "renewed", "lost"} => c.token = held /\ held # Nobody
  /\ c.pc \in {"acquiring", "acquired", "refused", "releasing"} => held = Nobody
  /\ c.pc = "acquired" => holder = c.token \/ c.token \in dead

\* The token held is the provider's, or its lease ran out.
HeldIsOurs == held # Nobody => holder = held \/ held \in dead

LeaseInv == HeldIsOurs /\ \A l \in Lane : LeaseAt(lane[l])

LeasePcs == {"acquiring", "acquired", "refused", "releasing", "renewing", "renewed", "lost"}

\* Beside a continuation that runs, no renew is on its way.
LEMMA NoneRenewing ==
  ASSUME "renew" \notin Admits, NEW l, MayRun(l), NEW k \in Lane \ {l}
  PROVE  lane[k].pc \notin {"renewing", "renewed", "lost"}
BY DEF MayRun, Renewing

LEMMA LeaseSame ==
  ASSUME TypeOK, LeaseInv, NEW l \in Lane, NEW pcs, Leads(l, pcs), pcs \cap LeasePcs = {},
         UNCHANGED <<held, holder, dead>>
  PROVE  LeaseInv'
<1>1. HeldIsOurs'
  BY DEF LeaseInv, HeldIsOurs
<1>2. ASSUME NEW m \in Lane PROVE LeaseAt(lane[m])'
  <2>1. CASE lane'[m] = lane[m]
    BY <2>1 DEF LeaseInv, LeaseAt
  <2>2. CASE lane'[m] # lane[m]
    BY <2>2, LeadsWhere DEF LeaseAt, LeasePcs
  <2> QED BY <2>1, <2>2
<1> QED BY <1>1, <1>2 DEF LeaseInv

\* The token is forgotten where no renew is on its way.
LEMMA LeaseForgotten ==
  ASSUME "renew" \notin Admits, TypeOK, LeaseInv, NEW l \in Lane, MayRun(l),
         NEW pcs \in SUBSET {"idle", "purging", "releasing", "ending"}, Leads(l, pcs),
         lane[l].pc \notin {"renewing", "renewed", "lost"} \/ lane'[l] # lane[l],
         held' = Nobody, UNCHANGED <<holder, dead>>
  PROVE  LeaseInv'
<1>1. ASSUME NEW m \in Lane PROVE LeaseAt(lane[m])'
  <2>1. CASE lane'[m] = lane[m]
    <3>1. lane[m].pc \notin {"renewing", "renewed", "lost"}
      BY <2>1, NoneRenewing
    <3> QED BY <2>1, <3>1 DEF LeaseInv, LeaseAt
  <2>2. CASE lane'[m] # lane[m]
    BY <2>2, LeadsWhere DEF LeaseAt
  <2> QED BY <2>1, <2>2
<1> QED BY <1>1 DEF LeaseInv, HeldIsOurs

LEMMA CallLease ==
  ASSUME Serial, TypeOK, Safe, LeaseInv, NEW l \in ApiLane, Call(l) PROVE LeaseInv'
<1>1. l \in Lane /\ UNCHANGED <<held, holder, dead>>
  BY DEF Lane, Call, Start, Stop, Remove, Destroy, StopSegment, Logout, Reset, lease, backend
<1>2. PICK r : lane' = lane \/ (lane' = [lane EXCEPT ![l] = r] /\ r.pc \in {"acquiring", "loading", "draining", "unlinking"})
  BY CallLeads DEF Leads
<1>3. lane'[l].pc = "acquiring" => held = Nobody
  <2>1. CASE Start(l)
    <3>1. held # Nobody => lane' = [lane EXCEPT ![l] = At("start", "loading")]
      BY <2>1 DEF Start, NeedsLock
    <3> QED BY <1>1, <3>1, LaneFields, RecordFields
  <2>2. CASE Reset(l)
    BY <1>1, <2>2 DEF Reset, LeaseInv, LeaseAt
  <2>3. CASE Logout(l)
    BY <1>1, <2>3, LaneFields DEF Logout, At, Idle
  <2>4. CASE Stop(l) \/ Remove(l) \/ Destroy(l)
    BY <1>1, <2>4, LaneFields, RecordFields DEF Stop, Remove, Destroy, StopSegment
  <2> QED BY <2>1, <2>2, <2>3, <2>4 DEF Call
<1>4. HeldIsOurs'
  BY <1>1 DEF LeaseInv, HeldIsOurs
<1>5. ASSUME NEW m \in Lane PROVE LeaseAt(lane[m])'
  <2>1. CASE lane'[m] = lane[m]
    BY <1>1, <2>1 DEF LeaseInv, LeaseAt
  <2>2. CASE lane'[m] # lane[m]
    <3>1. m = l /\ lane'[m].pc \in {"acquiring", "loading", "draining", "unlinking"}
      BY <1>1, <2>2, CallLeads, LeadsWhere
    <3> QED BY <1>1, <1>3, <3>1 DEF LeaseAt
  <2> QED BY <2>1, <2>2
<1> QED BY <1>4, <1>5 DEF LeaseInv

\* A lock is asked for, granted and kept.
LEMMA AcquireLease ==
  ASSUME Serial, TypeOK, Safe, LeaseInv, NEW l \in Lane, AcquireDecided(l) PROVE LeaseInv'
<1>1. lane[l].pc = "acquiring" /\ held = Nobody /\ UNCHANGED held
  BY DEF AcquireDecided, Resumes, LeaseInv, LeaseAt, lease
<1>2. HeldIsOurs'
  BY <1>1 DEF HeldIsOurs
<1>3. ASSUME NEW m \in Lane PROVE LeaseAt(lane[m])'
  <2>1. CASE m # l
    <3>1. lane'[m] = lane[m]
      BY <2>1, AcquireLeads, LeadsWhere, LaneFields
    <3>2. lane[m].pc # "acquired"
      BY <2>1, NoneOpening DEF AcquireDecided, Resumes, OpenPcs
    <3> QED BY <1>1, <3>1, <3>2 DEF LeaseInv, LeaseAt
  <2>2. CASE m = l
    <3>1. CASE UNCHANGED backend /\ Leads(l, {"refused"})
      <4>1. lane'[l] # lane[l] => lane'[l].pc = "refused"
        BY <3>1, LeadsWhere
      <4> QED BY <1>1, <2>2, <4>1 DEF LeaseAt
    <3>2. CASE \E t \in Unminted : /\ holder' = t
                                   /\ \E r \in LaneRecord : /\ lane' = [lane EXCEPT ![l] = r]
                                                            /\ r.pc = "acquired" /\ r.token = t
      BY <1>1, <2>2, <3>2, LaneFields DEF LeaseAt
    <3> QED BY <3>1, <3>2, AcquireLeads
  <2> QED BY <2>1, <2>2
<1> QED BY <1>2, <1>3 DEF LeaseInv

LEMMA AcquiredLease ==
  ASSUME Serial, "renew" \notin Admits, TypeOK, Safe, LeaseInv, NEW l \in Lane, Acquired(l) PROVE LeaseInv'
<1>1. /\ lane[l].pc = "acquired" /\ MayRun(l) /\ held' = lane[l].token /\ UNCHANGED <<holder, dead>>
      /\ lane' = [lane EXCEPT ![l] = At("start", "loading")] /\ "acquired" \in OpenPcs
      /\ Resumes(l, "acquired")
  BY DEF Acquired, Resumes, backend, OpenPcs
<1>2. HeldIsOurs'
  BY <1>1 DEF LeaseInv, LeaseAt, HeldIsOurs
<1>3. ASSUME NEW m \in Lane PROVE LeaseAt(lane[m])'
  <2>1. CASE m = l
    BY <1>1, <2>1, LaneFields, RecordFields DEF LeaseAt
  <2>2. CASE m # l
    <3>1. lane'[m] = lane[m]
      BY <1>1, <2>2, LaneFields
    <3>2. lane[m].pc \notin OpenPcs /\ lane[m].pc \notin {"renewing", "renewed", "lost"}
      BY <1>1, <2>2, NoneOpening, NoneRenewing
    <3>3. lane[m].pc # "releasing"
      <4>1. \A k \in ApiLane \ {l} : lane[k] = Idle
        BY <1>1, OpeningFacts
      <4>2. lane[m].pc = "releasing" => m \in ApiLane
        BY DEF Safe, LanesOK, KindOK, Lane
      <4> QED BY <2>2, <4>1, <4>2, RecordFields
    <3> QED BY <3>1, <3>2, <3>3 DEF LeaseAt, OpenPcs
  <2> QED BY <2>1, <2>2
<1> QED BY <1>2, <1>3 DEF LeaseInv

\* A renew brings back the token it went with.
LEMMA RenewLease ==
  ASSUME TypeOK, LeaseInv, NEW l \in Lane,
         RenewDecided(l) \/ Renewed(l) \/ (RenewThrows(l) /\ lane[l].token \notin dead)
  PROVE  LeaseInv'
<1>1. lane[l].pc \in {"renewing", "renewed"} /\ held = lane[l].token /\ held # Nobody /\ UNCHANGED <<held, holder, dead>>
  BY DEF RenewDecided, Renewed, RenewThrows, Resumes, LeaseInv, LeaseAt, lease, backend
<1>2. CASE Done(l)
  BY <1>1, <1>2, DoneLeads, LeaseSame DEF LeasePcs
<1>3. CASE RenewDecided(l)
  <2>1. PICK p \in {"renewed", "lost"} : lane' = [lane EXCEPT ![l] = [lane[l] EXCEPT !.pc = p]]
    BY <1>3 DEF RenewDecided, Go
  <2>2. lane'[l].token = held /\ lane'[l].pc = p /\ \A m \in Lane \ {l} : lane'[m] = lane[m]
    BY <1>1, <2>1, LaneFields
  <2> QED BY <1>1, <2>2 DEF LeaseInv, LeaseAt, HeldIsOurs
<1> QED BY <1>2, <1>3 DEF Renewed, RenewThrows

LEMMA FenceLease ==
  ASSUME "renew" \notin Admits, TypeOK, Safe, LeaseInv, NEW l \in Lane, MayRun(l), FenceSegment(l),
         lane[l].pc \in {"renewing", "lost"}
  PROVE  LeaseInv'
<1>1. held' = Nobody /\ UNCHANGED <<holder, dead>>
  BY DEF FenceSegment, ForgetLease, backend
<1>2. lane'[l] # lane[l]
  <2>1. Leads(l, {"idle", "ending"}) /\ lane' # lane
    <3>1. \E r : lane' = [lane EXCEPT ![l] = r] /\ r.pc \in {"idle", "ending"}
      <4> DEFINE c == [At("renew", "ending") EXCEPT !.sock = sock]
      <4>1. lane' = [lane EXCEPT ![l] = c] \/ lane' = [lane EXCEPT ![l] = Idle]
        BY DEF FenceSegment
      <4>2. c.pc = "ending" /\ Idle.pc = "idle"
        BY RecordFields
      <4> HIDE DEF c
      <4> QED BY <4>1, <4>2
    <3>2. lane'[l].pc \in {"idle", "ending"}
      BY <3>1, LaneFields
    <3> QED BY <3>2, FenceLeads
  <2> QED BY <2>1, LaneFields DEF Leads
<1> QED BY <1>1, <1>2, FenceLeads, LeaseForgotten

\* A call gives the token back.
LEMMA GiveBackLease ==
  ASSUME "renew" \notin Admits, TypeOK, Safe, LeaseInv, NEW l \in ApiLane, MayRun(l), ReleaseSegment(l),
         UNCHANGED <<holder, dead>>, lane[l].pc \in ClosePcs
  PROVE  LeaseInv'
<1>1. l \in Lane
  BY DEF Lane
<1> QED BY <1>1, ReleaseLeads, LeaseForgotten DEF ClosePcs

LEMMA ReleasedLease ==
  ASSUME Serial, TypeOK, Safe, LeaseInv, NEW l \in Lane, Released(l) PROVE LeaseInv'
<1>1. /\ lane[l].pc = "releasing" /\ held = Nobody /\ UNCHANGED <<held, dead>>
      /\ holder' \in {holder, Nobody} /\ lane' = [lane EXCEPT ![l] = AfterRelease(l)]
  BY DEF Released, Resumes, LeaseInv, LeaseAt, lease
<1>2. AfterRelease(l).pc \in {"idle", "purging"}
  BY RecordFields DEF AfterRelease
<1>3. ASSUME NEW m \in Lane PROVE LeaseAt(lane[m])'
  <2>1. CASE m = l
    BY <1>1, <1>2, <2>1, LaneFields DEF LeaseAt
  <2>2. CASE m # l
    <3>1. lane'[m] = lane[m] /\ lane[m].pc # "acquired"
      BY <1>1, <2>2, LaneFields, NoneOpening DEF Released, Resumes, OpenPcs
    <3> QED BY <1>1, <3>1 DEF LeaseInv, LeaseAt
  <2> QED BY <2>1, <2>2
<1> QED BY <1>1, <1>3 DEF LeaseInv, HeldIsOurs

\* A rival takes a free key under a token nobody remembers, and leases lapse.
LEMMA RivalLease ==
  ASSUME TypeOK, Safe, LeaseInv, RivalTakes \/ (\E t \in Token : Lapse(t)) PROVE LeaseInv'
<1>1. UNCHANGED <<held, lane>>
  BY DEF RivalTakes, Lapse, lease
<1>2. ASSUME NEW u \in {held} \cup {lane[l].token : l \in Lane}, u # Nobody, holder = u \/ u \in dead
      PROVE  holder' = u \/ u \in dead'
  BY <1>2 DEF RivalTakes, Lapse, Unminted, Remembered
<1>3. HeldIsOurs'
  BY <1>1, <1>2 DEF LeaseInv, HeldIsOurs
<1>4. ASSUME NEW m \in Lane PROVE LeaseAt(lane[m])'
  <2>1. lane[m].pc = "acquired" => lane[m].token # Nobody
    BY DEF Safe, LanesOK, OpenAt, OpenPcs
  <2>2. lane[m].pc = "acquired" => holder' = lane[m].token \/ lane[m].token \in dead'
    BY <1>2, <2>1 DEF LeaseInv, LeaseAt
  <2> QED BY <1>1, <2>2 DEF LeaseInv, LeaseAt
<1> QED BY <1>3, <1>4 DEF LeaseInv

LEMMA ResumeLease ==
  ASSUME Serial, "renew" \notin Admits, TypeOK, Safe, LeaseInv, NEW l \in Lane, Resume(l)
  PROVE  LeaseInv'
<1>1. ASSUME Drained(l) \/ Unlinked(l) PROVE LeaseInv'
  <2>1. l \in ApiLane /\ MayRun(l) /\ lane[l].pc \in ClosePcs /\ UNCHANGED <<holder, dead>>
    BY <1>1 DEF Drained, Unlinked, Resumes, Safe, LanesOK, KindOK, Lane, ClosePcs, backend
  <2>2. CASE ReleaseSegment(l)
    BY <2>1, <2>2, GiveBackLease
  <2>3. CASE Leads(l, {"ending"}) /\ UNCHANGED held
    BY <2>1, <2>3, LeaseSame DEF LeasePcs
  <2> QED BY <1>1, <2>2, <2>3, DropLeads
<1>2. ASSUME Ended(l) PROVE LeaseInv'
  <2>1. MayRun(l) /\ lane[l].pc \in ClosePcs /\ UNCHANGED <<holder, dead>>
    BY <1>2 DEF Ended, Resumes, ClosePcs, backend
  <2>2. CASE l \in ApiLane
    BY <1>2, <2>1, <2>2, GiveBackLease DEF Ended
  <2>3. CASE l \notin ApiLane
    <3>1. Done(l) /\ UNCHANGED held
      BY <1>2, <2>3 DEF Ended, lease
    <3> QED BY <2>1, <3>1, DoneLeads, LeaseSame DEF LeasePcs
  <2> QED BY <2>2, <2>3
<1>3. ASSUME Opened(l) \/ OpenFails(l) \/ Purged(l) \/ PurgeFails(l) \/ UnlinkFails(l) \/ CredsSaved(l) PROVE LeaseInv'
  <2>1. Done(l) /\ UNCHANGED <<held, holder, dead>>
    BY <1>3 DEF Opened, OpenFails, Purged, PurgeFails, UnlinkFails, CredsSaved, lease, backend
  <2> QED BY <2>1, DoneLeads, LeaseSame DEF LeasePcs
<1>4. ASSUME AuthLoaded(l) PROVE LeaseInv'
  <2>1. Leads(l, {"factory"}) /\ UNCHANGED <<held, holder, dead>>
    BY <1>4, GoLeads DEF AuthLoaded, Pcs, lease, backend
  <2> QED BY <2>1, LeaseSame DEF LeasePcs
<1>5. ASSUME Fenced(l) \/ (RenewThrows(l) /\ lane[l].token \in dead) PROVE LeaseInv'
  <2>1. FenceSegment(l) /\ lane[l].pc \in {"renewing", "lost"} /\ MayRun(l)
    BY <1>5 DEF Fenced, RenewThrows, Resumes
  <2> QED BY <2>1, FenceLease
<1>6. CASE AcquireDecided(l) \/ Acquired(l) \/ Released(l)
  BY <1>6, AcquireLease, AcquiredLease, ReleasedLease
<1>7. CASE RenewDecided(l) \/ Renewed(l) \/ (RenewThrows(l) /\ lane[l].token \notin dead)
  BY <1>7, RenewLease
<1> QED BY <1>1, <1>2, <1>3, <1>4, <1>5, <1>6, <1>7 DEF Resume

LEMMA NextLease ==
  ASSUME Serial, "renew" \notin Admits, TypeOK, Safe, LeaseInv, [Next]_vars PROVE LeaseInv'
<1>1. ASSUME NEW l \in EventLane, Event(l) PROVE LeaseInv'
  <2>1. l \in Lane /\ UNCHANGED <<held, holder, dead>>
    BY <1>1 DEF Lane, Event, OnQr, OnOpen, OnClose, OnCreds, lease, backend
  <2> QED BY <1>1, <2>1, EventLeads, LeaseSame DEF LeasePcs
<1>2. ASSUME NEW l \in TimerLane, Fire(l) PROVE LeaseInv'
  <2>1. l \in Lane /\ UNCHANGED <<held, holder, dead>>
    BY <1>2 DEF Lane, Fire, Reconnect, lease, backend
  <2> QED BY <1>2, <2>1, TimerLeads, LeaseSame DEF LeasePcs
<1>3. ASSUME NEW l \in BeatLane, Beat(l) PROVE LeaseInv'
  <2>1. l \in Lane /\ lane[l] = Idle /\ UNCHANGED <<held, holder, dead>>
    BY <1>3 DEF Lane, Beat, Enters, backend
  <2>2. lane' = lane \/ (lane'[l].token = held /\ held # Nobody /\ lane'[l].pc = "renewing")
    BY <1>3, <2>1, LaneFields DEF Beat, At, Idle
  <2>3. \A m \in Lane \ {l} : lane'[m] = lane[m]
    BY <1>3, <2>1, TimerLeads, LeadsWhere
  <2> QED BY <2>1, <2>2, <2>3 DEF LeaseInv, LeaseAt, HeldIsOurs
<1>4. CASE (\E s \in Socket : ClosedUnheard(s)) \/ UNCHANGED vars
  <2>1. UNCHANGED <<held, holder, dead, lane>>
    BY <1>4 DEF ClosedUnheard, vars, lease, backend
  <2> QED BY <2>1 DEF LeaseInv, LeaseAt, HeldIsOurs
<1>5. CASE \E l \in ApiLane : Call(l)
  BY <1>5, CallLease
<1>6. CASE \E l \in Lane : Resume(l)
  BY <1>6, ResumeLease
<1>7. CASE RivalTakes \/ (\E t \in Token : Lapse(t))
  BY <1>7, RivalLease
<1> QED BY <1>1, <1>2, <1>3, <1>4, <1>5, <1>6, <1>7 DEF Next

LEMMA InitLease == Init => LeaseInv
BY RecordFields DEF Init, LeaseInv, LeaseAt, HeldIsOurs

\* Where moreover the provider answers a renew before anything else runs, every
\* socket on the wire, but for those being ended, is under a token we hold that
\* is the provider's, or whose lease ran out unnoticed so far (SocketUnderLease).
THEOREM SocketsUnderLease == ASSUME Serial, "renew" \notin Admits PROVE Spec => []SocketUnderLease
<1>1. Init => LeaseInv
  BY InitLease
<1>2. TypeOK /\ Safe /\ LeaseInv /\ [Next]_vars => LeaseInv'
  BY NextLease
<1>3. TypeOK /\ Safe /\ LeaseInv => SocketUnderLease
  <2> SUFFICES ASSUME TypeOK, Safe, LeaseInv, NEW s \in Up \ Ending
               PROVE  held # Nobody /\ (holder = held \/ held \in dead)
    BY DEF SocketUnderLease
  <2>1. s = sock /\ s # Nobody
    BY NobodyAssumption DEF Safe, NoOrphanSocket, Up
  <2> QED BY <2>1 DEF Safe, Listening, LeaseInv, HeldIsOurs
<1> QED BY <1>1, <1>2, <1>3, AlwaysSafe, PTL DEF Spec

-----------------------------------------------------------------------------
(* Logged out, nothing of the credentials is left                           *)

\* A socket is opened while the machine is connecting, where nothing else runs
\* meanwhile.
OpensConnecting == \A l \in Lane : Opening(l) => state = "connecting"

\* The step of a lane that opens nothing, or does so while connecting.
LEMMA OpensBy ==
  ASSUME "open" \notin Admits, TypeOK, NEW l \in Lane, MayRun(l), NEW pcs, Leads(l, pcs),
         lane'[l].pc \in OpenPcs => state' = "connecting"
  PROVE  OpensConnecting'
<1>1. ASSUME NEW m \in Lane, lane'[m].pc \in OpenPcs PROVE m = l
  <2> SUFFICES ASSUME m # l PROVE FALSE
    OBVIOUS
  <2>1. lane'[m] = lane[m]
    BY LeadsWhere
  <2> QED BY <1>1, <2>1 DEF MayRun, Opening, OpenPcs
<1> QED BY <1>1 DEF OpensConnecting, Opening, OpenPcs

LEMMA ResumeOpens ==
  ASSUME "open" \notin Admits, TypeOK, OpensConnecting, NEW l \in Lane, Resume(l)
  PROVE  OpensConnecting'
<1>0. MayRun(l)
  BY DEF Resume, AcquireDecided, Acquired, AuthLoaded, Opened, OpenFails, Drained, Ended, Released,
         Purged, PurgeFails, Unlinked, UnlinkFails, CredsSaved, RenewDecided, Renewed, Fenced, RenewThrows, Resumes
<1>1. CASE AcquireDecided(l) \/ Acquired(l) \/ AuthLoaded(l)
  <2>1. Opening(l) /\ state' = state
    BY <1>1 DEF AcquireDecided, Acquired, AuthLoaded, Resumes, Opening
  <2>2. ASSUME NEW m \in Lane \ {l} PROVE lane'[m] = lane[m]
    BY <1>1, <2>2 DEF AcquireDecided, Acquired, AuthLoaded, Go, TypeOK
  <2> QED BY <2>1, <2>2 DEF OpensConnecting, Opening
<1>2. ASSUME NEW pcs, Leads(l, pcs), pcs \cap OpenPcs = {}, lane[l].pc \notin OpenPcs
      PROVE  OpensConnecting'
  <2>1. lane'[l].pc \notin OpenPcs
    BY <1>2, LeadsWhere
  <2> QED BY <1>0, <1>2, <2>1, OpensBy
<1>3. CASE Opened(l) \/ OpenFails(l) \/ Purged(l) \/ PurgeFails(l) \/ UnlinkFails(l) \/ CredsSaved(l) \/ Renewed(l)
  <2>1. Done(l)
    BY <1>3 DEF Opened, OpenFails, Purged, PurgeFails, UnlinkFails, CredsSaved, Renewed
  <2>2. lane'[l].pc = "idle"
    BY <2>1, RecordFields DEF Done, TypeOK
  <2> QED BY <1>0, <2>1, <2>2, DoneLeads, OpensBy DEF OpenPcs
<1>4. CASE Drained(l) \/ Unlinked(l) \/ Ended(l)
  <2>1. lane[l].pc \notin OpenPcs
    BY <1>4 DEF Drained, Unlinked, Ended, Resumes, OpenPcs
  <2>2. ReleaseSegment(l) \/ Leads(l, {"ending"}) \/ Done(l)
    BY <1>4, DropLeads DEF Ended
  <2> QED BY <1>2, <2>1, <2>2, ReleaseLeads, DoneLeads DEF OpenPcs
<1>5. CASE Released(l)
  <2>1. AfterRelease(l).pc \in {"idle", "purging"} /\ AfterRelease(l) \in LaneRecord
    BY RecordFields, AtType, IdleType, LaneFields DEF AfterRelease, Pcs
  <2>2. Leads(l, {"idle", "purging"})
    BY <1>5, <2>1 DEF Released, Leads
  <2> QED BY <1>2, <1>5, <2>2 DEF Released, Resumes, OpenPcs
<1>6. CASE RenewDecided(l) \/ Fenced(l) \/ RenewThrows(l)
  <2>1. lane[l].pc \notin OpenPcs
    BY <1>6 DEF RenewDecided, Fenced, RenewThrows, Resumes, OpenPcs
  <2>2. Go(l, "renewed") \/ Go(l, "lost") \/ FenceSegment(l) \/ Done(l)
    BY <1>6 DEF RenewDecided, Fenced, RenewThrows
  <2> QED BY <1>2, <2>1, <2>2, GoLeads, FenceLeads, DoneLeads DEF OpenPcs, Pcs
<1> QED BY <1>1, <1>3, <1>4, <1>5, <1>6 DEF Resume

LEMMA NextOpens ==
  ASSUME "open" \notin Admits, TypeOK, OpensConnecting, [Next]_vars PROVE OpensConnecting'
<1>1. ASSUME NEW l \in ApiLane, Call(l) PROVE OpensConnecting'
  <2>1. l \in Lane /\ MayRun(l) /\ lane[l].pc \notin OpenPcs
    BY <1>1, RecordFields DEF Lane, Call, Calls, Enters, Start, Stop, Remove, Destroy, Logout, Reset, OpenPcs
  <2>2. Start(l) => state' = "connecting"
    BY Machine DEF Start, Startable, TypeOK, Turns
  <2>3. ASSUME ~Start(l) PROVE lane'[l].pc \notin OpenPcs
    <3>1. lane \in [Lane -> LaneRecord]
      BY DEF TypeOK, LaneRecord
    <3>2. CASE Stop(l) \/ Remove(l) \/ Destroy(l)
      <4>1. \E op \in Ops : lane' = [lane EXCEPT ![l] = At(op, "draining")]
        BY <3>2 DEF Stop, Remove, Destroy, StopSegment, Ops
      <4>2. lane'[l].pc = "draining"
        BY <2>1, <3>1, <4>1, RecordFields
      <4> QED BY <4>2 DEF OpenPcs
    <3>3. CASE Logout(l)
      <4>1. lane' = [lane EXCEPT ![l] = [At("logout", "unlinking") EXCEPT !.sock = sock]]
        BY <3>3 DEF Logout
      <4>2. lane'[l].pc = "unlinking"
        BY <2>1, <3>1, <4>1, RecordFields
      <4> QED BY <4>2 DEF OpenPcs
    <3>4. CASE Reset(l)
      BY <2>1, <3>4 DEF Reset
    <3> QED BY <1>1, <2>3, <3>2, <3>3, <3>4 DEF Call
  <2> QED BY <1>1, <2>1, <2>2, <2>3, CallLeads, OpensBy
<1>2. ASSUME NEW l \in EventLane, Event(l) PROVE OpensConnecting'
  <2>1. l \in Lane /\ MayRun(l) /\ lane[l].pc = "idle"
    BY <1>2, RecordFields DEF Lane, Event, Enters, OnQr, OnOpen, OnCreds, OnClose
  <2>2. lane'[l].pc \notin OpenPcs
    BY <1>2, <2>1, EventLeads, LeadsWhere DEF OpenPcs
  <2> QED BY <1>2, <2>1, <2>2, EventLeads, OpensBy
<1>3. ASSUME NEW l \in TimerLane, Fire(l) PROVE OpensConnecting'
  <2>1. l \in Lane /\ MayRun(l) /\ lane[l].pc = "idle"
    BY <1>3, RecordFields DEF Lane, Fire, Reconnect, Enters
  <2>2. lane' = lane \/ state' = "connecting"
    BY <1>3 DEF Fire, Reconnect
  <2> QED BY <1>3, <2>1, <2>2, TimerLeads, OpensBy DEF OpenPcs
<1>4. ASSUME NEW l \in BeatLane, Beat(l) PROVE OpensConnecting'
  <2>1. l \in Lane /\ MayRun(l) /\ lane[l].pc = "idle"
    BY <1>4, RecordFields DEF Lane, Beat, Enters
  <2>2. lane'[l].pc \notin OpenPcs
    BY <1>4, <2>1, TimerLeads, LeadsWhere DEF OpenPcs
  <2> QED BY <1>4, <2>1, <2>2, TimerLeads, OpensBy
<1>5. CASE \/ \E s \in Socket : ClosedUnheard(s)
           \/ RivalTakes \/ (\E t \in Token : Lapse(t)) \/ UNCHANGED vars
  <2>1. UNCHANGED <<state, lane>>
    BY <1>5 DEF ClosedUnheard, RivalTakes, Lapse, vars
  <2> QED BY <2>1 DEF OpensConnecting, Opening
<1> QED BY <1>1, <1>2, <1>3, <1>4, <1>5, ResumeOpens DEF Next

\* While logged out the credentials are gone and no write of them is in flight
\* to bring them back, or a purge is on its way, or the last one threw.
PurgeInv ==
  state = "logged_out" =>
    \/ kept
    \/ ~stored /\ ~auth /\ \A l \in Lane : ~Saving(l)
    \/ Awaits({"purging"})

LEMMA PurgeElsewhere == ASSUME state' # "logged_out" PROVE PurgeInv'
BY DEF PurgeInv

LEMMA PurgeSame ==
  ASSUME TypeOK, PurgeInv, NEW l \in Lane, NEW pcs, Leads(l, pcs), "saving" \notin pcs,
         lane[l].pc # "purging", state' = "logged_out" => state = "logged_out", UNCHANGED creds
  PROVE  PurgeInv'
<1> SUFFICES ASSUME state' = "logged_out" PROVE PurgeInv'
  BY PurgeElsewhere
<1>1. ASSUME NEW m \in Lane, lane[m].pc = "purging" PROVE lane'[m].pc = "purging"
  BY <1>1, LeadsWhere
<1>2. Awaits({"purging"}) => Awaits({"purging"})'
  BY <1>1 DEF Awaits
<1>3. ASSUME NEW m \in Lane, ~Saving(m) PROVE lane'[m].pc # "saving"
  BY <1>3, LeadsWhere DEF Saving
<1> QED BY <1>2, <1>3 DEF PurgeInv, Saving, creds

LEMMA PurgeStarts ==
  ASSUME TypeOK, NEW l \in Lane, NEW r, lane' = [lane EXCEPT ![l] = r], r.pc = "purging"
  PROVE  PurgeInv'
<1>1. lane'[l].pc = "purging"
  BY LaneFields
<1> QED BY <1>1 DEF PurgeInv, Awaits

\* A call settles logged out only where it goes on to purge.
LEMMA PurgeSettles ==
  ASSUME TypeOK, PurgeInv, NEW l \in Lane, lane[l].pc # "purging", UNCHANGED creds,
         ReleaseSegment(l) \/ (lane' = [lane EXCEPT ![l] = AfterRelease(l)] /\ state' = Settled(lane[l].op))
  PROVE  PurgeInv'
<1>1. AfterRelease(l).pc \in {"idle", "purging"} /\ AfterRelease(l) \in LaneRecord
  BY RecordFields, AtType, IdleType, LaneFields DEF AfterRelease, Pcs
<1>2. ASSUME lane' = [lane EXCEPT ![l] = AfterRelease(l)], state' = Settled(lane[l].op) PROVE PurgeInv'
  <2>1. CASE lane[l].op = "logout"
    <3>1. AfterRelease(l).pc = "purging"
      BY <2>1, RecordFields DEF AfterRelease
    <3> QED BY <1>2, <3>1, PurgeStarts
  <2>2. CASE lane[l].op # "logout"
    <3>1. state' = "logged_out" => state = "logged_out"
      BY <1>2, <2>2, Machine DEF Settled, TypeOK, Turns
    <3>2. Leads(l, {"idle", "purging"})
      BY <1>1, <1>2 DEF Leads
    <3> QED BY <3>1, <3>2, PurgeSame
  <2> QED BY <2>1, <2>2
<1>3. ASSUME ReleaseSegment(l), UNCHANGED state PROVE PurgeInv'
  BY <1>3, ReleaseLeads, PurgeSame
<1> QED BY <1>2, <1>3 DEF ReleaseSegment

LEMMA CallPurge ==
  ASSUME TypeOK, PurgeInv, NEW l \in ApiLane, Call(l) PROVE PurgeInv'
<1>1. UNCHANGED creds
  BY DEF Call, Start, Stop, Remove, Destroy, StopSegment, Logout, Reset
<1>2. CASE Start(l) \/ Reset(l)
  <2>1. state' # "logged_out"
    BY <1>2, Machine DEF Start, Startable, Reset, TypeOK, Turns
  <2> QED BY <2>1, PurgeElsewhere
<1>3. CASE Stop(l) \/ Remove(l) \/ Destroy(l) \/ Logout(l)
  <2>1. state' = "logged_out" => state = "logged_out"
    <3>1. CASE Logout(l)
      BY <3>1 DEF Logout
    <3>2. CASE Stop(l) \/ Remove(l) \/ Destroy(l)
      <4>1. state' = state \/ state' = TryApply(state, "stop")
        BY <3>2 DEF Stop, Remove, Destroy, StopSegment
      <4> QED BY <4>1, Machine DEF TypeOK, Turns
    <3> QED BY <1>3, <3>1, <3>2
  <2>2. l \in Lane /\ lane[l].pc # "purging"
    <3>1. Calls(l)
      BY <1>3 DEF Stop, Remove, Destroy, Logout
    <3> QED BY <3>1, RecordFields DEF Lane, Calls, Enters
  <2> QED BY <1>1, <2>1, <2>2, CallLeads, PurgeSame
<1> QED BY <1>2, <1>3 DEF Call

LEMMA EventPurge ==
  ASSUME TypeOK, PurgeInv, NEW l \in EventLane, Event(l) PROVE PurgeInv'
<1>1. PICK s \in Socket : \/ OnQr(l, s) \/ OnOpen(l, s) \/ OnCreds(l, s)
                          \/ \E c \in Cause : OnClose(l, s, c)
  BY DEF Event
<1>2. lane[l].pc = "idle" /\ l \in Lane
  BY <1>1, RecordFields DEF OnQr, OnOpen, OnCreds, OnClose, Enters, Lane
<1>3. CASE OnQr(l, s)
  <2>1. state' = "logged_out" => state = "logged_out"
    <3>1. state' \in {TryApply(state, "qr"), TryApply(TryApply(state, "qr"), "qr_exhausted")}
      BY <1>3 DEF OnQr
    <3>2. state \in SessionStates
      BY DEF TypeOK
    <3>3. \A s0 \in SessionStates : TryApply(s0, "qr") \in {s0, "awaiting_scan"}
      BY Machine DEF Turns
    <3>4. \A s0 \in SessionStates : TryApply(s0, "qr_exhausted") \in {s0, "closed"}
      BY Machine DEF Turns
    <3>5. "awaiting_scan" \in SessionStates
      BY DEF SessionStates
    <3> QED BY <3>1, <3>2, <3>3, <3>4, <3>5
  <2> DEFINE r == [At("event", "ending") EXCEPT !.sock = sock]
  <2>2. r \in LaneRecord /\ r.pc = "ending"
    <3>1. r \in LaneRecord
      BY BuiltLanes DEF Ops, Pcs
    <3> QED BY <3>1, RecordFields
  <2>3. (lane' = lane \/ lane' = [lane EXCEPT ![l] = r]) /\ UNCHANGED creds
    BY <1>3 DEF OnQr
  <2> HIDE DEF r
  <2>4. Leads(l, {"ending"})
    BY <2>2, <2>3 DEF Leads
  <2> QED BY <1>2, <2>1, <2>3, <2>4, PurgeSame
<1>4. CASE OnOpen(l, s)
  <2>1. state' = "logged_out" => state = "logged_out"
    BY <1>4, Machine DEF OnOpen, TypeOK, Turns
  <2>2. Leads(l, {}) /\ UNCHANGED creds
    BY <1>4 DEF OnOpen, Leads
  <2> QED BY <1>2, <2>1, <2>2, PurgeSame
<1>5. CASE OnCreds(l, s)
  <2> SUFFICES ASSUME state = "logged_out", ~kept PROVE Awaits({"purging"})'
    BY <1>5 DEF OnCreds, PurgeInv, creds
  <2>1. PICK m \in Lane : lane[m].pc = "purging"
    BY <1>5 DEF OnCreds, PurgeInv, Awaits
  <2>2. lane'[m] = lane[m]
    BY <1>2, <1>5, <2>1 DEF OnCreds, TypeOK
  <2> QED BY <2>1, <2>2 DEF Awaits
<1>6. ASSUME NEW c \in Cause, OnClose(l, s, c) PROVE PurgeInv'
  <2>1. CASE c \in PurgesCreds
    <3>1. lane' = [lane EXCEPT ![l] = At("event", "purging")]
      BY <1>6, <2>1 DEF OnClose
    <3>2. At("event", "purging").pc = "purging"
      BY RecordFields
    <3> QED BY <1>2, <3>1, <3>2, PurgeStarts
  <2>2. CASE c \notin PurgesCreds
    <3>1. state' = "logged_out" => state = "logged_out"
      BY <1>6, <2>2, Machine DEF OnClose, DisconnectTrigger, TypeOK, Turns
    <3>2. Leads(l, {}) /\ UNCHANGED creds
      BY <1>6, <2>2 DEF OnClose, Leads
    <3> QED BY <1>2, <3>1, <3>2, PurgeSame
  <2> QED BY <2>1, <2>2
<1> QED BY <1>1, <1>3, <1>4, <1>5, <1>6

LEMMA ResumePurge ==
  ASSUME {"open", "save"} \cap Admits = {}, TypeOK, OpensConnecting, PurgeInv, NEW l \in Lane, Resume(l)
  PROVE  PurgeInv'
<1>1. ASSUME Drained(l) \/ Unlinked(l) PROVE PurgeInv'
  <2>1. lane[l].pc # "purging" /\ UNCHANGED creds
    BY <1>1 DEF Drained, Unlinked, Resumes
  <2>2. CASE ReleaseSegment(l)
    BY <2>1, <2>2, PurgeSettles
  <2>3. CASE Leads(l, {"ending"}) /\ UNCHANGED state
    BY <2>1, <2>3, PurgeSame
  <2> QED BY <1>1, <2>2, <2>3, DropLeads
<1>2. ASSUME Ended(l) PROVE PurgeInv'
  <2>1. lane[l].pc # "purging" /\ UNCHANGED creds
    BY <1>2 DEF Ended, Resumes
  <2>2. CASE ReleaseSegment(l)
    BY <2>1, <2>2, PurgeSettles
  <2>3. CASE Done(l) /\ UNCHANGED state
    BY <2>1, <2>3, DoneLeads, PurgeSame
  <2> QED BY <1>2, <2>2, <2>3 DEF Ended
<1>3. ASSUME Released(l) PROVE PurgeInv'
  <2>1. /\ lane[l].pc # "purging" /\ UNCHANGED creds
        /\ lane' = [lane EXCEPT ![l] = AfterRelease(l)] /\ state' = Settled(lane[l].op)
    BY <1>3 DEF Released, Resumes
  <2> QED BY <2>1, PurgeSettles
<1>4. ASSUME Purged(l) PROVE PurgeInv'
  <2>1. /\ lane' = [lane EXCEPT ![l] = Idle] /\ stored' = FALSE /\ auth' = FALSE
        /\ \A m \in Lane \ {l} : ~Saving(m)
    BY <1>4 DEF Purged, Done, Resumes, MayRun
  <2>2. \A m \in Lane : lane'[m].pc # "saving"
    BY <2>1, RecordFields DEF Saving, TypeOK
  <2> QED BY <2>1, <2>2 DEF PurgeInv, Saving
<1>5. ASSUME AcquireDecided(l) \/ Acquired(l) \/ AuthLoaded(l) \/ Opened(l) \/ OpenFails(l) PROVE PurgeInv'
  <2>1. state = "connecting"
    BY <1>5 DEF AcquireDecided, Acquired, AuthLoaded, Opened, OpenFails, Resumes, OpensConnecting, Opening
  <2>2. state' \in {state, TryApply(state, "disconnected")}
    BY <1>5 DEF AcquireDecided, Acquired, AuthLoaded, Opened, OpenFails
  <2>3. state' # "logged_out"
    BY <2>1, <2>2, Machine DEF Turns, Moving, SessionStates
  <2> QED BY <2>3, PurgeElsewhere
<1>6. ASSUME CredsSaved(l) PROVE PurgeInv'
  <2> SUFFICES ASSUME state = "logged_out", ~kept PROVE Awaits({"purging"})'
    BY <1>6 DEF CredsSaved, PurgeInv
  <2>1. PICK m \in Lane : lane[m].pc = "purging" /\ m # l
    BY <1>6 DEF CredsSaved, Resumes, Saving, PurgeInv, Awaits
  <2>2. lane'[m] = lane[m]
    BY <1>6, <2>1 DEF CredsSaved, Done, TypeOK
  <2> QED BY <2>1, <2>2 DEF Awaits
<1>7. ASSUME UnlinkFails(l) \/ Renewed(l) \/ RenewDecided(l) \/ (RenewThrows(l) /\ lane[l].token \notin dead)
      PROVE  PurgeInv'
  <2>1. lane[l].pc # "purging" /\ UNCHANGED <<state, creds>>
    BY <1>7 DEF UnlinkFails, Renewed, RenewDecided, RenewThrows, Resumes
  <2>2. CASE Done(l)
    BY <2>1, <2>2, DoneLeads, PurgeSame
  <2>3. ASSUME NEW pc \in {"renewed", "lost"}, Go(l, pc) PROVE PurgeInv'
    BY <2>1, <2>3, GoLeads, PurgeSame DEF Pcs
  <2> QED BY <1>7, <2>2, <2>3 DEF UnlinkFails, Renewed, RenewDecided, RenewThrows
<1>8. ASSUME Fenced(l) \/ (RenewThrows(l) /\ lane[l].token \in dead) PROVE PurgeInv'
  <2>1. FenceSegment(l) /\ lane[l].pc # "purging" /\ UNCHANGED creds
    BY <1>8 DEF Fenced, RenewThrows, Resumes, FenceSegment
  <2>2. state' = "logged_out" => state = "logged_out"
    BY <2>1, Machine DEF FenceSegment, TypeOK, Turns
  <2> QED BY <2>1, <2>2, FenceLeads, PurgeSame
<1>9. ASSUME PurgeFails(l) PROVE PurgeInv'
  BY <1>9 DEF PurgeFails, PurgeInv
<1> QED BY <1>1, <1>2, <1>3, <1>4, <1>5, <1>6, <1>7, <1>8, <1>9 DEF Resume

LEMMA NextPurge ==
  ASSUME {"open", "save"} \cap Admits = {}, TypeOK, OpensConnecting, PurgeInv, [Next]_vars PROVE PurgeInv'
<1>1. ASSUME NEW l \in TimerLane, Fire(l) PROVE PurgeInv'
  <2>1. l \in Lane /\ lane[l].pc # "purging" /\ UNCHANGED creds
    BY <1>1, RecordFields DEF Lane, Fire, Reconnect, Enters
  <2>2. state' = "logged_out" => state = "logged_out"
    BY <1>1, Machine DEF Fire, Reconnect, TypeOK, Turns
  <2> QED BY <1>1, <2>1, <2>2, TimerLeads, PurgeSame
<1>2. ASSUME NEW l \in BeatLane, Beat(l) PROVE PurgeInv'
  <2>1. l \in Lane /\ lane[l].pc # "purging" /\ UNCHANGED <<state, creds>>
    BY <1>2, RecordFields DEF Lane, Beat, Enters
  <2> QED BY <1>2, <2>1, TimerLeads, PurgeSame
<1>3. CASE \/ \E s \in Socket : ClosedUnheard(s)
           \/ RivalTakes \/ (\E t \in Token : Lapse(t)) \/ UNCHANGED vars
  <2>1. UNCHANGED <<state, stored, auth, kept, lane>>
    BY <1>3 DEF ClosedUnheard, RivalTakes, Lapse, vars, creds
  <2> QED BY <2>1 DEF PurgeInv, Awaits, Saving
<1> QED BY <1>1, <1>2, <1>3, CallPurge, EventPurge, ResumePurge DEF Next

\* Where nothing runs while a socket is opened or a credential is written, a
\* session logged out and at rest has nothing left of its credentials, in storage
\* or in memory, whatever calls, timers, renews and ends of sockets overlap and
\* whichever earlier purges threw: unless its last purge did (PurgeIsFinal).
THEOREM PurgedForGood ==
  ASSUME {"open", "save"} \cap Admits = {}
  PROVE  Spec => []PurgeIsFinal
<1>1. Init => OpensConnecting /\ PurgeInv
  BY RecordFields DEF Init, OpensConnecting, Opening, PurgeInv
<1>2. TypeOK /\ OpensConnecting /\ PurgeInv /\ [Next]_vars => OpensConnecting' /\ PurgeInv'
  BY NextOpens, NextPurge
<1>3. PurgeInv => PurgeIsFinal
  BY RecordFields DEF PurgeInv, PurgeIsFinal, Awaits
<1> QED BY <1>1, <1>2, <1>3, TypeCorrect, PTL DEF Spec

-----------------------------------------------------------------------------
(* A session on the move can move                                           *)

\* What may still move a session that is coming up or open: our socket, live and
\* listened to; an open or a reconnect on its way; a logout that has not come
\* back.  Only a logout the phone refused leaves none of them.
Moves ==
  state \in Moving =>
    \/ sock \in Up \cap attached
    \/ OpeningNow \/ timers # {}
    \/ \E l \in ApiLane : lane[l].op = "logout"
    \/ state = "open" /\ Deaf

\* No socket being ended is listened to.
Unheard == attached \cap Ending = {}

LEMMA Settles == ASSUME state' \notin Moving PROVE Moves'
BY DEF Moves

LEMMA Opens == ASSUME NEW l \in Lane, Opening(l)' PROVE Moves'
BY DEF Moves, OpeningNow

LEMMA LogsOut == ASSUME NEW l \in ApiLane, lane'[l].op = "logout" PROVE Moves'
BY DEF Moves

\* A step of a lane that is neither opening nor logging out.
LEMMA MovesOn ==
  ASSUME TypeOK, Moves, NEW l \in Lane, NEW pcs, Leads(l, pcs), lane[l].pc \notin OpenPcs,
         l \in ApiLane => lane[l].op # "logout",
         UNCHANGED <<state, sock, detach, attached, timers>>,
         sock \in Up \cap attached => sock \in Up'
  PROVE  Moves'
<1> SUFFICES ASSUME state \in Moving PROVE Moves'
  BY Settles
<1>1. CASE sock \in Up \cap attached \/ timers # {} \/ (state = "open" /\ Deaf)
  BY <1>1 DEF Moves, Deaf
<1>2. CASE OpeningNow
  <2>1. PICK k \in Lane : Opening(k)
    BY <1>2 DEF OpeningNow
  <2>2. lane'[k] = lane[k]
    BY <2>1, LeadsWhere DEF Opening, OpenPcs
  <2> QED BY <2>1, <2>2, Opens DEF Opening
<1>3. CASE \E k \in ApiLane : lane[k].op = "logout"
  <2>1. PICK k \in ApiLane : lane[k].op = "logout" /\ k \in Lane
    BY <1>3 DEF Lane
  <2>2. lane'[k] = lane[k]
    BY <2>1, LeadsWhere
  <2> QED BY <2>1, <2>2, LogsOut
<1> QED BY <1>1, <1>2, <1>3 DEF Moves

LEMMA CallMoves ==
  ASSUME Serial, TypeOK, Safe, Moves, NEW l \in ApiLane, Call(l) PROVE Moves'
<1>1. l \in Lane
  BY DEF Lane
<1>2. CASE Start(l)
  <2>1. PICK pc \in {"acquiring", "loading"} : lane' = [lane EXCEPT ![l] = At("start", pc)]
    BY <1>2 DEF Start
  <2>2. lane'[l].pc \in {"acquiring", "loading"}
    BY <1>1, <2>1, LaneFields, RecordFields
  <2> QED BY <1>1, <2>2, Opens DEF Opening
<1>3. CASE Stop(l) \/ Remove(l) \/ Destroy(l)
  <2>1. state' \notin Moving
    BY <1>3, Machine DEF Stop, Remove, Destroy, StopSegment, TypeOK, Turns, Moving
  <2> QED BY <2>1, Settles
<1>4. CASE Logout(l)
  <2> DEFINE c == [At("logout", "unlinking") EXCEPT !.sock = sock]
  <2>1. lane' = [lane EXCEPT ![l] = c]
    BY <1>4 DEF Logout
  <2>2. c.op = "logout"
    BY RecordFields
  <2> HIDE DEF c
  <2>3. lane'[l].op = "logout"
    BY <1>1, <2>1, <2>2, LaneFields
  <2> QED BY <2>3, LogsOut
<1>5. CASE Reset(l)
  <2>1. state' \notin Moving
    BY <1>5, Machine DEF Reset, TypeOK, Turns, Moving
  <2> QED BY <2>1, Settles
<1> QED BY <1>2, <1>3, <1>4, <1>5 DEF Call

\* With reconnects enabled, a close that leaves the session connecting planned one.
LEMMA EventMoves ==
  ASSUME Serial, ReconnectEnabled, TypeOK, Safe, NEW l \in EventLane, Event(l) PROVE Moves'
<1>1. PICK s \in Socket : \/ OnQr(l, s) \/ OnOpen(l, s) \/ OnCreds(l, s)
                          \/ \E c \in Cause : OnClose(l, s, c)
  BY DEF Event
<1>2. s \in attached /\ Enters(l) /\ s \in Up
  BY <1>1 DEF OnQr, OnOpen, OnCreds, OnClose, Up
<1>3. /\ sock = s /\ attached = {s} /\ timers = {} /\ Listening
      /\ state \in Moving \cup {"closing"} /\ (suppress <=> state = "closing")
  BY <1>2, HeardFacts
<1>4. ASSUME sock' = sock, attached' = attached, wire' = wire \/ wire' = [wire EXCEPT ![s] = "open"]
      PROVE  Moves'
  <2>1. s \in Up'
    BY <1>2, <1>4 DEF Up, TypeOK
  <2> QED BY <1>3, <1>4, <2>1 DEF Moves
<1>5. CASE OnQr(l, s)
  <2>1. CASE qrAttempt' > QrMax
    <3>1. state # "open"
      BY <1>3, <1>5, NobodyAssumption DEF OnQr, Listening
    <3>2. state' \notin Moving
      BY <1>3, <1>5, <2>1, <3>1, Machine DEF OnQr, Turns, Moving, SessionStates
    <3> QED BY <3>2, Settles
  <2>2. CASE ~(qrAttempt' > QrMax)
    BY <1>4, <1>5, <2>2 DEF OnQr, listening
  <2> QED BY <2>1, <2>2
<1>6. CASE OnOpen(l, s) \/ OnCreds(l, s)
  BY <1>4, <1>6 DEF OnOpen, OnCreds, listening
<1>7. ASSUME NEW c \in Cause, OnClose(l, s, c) PROVE Moves'
  <2>1. state' = TryApply(state, DisconnectTrigger(c, state))
    BY <1>7 DEF OnClose
  <2>2. CASE state = "closing" \/ c \in PurgesCreds \/ c \notin ImmediateCauses
    <3>1. state' \notin Moving
      BY <1>3, <2>1, <2>2, CloseMoves DEF Moving
    <3> QED BY <3>1, Settles
  <2>3. CASE state # "closing" /\ c \notin PurgesCreds /\ c \in ImmediateCauses
    <3>1. ~suppress /\ Retries(c, ReconnectEnabled, attempt, MaxAttempts)
      BY <1>3, <2>3 DEF Retries, ImmediateCauses, TerminalCauses
    <3>2. timers' # {}
      BY <1>7, <2>3, <3>1 DEF OnClose, PlanReconnect
    <3> QED BY <3>2 DEF Moves
  <2> QED BY <2>2, <2>3
<1> QED BY <1>1, <1>5, <1>6, <1>7

\* A call that has taken the socket away settles, or is a logout that goes on.
LEMMA ReleaseMoves ==
  ASSUME Serial, TypeOK, Safe, NEW l \in ApiLane, NEW pc \in ClosePcs, Resumes(l, pc),
         ReleaseSegment(l) \/ (lane' = [lane EXCEPT ![l] = AfterRelease(l)] /\ state' = Settled(lane[l].op))
  PROVE  Moves'
<1>1. CloseAt(lane[l]) /\ lane[l].pc = pc /\ lane[l].op \in {"stop", "remove", "destroy", "logout"} /\ l \in Lane
  BY ClosingFacts
<1>2. /\ lane[l].op = "logout" => state \in {"open", "closed", "logged_out"}
      /\ lane[l].op # "logout" => state \notin Moving
  BY <1>1 DEF CloseAt
<1>3. CASE state' = Settled(lane[l].op)
  <2>1. state' \in {"idle", "closed", "logged_out"}
    BY <1>1, <1>2, <1>3, SettledFacts DEF TypeOK
  <2> QED BY <2>1, Settles DEF Moving
<1>4. CASE state' # Settled(lane[l].op)
  <2> DEFINE c == [At(lane[l].op, "releasing") EXCEPT !.token = held]
  <2>1. lane' = [lane EXCEPT ![l] = c] /\ state' = state
    BY <1>4 DEF ReleaseSegment
  <2>2. c.op = lane[l].op
    BY RecordFields
  <2> HIDE DEF c
  <2>3. lane'[l].op = lane[l].op
    BY <1>1, <2>1, <2>2, LaneFields
  <2>4. CASE lane[l].op = "logout"
    BY <2>3, <2>4, LogsOut
  <2>5. CASE lane[l].op # "logout"
    BY <1>2, <2>1, <2>5, Settles
  <2> QED BY <2>4, <2>5
<1> QED BY <1>3, <1>4

LEMMA DropMoves ==
  ASSUME Serial, TypeOK, Safe, NEW l \in Lane, Drained(l) \/ Unlinked(l) PROVE Moves'
<1>1. PICK pc \in {"draining", "unlinking"} : Resumes(l, pc) /\ pc \in ClosePcs
  BY DEF Drained, Unlinked, ClosePcs
<1>2. l \in ApiLane /\ l \in Lane
  BY <1>1 DEF Safe, LanesOK, KindOK, Lane, Resumes
<1>3. CloseAt(lane[l])
  BY <1>1, <1>2, ClosingFacts
<1>4. CASE ReleaseSegment(l)
  BY <1>1, <1>2, <1>4, ReleaseMoves
<1>5. CASE sock # Nobody /\ ~ReleaseSegment(l)
  <2>1. UNCHANGED state
    BY <1>5, DropLeads
  <2>2. CASE lane[l].op # "logout"
    <3>1. state \notin Moving
      BY <1>1, <1>3, <2>2 DEF CloseAt, Resumes
    <3> QED BY <2>1, <3>1, Settles
  <2>3. CASE lane[l].op = "logout"
    <3> DEFINE c == [lane[l] EXCEPT !.pc = "ending", !.sock = sock]
    <3>1. lane' = [lane EXCEPT ![l].pc = "ending", ![l].sock = sock]
      BY <1>5 DEF Drained, Unlinked, NothingToEnd
    <3>2. lane' = [lane EXCEPT ![l] = c]
      BY <3>1
    <3>3. c.op = lane[l].op
      BY LaneFields
    <3> HIDE DEF c
    <3>4. lane'[l].op = "logout"
      BY <2>3, <3>2, <3>3, LaneFields
    <3> QED BY <1>2, <3>4, LogsOut
  <2> QED BY <2>2, <2>3
<1> QED BY <1>4, <1>5, DropLeads

LEMMA ResumeMoves ==
  ASSUME Serial, TypeOK, Safe, Moves, Unheard, NEW l \in Lane, Resume(l) PROVE Moves'
<1>1. ASSUME Ended(l) PROVE Moves'
  <2>1. Resumes(l, "ending") /\ lane[l].pc = "ending" /\ "ending" \in ClosePcs
    BY <1>1 DEF Ended, Resumes, ClosePcs
  <2>2. CASE l \in ApiLane
    BY <1>1, <2>1, <2>2, ReleaseMoves DEF Ended
  <2>3. CASE l \notin ApiLane
    <3>1. Done(l) /\ UNCHANGED <<state, sock, detach, attached, timers>>
      BY <1>1, <2>3 DEF Ended, listening, clocks
    <3>2. lane[l].sock \in Ending
      BY <2>1 DEF Ending
    <3>3. sock \in Up \cap attached => sock \in Up'
      BY <1>1, <3>2 DEF Unheard, Ended, Up, TypeOK
    <3>4. lane[l].pc \notin OpenPcs
      BY <2>1 DEF OpenPcs
    <3> QED BY <2>3, <3>1, <3>3, <3>4, DoneLeads, MovesOn
  <2> QED BY <2>2, <2>3
<1>2. ASSUME Released(l) PROVE Moves'
  <2>1. Resumes(l, "releasing") /\ "releasing" \in ClosePcs /\ l \in ApiLane
    BY <1>2 DEF Released, Resumes, ClosePcs, Safe, LanesOK, KindOK, Lane
  <2> QED BY <1>2, <2>1, ReleaseMoves DEF Released
<1>3. ASSUME AcquireDecided(l) PROVE Moves'
  <2>1. lane'[l].pc \in {"refused", "acquired"} \/ lane'[l] = lane[l]
    BY <1>3, AcquireLeads, LeadsWhere, LaneFields
  <2>2. lane[l].pc = "acquiring"
    BY <1>3 DEF AcquireDecided, Resumes
  <2> QED BY <2>1, <2>2, Opens DEF Opening
<1>4. ASSUME Acquired(l) \/ AuthLoaded(l) PROVE Moves'
  <2>1. Acquired(l) => lane'[l].pc = "loading"
    BY LaneFields, RecordFields DEF Acquired
  <2>2. AuthLoaded(l) => lane'[l].pc = "factory"
    BY LaneFields DEF AuthLoaded, Go
  <2> QED BY <1>4, <2>1, <2>2, Opens DEF Opening
<1>5. ASSUME Opened(l) PROVE Moves'
  <2>1. PICK s \in Socket : wire' = [wire EXCEPT ![s] = "up"] /\ sock' = s /\ attached' = attached \cup {s}
    BY <1>5 DEF Opened
  <2>2. sock' \in Up' \cap attached'
    BY <2>1 DEF Up, TypeOK
  <2> QED BY <2>2 DEF Moves
<1>6. ASSUME OpenFails(l) PROVE Moves'
  <2>1. state' \notin Moving
    BY <1>6, Machine DEF OpenFails, TypeOK, Turns, Moving
  <2> QED BY <2>1, Settles
<1>7. ASSUME Purged(l) \/ PurgeFails(l) PROVE Moves'
  <2>1. /\ lane[l].pc = "purging" /\ Done(l) /\ UNCHANGED <<state, sock, detach, attached, timers, wire>>
        /\ Resumes(l, "purging") /\ "purging" \in ClosePcs
    BY <1>7 DEF Purged, PurgeFails, Resumes, listening, clocks, ClosePcs
  <2>2. CASE l \in ApiLane
    <3>1. state \notin Moving
      BY <2>1, <2>2, ClosingFacts DEF CloseAt
    <3> QED BY <2>1, <3>1, Settles
  <2>3. CASE l \notin ApiLane
    <3>1. lane[l].pc \notin OpenPcs /\ Up' = Up
      BY <2>1, SameWire DEF OpenPcs
    <3> QED BY <2>1, <2>3, <3>1, DoneLeads, MovesOn
  <2> QED BY <2>2, <2>3
<1>8. ASSUME UnlinkFails(l) PROVE Moves'
  <2>1. /\ lane[l].pc = "unlinking" /\ UNCHANGED <<state, sock, detach>>
        /\ Resumes(l, "unlinking") /\ "unlinking" \in ClosePcs
    BY <1>8 DEF UnlinkFails, Resumes, listening, ClosePcs
  <2>2. l \in ApiLane
    BY <2>1 DEF Safe, LanesOK, KindOK, Lane
  <2>3. state \in {"open", "closed", "logged_out"} /\ (state = "open" => Deaf)
    BY <2>1, <2>2, ClosingFacts DEF CloseAt, Deaf
  <2> QED BY <2>1, <2>3 DEF Moves, Moving, Deaf
<1>9. ASSUME CredsSaved(l) \/ Renewed(l) \/ RenewDecided(l) \/ (RenewThrows(l) /\ lane[l].token \notin dead)
      PROVE  Moves'
  <2>1. /\ lane[l].pc \in {"saving", "renewing", "renewed"}
        /\ UNCHANGED <<state, sock, detach, attached, timers, wire>>
    BY <1>9 DEF CredsSaved, Renewed, RenewDecided, RenewThrows, Resumes, listening, clocks
  <2>2. l \notin ApiLane /\ lane[l].pc \notin OpenPcs
    BY <2>1 DEF Safe, LanesOK, KindOK, OpenPcs, ClosePcs
  <2>3. Up' = Up
    BY <2>1, SameWire
  <2>4. CASE Done(l)
    BY <2>1, <2>2, <2>3, <2>4, DoneLeads, MovesOn
  <2>5. ASSUME NEW pc \in {"renewed", "lost"}, Go(l, pc) PROVE Moves'
    BY <2>1, <2>2, <2>3, <2>5, GoLeads, MovesOn DEF Pcs
  <2> QED BY <1>9, <2>4, <2>5 DEF CredsSaved, Renewed, RenewDecided, RenewThrows
<1>10. ASSUME Fenced(l) \/ (RenewThrows(l) /\ lane[l].token \in dead) PROVE Moves'
  <2>1. FenceSegment(l)
    BY <1>10 DEF Fenced, RenewThrows
  <2>2. state' \notin Moving
    BY <2>1, Machine DEF FenceSegment, TypeOK, Turns, Moving
  <2> QED BY <2>2, Settles
<1> QED BY <1>1, <1>2, <1>3, <1>4, <1>5, <1>6, <1>7, <1>8, <1>9, <1>10, DropMoves DEF Resume

LEMMA NextMoves ==
  ASSUME Serial, ReconnectEnabled, TypeOK, Safe, Moves, Unheard, [Next]_vars PROVE Moves'
<1>1. ASSUME NEW l \in TimerLane, NEW t \in Timer, Reconnect(l, t) PROVE Moves'
  <2>1. ~suppress /\ ~destroyed /\ state \in {"connecting", "closed"}
    BY <1>1 DEF Reconnect, Safe, TimerOK
  <2>2. IF state = "closed" THEN TryApply(state, "reconnect") = "connecting" ELSE state = "connecting"
    BY <2>1, Machine DEF Turns, SessionStates
  <2>3. lane' = [lane EXCEPT ![l] = At("reconnect", "loading")] /\ l \in Lane
    BY <1>1, <2>1, <2>2 DEF Reconnect, Lane
  <2>4. lane'[l].pc = "loading"
    BY <2>3, LaneFields, RecordFields
  <2> QED BY <2>3, <2>4, Opens DEF Opening
<1>2. ASSUME NEW l \in BeatLane, Beat(l) PROVE Moves'
  <2>1. /\ l \in Lane /\ l \notin ApiLane /\ lane[l].pc \notin OpenPcs
        /\ UNCHANGED <<state, sock, detach, attached, timers, wire>>
    BY <1>2, LaneAssumption, RecordFields DEF Lane, Beat, Enters, OpenPcs, listening, clocks
  <2>2. Up' = Up
    BY <2>1, SameWire
  <2> QED BY <1>2, <2>1, <2>2, TimerLeads, MovesOn
<1>3. CASE \/ \E s \in Socket : ClosedUnheard(s)
           \/ RivalTakes \/ (\E t \in Token : Lapse(t)) \/ UNCHANGED vars
  <2>1. /\ UNCHANGED <<state, sock, detach, attached, timers, lane>>
        /\ sock \in Up \cap attached => sock \in Up'
    BY <1>3 DEF ClosedUnheard, RivalTakes, Lapse, vars, listening, clocks, Up, TypeOK
  <2> QED BY <2>1 DEF Moves, OpeningNow, Opening, Deaf
<1>4. CASE \E l \in ApiLane : Call(l)
  BY <1>4, CallMoves
<1>5. CASE \E l \in EventLane : Event(l)
  BY <1>5, EventMoves
<1>6. CASE \E l \in Lane : Resume(l)
  BY <1>6, ResumeMoves
<1> QED BY <1>1, <1>2, <1>3, <1>4, <1>5, <1>6 DEF Next, Fire

LEMMA Unheeded == ASSUME attached' = {} PROVE Unheard'
BY DEF Unheard

LEMMA UnheardKept ==
  ASSUME TypeOK, Unheard, NEW l \in Lane, NEW pcs, Leads(l, pcs), "ending" \notin pcs,
         attached' \subseteq attached
  PROVE  Unheard'
<1>1. \A m \in Lane : lane'[m].pc = "ending" => lane'[m] = lane[m]
  BY LeadsWhere
<1>2. Ending' \subseteq Ending
  BY <1>1 DEF Ending
<1> QED BY <1>2 DEF Unheard

LEMMA ResumeUnheard ==
  ASSUME TypeOK, Safe, Unheard, NEW l \in Lane, Resume(l) PROVE Unheard'
<1>0. attached \ {detach} = {}
  BY DEF Safe, Listening
<1>1. CASE Drained(l) \/ Unlinked(l)
  BY <1>0, <1>1, Unheeded DEF Drained, Unlinked, DropSocket
<1>2. ASSUME FenceSegment(l) PROVE Unheard'
  BY <1>0, <1>2, Unheeded DEF FenceSegment, DropSocket
<1>3. ASSUME Opened(l) PROVE Unheard'
  <2>1. PICK s \in Socket : Fresh(s) /\ attached' = attached \cup {s}
    BY <1>3 DEF Opened
  <2>2. \A m \in Lane : lane'[m].pc = "ending" => lane'[m] = lane[m]
    BY <1>3, LaneFields, RecordFields DEF Opened, Done
  <2>3. Ending' \subseteq Ending /\ s \notin Ending
    BY <2>1, <2>2 DEF Ending, Fresh
  <2> QED BY <2>1, <2>3 DEF Unheard
<1>4. ASSUME Done(l), attached' = attached PROVE Unheard'
  BY <1>4, DoneLeads, UnheardKept
<1>5. ASSUME NEW pc \in {"refused", "factory", "renewed", "lost"}, Go(l, pc), attached' = attached PROVE Unheard'
  BY <1>5, GoLeads, UnheardKept DEF Pcs
<1>6. CASE AcquireDecided(l)
  <2>1. Leads(l, {"refused", "acquired"})
    BY <1>6, AcquireLeads DEF Leads
  <2> QED BY <1>6, <2>1, UnheardKept DEF AcquireDecided, listening
<1>7. CASE Acquired(l)
  <2>1. At("start", "loading").pc = "loading" /\ At("start", "loading") \in LaneRecord
    BY AtType, RecordFields DEF Ops, Pcs
  <2>2. Leads(l, {"loading"})
    BY <1>7, <2>1 DEF Acquired, Leads
  <2> QED BY <1>7, <2>2, UnheardKept DEF Acquired, listening
<1>8. CASE Ended(l)
  <2>1. ReleaseSegment(l) \/ Done(l)
    BY <1>8 DEF Ended
  <2>2. attached' = attached
    BY <1>8 DEF Ended, listening
  <2> QED BY <1>4, <2>1, <2>2, ReleaseLeads, UnheardKept
<1>9. CASE Released(l)
  <2>1. AfterRelease(l).pc \in {"idle", "purging"} /\ AfterRelease(l) \in LaneRecord
    BY RecordFields, AtType, IdleType, LaneFields DEF AfterRelease, Pcs
  <2>2. Leads(l, {"idle", "purging"})
    BY <1>9, <2>1 DEF Released, Leads
  <2> QED BY <1>9, <2>2, UnheardKept DEF Released, listening
<1>10. CASE OpenFails(l) \/ Purged(l) \/ PurgeFails(l) \/ UnlinkFails(l) \/ CredsSaved(l) \/ Renewed(l) \/ RenewThrows(l)
  BY <1>2, <1>4, <1>10 DEF OpenFails, Purged, PurgeFails, UnlinkFails, CredsSaved, Renewed, RenewThrows, listening
<1>11. CASE AuthLoaded(l) \/ RenewDecided(l)
  BY <1>5, <1>11 DEF AuthLoaded, RenewDecided, listening
<1> QED BY <1>1, <1>2, <1>3, <1>6, <1>7, <1>8, <1>9, <1>10, <1>11 DEF Resume, Fenced

LEMMA NextUnheard ==
  ASSUME Serial, TypeOK, Safe, Unheard, [Next]_vars PROVE Unheard'
<1>1. ASSUME NEW l \in ApiLane, Call(l) PROVE Unheard'
  <2>1. l \in Lane /\ attached' \subseteq attached
    BY <1>1 DEF Lane, Call, Start, Stop, Remove, Destroy, StopSegment, Logout, Reset, listening
  <2> QED BY <1>1, <2>1, CallLeads, UnheardKept
<1>2. ASSUME NEW l \in EventLane, Event(l) PROVE Unheard'
  <2>1. PICK s \in Socket : \/ OnQr(l, s) \/ OnOpen(l, s) \/ OnCreds(l, s)
                            \/ \E c \in Cause : OnClose(l, s, c)
    BY <1>2 DEF Event
  <2>2. s \in attached /\ Enters(l) /\ l \in Lane
    BY <2>1 DEF OnQr, OnOpen, OnCreds, OnClose, Lane
  <2>3. detach = s /\ attached = {s}
    BY <2>2, HeardFacts
  <2>4. CASE attached' = {}
    BY <2>4, Unheeded
  <2>5. CASE lane' = lane /\ attached' = attached
    BY <2>5 DEF Unheard, Ending
  <2>6. CASE OnCreds(l, s)
    <3>1. At("event", "saving").pc = "saving" /\ At("event", "saving") \in LaneRecord
      BY AtType, RecordFields DEF Ops, Pcs
    <3>2. Leads(l, {"saving"})
      BY <2>6, <3>1 DEF OnCreds, Leads
    <3> QED BY <2>2, <2>6, <3>2, UnheardKept DEF OnCreds, listening
  <2>7. OnQr(l, s) => attached' = {} \/ (lane' = lane /\ attached' = attached)
    BY <2>3 DEF OnQr, DropSocket, listening
  <2>8. OnOpen(l, s) => lane' = lane /\ attached' = attached
    BY DEF OnOpen, listening
  <2>9. \A c \in Cause : OnClose(l, s, c) => attached' = {}
    BY <2>3 DEF OnClose
  <2> QED BY <2>1, <2>4, <2>5, <2>6, <2>7, <2>8, <2>9
<1>3. ASSUME NEW l \in TimerLane \cup BeatLane, Fire(l) \/ Beat(l) PROVE Unheard'
  <2>1. l \in Lane /\ attached' = attached
    BY <1>3 DEF Lane, Fire, Reconnect, Beat, listening
  <2> QED BY <1>3, <2>1, TimerLeads, UnheardKept
<1>4. CASE \/ \E s \in Socket : ClosedUnheard(s)
           \/ RivalTakes \/ (\E t \in Token : Lapse(t)) \/ UNCHANGED vars
  <2>1. UNCHANGED <<attached, lane>>
    BY <1>4 DEF ClosedUnheard, RivalTakes, Lapse, vars, listening
  <2> QED BY <2>1 DEF Unheard, Ending
<1> QED BY <1>1, <1>2, <1>3, <1>4, ResumeUnheard DEF Next

\* With reconnects enabled, a session said to be coming up or open can still
\* move, but for one whose logout the phone refused (NotStranded): every way the
\* socket is lost leaves a settled state, an open, a reconnect or a logout.
THEOREM NobodyStranded == ASSUME Serial, ReconnectEnabled PROVE Spec => []NotStranded
<1>1. Init => Moves /\ Unheard
  BY DEF Init, Moves, Moving, Unheard
<1>2. TypeOK /\ Safe /\ Moves /\ Unheard /\ [Next]_vars => Moves' /\ Unheard'
  BY NextMoves, NextUnheard
<1>3. Moves => NotStranded
  <2>1. ASSUME NEW l \in ApiLane, lane[l].op = "logout" PROVE ApiBusy
    BY <2>1, RecordFields DEF ApiBusy
  <2> QED BY <2>1 DEF Moves, NotStranded, Moving
<1> QED BY <1>1, <1>2, <1>3, AlwaysSafe, PTL DEF Spec
=============================================================================
