--------------------------- MODULE SendQueueProofs ---------------------------
(***************************************************************************)
(* SendQueue for any finite set of jobs, any drainers, concurrency, list    *)
(* length, delay and lateness of timers.                                    *)
(***************************************************************************)
EXTENDS SendQueue, FiniteSetTheorems, SequenceTheorems, TLAPS

-----------------------------------------------------------------------------
(* Lists without repetition                                                 *)

Distinct(s) == \A i, k \in DOMAIN s : s[i] = s[k] => i = k
Holds(s, j) == \E i \in DOMAIN s : s[i] = j

\* What the tail of a list loses is its head.
LEMMA TailHolds ==
  ASSUME NEW S, NEW s \in Seq(S), s # <<>>, Distinct(s)
  PROVE  /\ Head(s) \in S /\ Holds(s, Head(s))
         /\ Tail(s) \in Seq(S) /\ Distinct(Tail(s)) /\ Len(Tail(s)) = Len(s) - 1
         /\ \A j : Holds(Tail(s), j) <=> Holds(s, j) /\ j # Head(s)
<1>1. /\ Len(s) \in Nat \ {0} /\ DOMAIN s = 1..Len(s) /\ Head(s) = s[1] /\ Head(s) \in S
      /\ Tail(s) \in Seq(S) /\ Len(Tail(s)) = Len(s) - 1 /\ DOMAIN Tail(s) = 1..(Len(s) - 1)
      /\ \A i \in 1..(Len(s) - 1) : Tail(s)[i] = s[i + 1]
  BY EmptySeq, LenProperties, HeadTailProperties
<1>2. Distinct(Tail(s))
  BY <1>1 DEF Distinct
<1>3. ASSUME NEW j PROVE Holds(Tail(s), j) <=> Holds(s, j) /\ j # Head(s)
  <2>1. ASSUME Holds(Tail(s), j) PROVE Holds(s, j) /\ j # Head(s)
    BY <1>1, <2>1 DEF Holds, Distinct
  <2>2. ASSUME Holds(s, j), j # Head(s) PROVE Holds(Tail(s), j)
    <3>1. PICK i \in 1..Len(s) : s[i] = j
      BY <1>1, <2>2 DEF Holds
    <3>2. i - 1 \in 1..(Len(s) - 1) /\ Tail(s)[i - 1] = j
      BY <1>1, <2>2, <3>1
    <3> QED BY <1>1, <3>2 DEF Holds
  <2> QED BY <2>1, <2>2
<1> QED BY <1>1, <1>2, <1>3 DEF Holds

\* A list that gets a new element at its end.
LEMMA AppendHolds ==
  ASSUME NEW S, NEW s \in Seq(S), NEW e \in S, Distinct(s), ~Holds(s, e)
  PROVE  /\ Append(s, e) \in Seq(S) /\ Distinct(Append(s, e))
         /\ Len(Append(s, e)) = Len(s) + 1
         /\ \A j : Holds(Append(s, e), j) <=> Holds(s, j) \/ j = e
<1>1. /\ Len(s) \in Nat /\ DOMAIN s = 1..Len(s)
      /\ Append(s, e) \in Seq(S) /\ Len(Append(s, e)) = Len(s) + 1
      /\ DOMAIN Append(s, e) = 1..(Len(s) + 1)
      /\ \A i \in 1..Len(s) : Append(s, e)[i] = s[i]
      /\ Append(s, e)[Len(s) + 1] = e
  BY LenProperties, AppendProperties
<1>2. Distinct(Append(s, e))
  BY <1>1 DEF Distinct, Holds
<1>3. ASSUME NEW j PROVE Holds(Append(s, e), j) <=> Holds(s, j) \/ j = e
  <2>1. ASSUME Holds(Append(s, e), j) PROVE Holds(s, j) \/ j = e
    BY <1>1, <2>1 DEF Holds
  <2>2. ASSUME Holds(s, j) \/ j = e PROVE Holds(Append(s, e), j)
    BY <1>1, <2>2 DEF Holds
  <2> QED BY <2>1, <2>2
<1> QED BY <1>1, <1>2, <1>3

-----------------------------------------------------------------------------
(* The slots                                                                *)

SlotPhases == {"reserved", "running", "settled"}
SlotsOf(ph) == {j \in Job : ph[j] \in SlotPhases}
ListMatches(w, ph) == Distinct(w) /\ \A j \in Job : ph[j] = "waiting" <=> Holds(w, j)

\* The waiting list and the phases tell the same story, and so do the slots.
SlotInv ==
  /\ TypeOK
  /\ ListMatches(waiting, phase)
  /\ running = Cardinality(SlotsOf(phase))
  /\ NoIdleSlot

LEMMA SlotsFinite ==
  ASSUME NEW ph PROVE IsFiniteSet(SlotsOf(ph)) /\ Cardinality(SlotsOf(ph)) \in Nat
BY JobAssumption, FS_Subset, FS_CardinalityType DEF SlotsOf

\* A job that moves between two phases of a slot, or outside of one, takes none.
LEMMA SlotKept ==
  ASSUME NEW ph \in [Job -> Phases], NEW j \in Job, NEW p \in Phases,
         (ph[j] \in SlotPhases) <=> (p \in SlotPhases)
  PROVE  SlotsOf([ph EXCEPT ![j] = p]) = SlotsOf(ph)
BY DEF SlotsOf

LEMMA SlotTaken ==
  ASSUME NEW ph \in [Job -> Phases], NEW j \in Job, NEW p \in SlotPhases,
         ph[j] \notin SlotPhases
  PROVE  Cardinality(SlotsOf([ph EXCEPT ![j] = p])) = Cardinality(SlotsOf(ph)) + 1
<1>1. SlotsOf([ph EXCEPT ![j] = p]) = SlotsOf(ph) \cup {j} /\ j \notin SlotsOf(ph)
  BY DEF SlotsOf
<1> QED BY <1>1, SlotsFinite, FS_AddElement

LEMMA SlotFreed ==
  ASSUME NEW ph \in [Job -> Phases], NEW j \in Job, NEW p \in Phases \ SlotPhases,
         ph[j] \in SlotPhases
  PROVE  /\ Cardinality(SlotsOf([ph EXCEPT ![j] = p])) = Cardinality(SlotsOf(ph)) - 1
         /\ Cardinality(SlotsOf(ph)) >= 1
<1>1. /\ SlotsOf([ph EXCEPT ![j] = p]) = SlotsOf(ph) \ {j} /\ j \in SlotsOf(ph)
  BY DEF SlotsOf
<1>2. Cardinality(SlotsOf([ph EXCEPT ![j] = p])) = Cardinality(SlotsOf(ph)) - 1
  BY <1>1, SlotsFinite, FS_RemoveElement
<1> QED BY <1>2, SlotsFinite

\* One #pump, from a list with at most one job that could have started before.
LEMMA PumpFills ==
  ASSUME TypeOK,
         NEW w \in Seq(Job), NEW r \in 0..Concurrency, NEW ph \in [Job -> Phases],
         ListMatches(w, ph), r = Cardinality(SlotsOf(ph)),
         Len(w) <= 1 \/ r >= Concurrency - 1,
         Pump(w, r, ph)
  PROVE  /\ waiting' \in Seq(Job) /\ running' \in 0..Concurrency
         /\ phase' \in [Job -> Phases] /\ answer' \in [Job -> Answers]
         /\ startAt' \in [Job -> Int] /\ lastStart' \in Int
         /\ wire' \subseteq Job /\ lastSent' \in Int
         /\ ListMatches(waiting', phase')
         /\ running' = Cardinality(SlotsOf(phase'))
         /\ NoIdleSlot'
<1>0. StartOf \in Int
  BY TimeAssumption DEF TypeOK, StartOf
<1>1. CASE SlotFree(r) /\ w # <<>>
  <2>1. /\ Head(w) \in Job /\ Tail(w) \in Seq(Job) /\ Distinct(Tail(w))
        /\ Holds(w, Head(w)) /\ Len(Tail(w)) = Len(w) - 1
        /\ \A j : Holds(Tail(w), j) <=> Holds(w, j) /\ j # Head(w)
    BY <1>1, TailHolds DEF ListMatches
  <2>2. ph[Head(w)] = "waiting"
    BY <2>1 DEF ListMatches
  <2>3. /\ waiting' = Tail(w) /\ running' = r + 1 /\ lastStart' = StartOf
        /\ startAt' = [startAt EXCEPT ![Head(w)] = StartOf]
    BY <1>1 DEF Pump
  <2>4. PICK p \in SlotPhases : phase' = [ph EXCEPT ![Head(w)] = p]
    BY <1>1 DEF Pump, RunTask, SlotPhases
  <2>5. answer' \in [Job -> Answers] /\ wire' \subseteq Job /\ lastSent' \in Int
    BY <1>1, <2>1 DEF Pump, RunTask, TypeOK, Answers
  <2>6. /\ waiting' \in Seq(Job) /\ phase' \in [Job -> Phases]
        /\ startAt' \in [Job -> Int] /\ lastStart' \in Int
    BY <1>0, <2>1, <2>3, <2>4 DEF TypeOK, SlotPhases, Phases
  <2>7. running' \in 0..Concurrency
    BY <1>1, <2>3, LimitAssumption DEF SlotFree
  <2>8. ListMatches(waiting', phase')
    BY <2>1, <2>3, <2>4 DEF ListMatches, SlotPhases
  <2>9. running' = Cardinality(SlotsOf(phase'))
    <3>1. ph[Head(w)] \notin SlotPhases
      BY <2>2 DEF SlotPhases
    <3> QED BY <2>1, <2>3, <2>4, <3>1, SlotTaken
  <2>10. NoIdleSlot'
    <3>1. ASSUME Tail(w) # <<>> PROVE r + 1 = Concurrency
      <4>1. Len(Tail(w)) >= 1
        BY <2>1, <3>1, EmptySeq, LenProperties
      <4> QED BY <1>1, <2>1, <4>1, LenProperties, LimitAssumption DEF SlotFree
    <3> QED BY <2>3, <3>1 DEF NoIdleSlot
  <2> QED BY <2>5, <2>6, <2>7, <2>8, <2>9, <2>10
<1>2. CASE ~(SlotFree(r) /\ w # <<>>)
  <2>1. /\ waiting' = w /\ running' = r /\ phase' = ph
        /\ UNCHANGED <<lastStart, startAt, answer, wire, lastSent>>
    BY <1>2 DEF Pump
  <2>2. NoIdleSlot'
    BY <1>2, <2>1, LimitAssumption DEF SlotFree, NoIdleSlot
  <2> QED BY <2>1, <2>2 DEF TypeOK
<1> QED BY <1>1, <1>2

LEMMA InitSlots == Init => SlotInv
<1> SUFFICES ASSUME Init PROVE SlotInv
  OBVIOUS
<1>1. TypeOK
  <2>1. 0 - MinDelay \in Int /\ 0 \in 0..Concurrency
    BY LimitAssumption, TimeAssumption
  <2>2. answer \in [Job -> Answers] /\ phase \in [Job -> Phases] /\ startAt \in [Job -> Int]
    BY DEF Init, Phases, Answers
  <2> QED BY <2>1, <2>2, EmptySeq DEF Init, TypeOK
<1>2. ListMatches(waiting, phase)
  BY EmptySeq DEF Init, ListMatches, Distinct, Holds
<1>3. SlotsOf(phase) = {}
  BY DEF Init, SlotsOf, SlotPhases
<1> QED BY <1>1, <1>2, <1>3, FS_EmptySet DEF Init, SlotInv, NoIdleSlot

LEMMA PushSlots ==
  ASSUME SlotInv, NEW j \in Job, Push(j) PROVE SlotInv'
<1> USE DEF SlotInv
<1>1. phase[j] = "new" /\ UNCHANGED <<closed, drains, session, now>>
  BY DEF Push
<1>2. CASE ~Sendable \/ closed \/ Full
  <2>1. /\ phase' = [phase EXCEPT ![j] = "done"]
        /\ answer' = [answer EXCEPT ![j] = "refused"]
        /\ UNCHANGED <<waiting, running, lastStart, startAt, wire, history>>
    BY <1>2 DEF Push
  <2>2. TypeOK'
    BY <1>1, <2>1 DEF TypeOK, Phases, Answers, drains, session, history
  <2>3. ListMatches(waiting', phase')
    BY <1>1, <2>1 DEF ListMatches, TypeOK
  <2>4. SlotsOf(phase') = SlotsOf(phase)
    BY <1>1, <2>1, SlotKept DEF TypeOK, Phases, SlotPhases
  <2> QED BY <2>1, <2>2, <2>3, <2>4 DEF NoIdleSlot
<1>3. CASE ~(~Sendable \/ closed \/ Full)
  <2> DEFINE w == Append(waiting, j)
             ph == [phase EXCEPT ![j] = "waiting"]
  <2>1. accepted' = Append(accepted, j) /\ Pump(w, running, ph)
    BY <1>3 DEF Push
  <2>2. ~Holds(waiting, j)
    BY <1>1 DEF ListMatches
  <2>3. /\ w \in Seq(Job) /\ Distinct(w) /\ Len(w) = Len(waiting) + 1
        /\ \A k : Holds(w, k) <=> Holds(waiting, k) \/ k = j
    BY <2>2, AppendHolds DEF TypeOK, ListMatches
  <2>4. ph \in [Job -> Phases] /\ ListMatches(w, ph)
    BY <2>3 DEF TypeOK, ListMatches, Phases
  <2>5. running = Cardinality(SlotsOf(ph))
    BY <1>1, SlotKept DEF TypeOK, Phases, SlotPhases
  <2>6. Len(w) <= 1 \/ running >= Concurrency - 1
    <3>1. CASE waiting = <<>>
      BY <2>3, <3>1, EmptySeq
    <3>2. CASE waiting # <<>>
      BY <3>2, LimitAssumption DEF NoIdleSlot
    <3> QED BY <3>1, <3>2
  <2> HIDE DEF w, ph
  <2>7. /\ waiting' \in Seq(Job) /\ running' \in 0..Concurrency
        /\ phase' \in [Job -> Phases] /\ answer' \in [Job -> Answers]
        /\ startAt' \in [Job -> Int] /\ lastStart' \in Int
        /\ wire' \subseteq Job /\ lastSent' \in Int
        /\ ListMatches(waiting', phase')
        /\ running' = Cardinality(SlotsOf(phase'))
        /\ NoIdleSlot'
    BY <2>1, <2>3, <2>4, <2>5, <2>6, PumpFills DEF TypeOK
  <2>8. accepted' \in Seq(Job)
    BY <2>1, AppendProperties DEF TypeOK
  <2> QED BY <1>1, <2>7, <2>8 DEF TypeOK, drains, session
<1> QED BY <1>2, <1>3

LEMMA FinishSlots ==
  ASSUME SlotInv, NEW j \in Job, Finish(j) PROVE SlotInv'
<1> USE DEF SlotInv
<1> DEFINE ph == [phase EXCEPT ![j] = "done"]
<1>1. /\ phase[j] = "settled" /\ Pump(waiting, running - 1, ph)
      /\ UNCHANGED <<closed, stopped, session, now, accepted>>
  BY DEF Finish, SlotsAfter
<1>2. ph \in [Job -> Phases] /\ ListMatches(waiting, ph)
  BY <1>1 DEF TypeOK, ListMatches, Phases
<1>3. running - 1 = Cardinality(SlotsOf(ph)) /\ running - 1 \in 0..Concurrency
  <2>1. running - 1 = Cardinality(SlotsOf(ph)) /\ running >= 1
    BY <1>1, SlotFreed DEF TypeOK, Phases, SlotPhases
  <2> QED BY <2>1, LimitAssumption DEF TypeOK
<1>4. Len(waiting) <= 1 \/ running - 1 >= Concurrency - 1
  <2>1. CASE waiting = <<>>
    BY <2>1, EmptySeq
  <2>2. CASE waiting # <<>>
    BY <2>2, LimitAssumption DEF NoIdleSlot
  <2> QED BY <2>1, <2>2
<1> HIDE DEF ph
<1>5. /\ waiting' \in Seq(Job) /\ running' \in 0..Concurrency
      /\ phase' \in [Job -> Phases] /\ answer' \in [Job -> Answers]
      /\ startAt' \in [Job -> Int] /\ lastStart' \in Int
      /\ wire' \subseteq Job /\ lastSent' \in Int
      /\ ListMatches(waiting', phase')
      /\ running' = Cardinality(SlotsOf(phase'))
      /\ NoIdleSlot'
  BY <1>1, <1>2, <1>3, <1>4, PumpFills DEF TypeOK
<1>6. drain' \in [Drainer -> {"out", "asked", "done"}]
  BY DEF Finish, SettleIdle, TypeOK
<1> QED BY <1>1, <1>5, <1>6 DEF TypeOK, session

\* A job that leaves its sleep, its driver call or its deadline keeps its slot.
LEMMA JobSlots ==
  ASSUME SlotInv, NEW j \in Job, Wake(j) \/ DriverReturns(j) \/ TimeOut(j)
  PROVE  SlotInv'
<1> USE DEF SlotInv
<1>1. UNCHANGED <<fields, startAt, drains, session, now, accepted>>
  BY DEF Wake, DriverReturns, TimeOut, history
<1>2. UNCHANGED phase \/ \E p \in SlotPhases : phase[j] \in SlotPhases /\ phase' = [phase EXCEPT ![j] = p]
  BY DEF Wake, RunTask, DriverReturns, TimeOut, SlotPhases
<1>3. answer' \in [Job -> Answers] /\ wire' \subseteq Job /\ lastSent' \in Int
  <2>1. CASE Wake(j)
    <3>1. CASE Sendable
      BY <2>1, <3>1 DEF Wake, RunTask, TypeOK
    <3>2. CASE ~Sendable
      BY <2>1, <3>2 DEF Wake, RunTask, TypeOK, Answers
    <3> QED BY <3>1, <3>2
  <2>2. CASE DriverReturns(j)
    BY <2>2 DEF DriverReturns, TypeOK, Answers, history
  <2>3. CASE TimeOut(j)
    BY <2>3 DEF TimeOut, TypeOK, Answers, history
  <2> QED BY <2>1, <2>2, <2>3
<1>4. /\ phase' \in [Job -> Phases]
      /\ SlotsOf(phase') = SlotsOf(phase)
      /\ \A k \in Job : phase'[k] = "waiting" <=> phase[k] = "waiting"
  <2>1. CASE UNCHANGED phase
    BY <2>1 DEF TypeOK
  <2>2. CASE \E p \in SlotPhases : phase[j] \in SlotPhases /\ phase' = [phase EXCEPT ![j] = p]
    <3>1. PICK p \in SlotPhases : phase[j] \in SlotPhases /\ phase' = [phase EXCEPT ![j] = p]
      BY <2>2
    <3>2. p \in Phases /\ p # "waiting" /\ phase[j] # "waiting"
      BY <3>1 DEF SlotPhases, Phases
    <3>3. phase \in [Job -> Phases]
      BY DEF TypeOK
    <3>4. SlotsOf(phase') = SlotsOf(phase)
      BY <3>1, <3>2, <3>3, SlotKept
    <3> QED BY <3>1, <3>2, <3>3, <3>4
  <2> QED BY <1>2, <2>1, <2>2
<1>5. TypeOK'
  BY <1>1, <1>3, <1>4 DEF TypeOK, fields, drains, session
<1> QED BY <1>1, <1>4, <1>5 DEF fields, ListMatches, NoIdleSlot

LEMMA StopSlots ==
  ASSUME SlotInv, NEW d \in Drainer, Stop(d) PROVE SlotInv'
<1> USE DEF SlotInv
<1>1. /\ waiting' = <<>> /\ UNCHANGED <<running, lastStart, startAt, wire, epoch, now, history>>
      /\ phase' = [k \in Job |-> IF phase[k] = "waiting" THEN "done" ELSE phase[k]]
  BY DEF Stop, Unstarted
<1>2. TypeOK'
  BY <1>1, EmptySeq DEF Stop, Unstarted, TypeOK, Phases, Answers, history
<1>3. SlotsOf(phase') = SlotsOf(phase)
  BY <1>1 DEF SlotsOf, SlotPhases
<1>4. ListMatches(waiting', phase')
  BY <1>1, EmptySeq DEF ListMatches, Distinct, Holds
<1> QED BY <1>1, <1>2, <1>3, <1>4 DEF NoIdleSlot

LEMMA NextSlots == SlotInv /\ [Next]_vars => SlotInv'
<1> SUFFICES ASSUME SlotInv, [Next]_vars PROVE SlotInv'
  OBVIOUS
<1>1. ASSUME NEW j \in Job, Push(j) PROVE SlotInv'
  BY <1>1, PushSlots
<1>2. ASSUME NEW j \in Job, Wake(j) \/ DriverReturns(j) \/ TimeOut(j) PROVE SlotInv'
  BY <1>2, JobSlots
<1>3. ASSUME NEW j \in Job, Finish(j) PROVE SlotInv'
  BY <1>3, FinishSlots
<1>4. ASSUME NEW d \in Drainer, Stop(d) PROVE SlotInv'
  BY <1>4, StopSlots
<1>5. ASSUME (\E d \in Drainer : Drain(d)) \/ Drop \/ Reopen \/ Tick \/ UNCHANGED vars PROVE SlotInv'
  <2>1. UNCHANGED <<waiting, running, phase>>
    BY <1>5 DEF Drain, Drop, Reopen, Tick, vars, fields, jobs
  <2>2. TypeOK'
    <3>1. CASE \E d \in Drainer : Drain(d)
      BY <3>1 DEF SlotInv, TypeOK, Drain, fields, jobs, session, history
    <3>2. CASE Drop \/ UNCHANGED vars
      BY <3>2 DEF SlotInv, TypeOK, Drop, vars, fields, jobs, drains, session, history
    <3>3. CASE Reopen
      BY <3>3 DEF SlotInv, TypeOK, Reopen, fields, jobs, drains, history
    <3>4. CASE Tick
      BY <3>4 DEF SlotInv, TypeOK, Tick, fields, jobs, drains, session, history
    <3> QED BY <1>5, <3>1, <3>2, <3>3, <3>4
  <2> QED BY <2>1, <2>2 DEF SlotInv, ListMatches, NoIdleSlot
<1> QED BY <1>1, <1>2, <1>3, <1>4, <1>5 DEF Next

\* #running counts the workers exactly, whatever path each job took through
\* a failure, a deadline or a refusal, and a job waits only when every slot of
\* config.send.concurrency is taken (queue.ts #pump and the worker's finally).
THEOREM EverySlotUsed == Spec => []SlotsAreUsed
<1>1. SlotInv => SlotsAreUsed
  BY DEF SlotInv, SlotsAreUsed, SlotsAreCounted, SlotsOf, SlotPhases, InSlot
<1>2. Spec => []SlotInv
  BY InitSlots, NextSlots, PTL DEF Spec
<1> QED BY <1>1, <1>2, PTL

-----------------------------------------------------------------------------
(* After a stop                                                             *)

\* A queue that was stopped takes and starts nothing more, so that the
\* counter that was zero when the drain resolved stays zero.
QuietInv ==
  /\ stopped # {} => closed
  /\ closed => waiting = <<>>
  /\ \A d \in stopped : drain[d] = "done" => running = 0

LEMMA NextQuiet == SlotInv /\ SlotInv' /\ QuietInv /\ [Next]_vars => QuietInv'
<1> SUFFICES ASSUME SlotInv, SlotInv', QuietInv, [Next]_vars PROVE QuietInv'
  OBVIOUS
<1>0. /\ running \in Nat /\ running' \in Nat /\ stopped \subseteq Drainer
      /\ drain \in [Drainer -> {"out", "asked", "done"}]
  BY LimitAssumption DEF SlotInv, TypeOK
<1>1. ASSUME NEW j \in Job, Push(j) PROVE QuietInv'
  <2>1. UNCHANGED <<closed, drains>> /\ (closed => UNCHANGED <<waiting, running>>)
    BY <1>1 DEF Push
  <2> QED BY <2>1 DEF QuietInv, drains
<1>2. ASSUME NEW j \in Job, Finish(j) PROVE QuietInv'
  <2>1. UNCHANGED <<closed, stopped>> /\ Pump(waiting, running - 1, [phase EXCEPT ![j] = "done"])
    BY <1>2 DEF Finish, SlotsAfter
  <2>2. CASE waiting = <<>>
    <3>1. running' = running - 1 /\ waiting' = <<>>
      BY <2>1, <2>2 DEF Pump
    <3>2. drain' = [d \in Drainer |->
              IF drain[d] = "asked" /\ running - 1 = 0 /\ waiting = <<>> THEN "done" ELSE drain[d]]
      BY <1>2, <2>2 DEF Finish, SettleIdle, SlotsAfter
    <3>3. ASSUME NEW d \in stopped, drain'[d] = "done" PROVE running' = 0
      BY <1>0, <3>1, <3>2, <3>3 DEF QuietInv
    <3> QED BY <2>1, <3>1, <3>3 DEF QuietInv
  <2>3. CASE waiting # <<>>
    BY <2>1, <2>3 DEF QuietInv
  <2> QED BY <2>2, <2>3
<1>3. ASSUME NEW d \in Drainer, Drain(d) PROVE QuietInv'
  BY <1>0, <1>3 DEF Drain, QuietInv, fields
<1>4. ASSUME NEW d \in Drainer, Stop(d) PROVE QuietInv'
  BY <1>0, <1>4 DEF Stop, QuietInv
<1>5. CASE \/ \E j \in Job : Wake(j) \/ DriverReturns(j) \/ TimeOut(j)
           \/ Drop \/ Reopen \/ Tick \/ UNCHANGED vars
  <2>1. UNCHANGED <<fields, drains>>
    BY <1>5 DEF Wake, DriverReturns, TimeOut, Drop, Reopen, Tick, vars
  <2> QED BY <2>1 DEF QuietInv, fields, drains
<1> QED BY <1>1, <1>2, <1>3, <1>4, <1>5 DEF Next

\* When the drain that a stop waits for has resolved, no worker holds a slot
\* and no job waits, and that stays so: teardown finds a quiet queue
\* (queue.ts close and drain, session.ts stop).
THEOREM StopLeavesQuiet == Spec => []StoppedIsQuiet
<1>1. Init => QuietInv
  BY DEF Init, QuietInv
<1>2. SlotInv /\ QuietInv => StoppedIsQuiet
  <2> SUFFICES ASSUME SlotInv, QuietInv, NEW d \in stopped, drain[d] = "done"
               PROVE  InSlot = {} /\ waiting = <<>>
    BY DEF StoppedIsQuiet
  <2>1. Cardinality(SlotsOf(phase)) = 0 /\ waiting = <<>>
    BY DEF SlotInv, QuietInv
  <2>2. SlotsOf(phase) = {}
    BY <2>1, SlotsFinite, FS_EmptySet
  <2> QED BY <2>1, <2>2 DEF InSlot, SlotsOf, SlotPhases
<1> QED BY <1>1, <1>2, InitSlots, NextSlots, NextQuiet, PTL DEF Spec

-----------------------------------------------------------------------------
(* The gap between sends                                                    *)

\* What the reservations promise.  Reserved starts are MinDelay apart and none
\* is after lastStart; a timer is at most MaxLate late; the last real start
\* kept to its reservation.  Where timers are more precise than the gap is
\* wide, it is MinDelay before every other reserved start, but for MaxLate.
GapInv ==
  /\ lastSent <= now
  /\ lastSent <= lastStart + MaxLate
  /\ \A j \in Sleepers : startAt[j] <= lastStart /\ now <= startAt[j] + MaxLate
  /\ \A j, k \in Sleepers : j # k => \/ startAt[j] + MinDelay <= startAt[k]
                                    \/ startAt[k] + MinDelay <= startAt[j]
  /\ MaxLate < MinDelay => \A j \in Sleepers : lastSent + MinDelay <= startAt[j] + MaxLate

\* The lateness the timers are allowed.
GapKept == wire' \subseteq wire \/ lastSent + MinDelay <= now + MaxLate

LEMMA TimeTypes ==
  ASSUME TypeOK
  PROVE  /\ now \in Int /\ lastStart \in Int /\ lastSent \in Int /\ MinDelay \in Nat /\ MaxLate \in Nat
         /\ startAt \in [Job -> Int] /\ Sleepers \subseteq Job
BY TimeAssumption DEF TypeOK, Sleepers

\* A start that is reserved is MinDelay after the one reserved before.
LEMMA ReserveGap ==
  ASSUME TypeOK, GapInv, NEW h \in Job \ Sleepers, StartOf > now,
         Sleepers' = Sleepers \cup {h}, startAt' = [startAt EXCEPT ![h] = StartOf],
         lastStart' = StartOf, UNCHANGED <<now, lastSent, wire>>
  PROVE  GapInv' /\ GapKept
<1>1. /\ now \in Int /\ lastStart \in Int /\ lastSent \in Int /\ MinDelay \in Nat /\ MaxLate \in Nat
      /\ StartOf = lastStart + MinDelay
  BY TimeTypes DEF StartOf
<1>2. /\ startAt'[h] = lastStart + MinDelay
      /\ \A j \in Sleepers : startAt[j] \in Int /\ startAt'[j] = startAt[j]
  BY <1>1, TimeTypes
<1>3. lastSent' <= now' /\ lastSent' <= lastStart' + MaxLate
  BY <1>1 DEF GapInv
<1>4. \A j \in Sleepers' : startAt'[j] <= lastStart' /\ now' <= startAt'[j] + MaxLate
  BY <1>1, <1>2 DEF GapInv
<1>5. \A j, k \in Sleepers' : j # k => \/ startAt'[j] + MinDelay <= startAt'[k]
                                      \/ startAt'[k] + MinDelay <= startAt'[j]
  BY <1>1, <1>2 DEF GapInv
<1>6. MaxLate < MinDelay => \A j \in Sleepers' : lastSent' + MinDelay <= startAt'[j] + MaxLate
  BY <1>1, <1>2 DEF GapInv
<1> QED BY <1>3, <1>4, <1>5, <1>6 DEF GapInv, GapKept

\* A job that needs no sleep starts now, MinDelay after the last reservation:
\* with precise timers, nobody sleeps at that time.
LEMMA StartGap ==
  ASSUME TypeOK, GapInv, NEW h \in Job \ Sleepers, ~(StartOf > now),
         Sleepers' = Sleepers, startAt' = [startAt EXCEPT ![h] = StartOf],
         lastStart' = StartOf, now' = now, lastSent' = now \/ lastSent' = lastSent
  PROVE  GapInv' /\ lastSent + MinDelay <= now + MaxLate
<1>1. /\ now \in Int /\ lastStart \in Int /\ lastSent \in Int /\ MinDelay \in Nat /\ MaxLate \in Nat
      /\ StartOf = now /\ lastStart + MinDelay <= now
  BY TimeTypes DEF StartOf
<1>2. \A j \in Sleepers : startAt[j] \in Int /\ startAt'[j] = startAt[j]
  BY <1>1, TimeTypes
<1>3. lastSent' <= now' /\ lastSent' <= lastStart' + MaxLate
  BY <1>1 DEF GapInv
<1>4. \A j \in Sleepers' : startAt'[j] <= lastStart' /\ now' <= startAt'[j] + MaxLate
  BY <1>1, <1>2 DEF GapInv
<1>5. MaxLate < MinDelay => Sleepers = {}
  BY <1>1, <1>2 DEF GapInv
<1> QED BY <1>1, <1>2, <1>3, <1>4, <1>5 DEF GapInv

\* A job that wakes started at its own reservation, or late.
LEMMA WakeGap ==
  ASSUME TypeOK, GapInv, NEW h \in Sleepers, startAt[h] <= now,
         Sleepers' = Sleepers \ {h}, UNCHANGED <<startAt, lastStart, now>>,
         lastSent' = now \/ lastSent' = lastSent
  PROVE  GapInv' /\ lastSent + MinDelay <= now + MaxLate
<1>1. /\ now \in Int /\ lastStart \in Int /\ lastSent \in Int /\ MinDelay \in Nat /\ MaxLate \in Nat
      /\ \A j \in Sleepers : startAt[j] \in Int
  BY TimeTypes
<1>2. lastSent + MinDelay <= now + MaxLate
  BY <1>1 DEF GapInv
<1>3. lastSent' <= now' /\ lastSent' <= lastStart' + MaxLate
  BY <1>1 DEF GapInv
<1>4. ASSUME MaxLate < MinDelay, NEW j \in Sleepers \ {h}
      PROVE  lastSent' + MinDelay <= startAt[j] + MaxLate
  BY <1>1, <1>4 DEF GapInv
<1> QED BY <1>1, <1>2, <1>3, <1>4 DEF GapInv

LEMMA PumpGap ==
  ASSUME TypeOK, GapInv, NEW w \in Seq(Job), NEW r \in Nat, NEW ph \in [Job -> Phases],
         ListMatches(w, ph), \A j \in Job : ph[j] = "reserved" <=> phase[j] = "reserved",
         Pump(w, r, ph), now' = now
  PROVE  GapInv' /\ GapKept
<1>1. CASE SlotFree(r) /\ w # <<>>
  <2>1. /\ Head(w) \in Job \ Sleepers /\ ph[Head(w)] = "waiting"
    BY <1>1, TailHolds DEF ListMatches, Sleepers
  <2>2. lastStart' = StartOf /\ startAt' = [startAt EXCEPT ![Head(w)] = StartOf]
    BY <1>1 DEF Pump
  <2>3. CASE StartOf > now
    <3>1. /\ phase' = [ph EXCEPT ![Head(w)] = "reserved"]
          /\ UNCHANGED <<lastSent, wire>>
      BY <1>1, <2>3 DEF Pump
    <3>2. Sleepers' = Sleepers \cup {Head(w)}
      BY <2>1, <3>1 DEF Sleepers
    <3> QED BY <2>1, <2>2, <2>3, <3>1, <3>2, ReserveGap
  <2>4. CASE ~(StartOf > now)
    <3>1. RunTask(Head(w), ph)
      BY <1>1, <2>4 DEF Pump
    <3>2. /\ lastSent' = now \/ lastSent' = lastSent
          /\ \E p \in {"running", "settled"} : phase' = [ph EXCEPT ![Head(w)] = p]
      BY <3>1 DEF RunTask
    <3>3. Sleepers' = Sleepers
      BY <2>1, <3>2 DEF Sleepers
    <3> QED BY <2>1, <2>2, <2>4, <3>2, <3>3, StartGap DEF GapKept
  <2> QED BY <2>3, <2>4
<1>2. CASE ~(SlotFree(r) /\ w # <<>>)
  <2>1. phase' = ph /\ UNCHANGED <<lastStart, startAt, answer, wire, lastSent>>
    BY <1>2 DEF Pump
  <2>2. Sleepers' = Sleepers
    BY <2>1 DEF Sleepers
  <2> QED BY <2>1, <2>2 DEF GapInv, GapKept
<1> QED BY <1>1, <1>2

LEMMA NextGap == SlotInv /\ GapInv /\ [Next]_vars => GapInv' /\ GapKept
<1> SUFFICES ASSUME SlotInv, GapInv, [Next]_vars PROVE GapInv' /\ GapKept
  OBVIOUS
<1>0. TypeOK /\ ListMatches(waiting, phase) /\ running = Cardinality(SlotsOf(phase))
  BY DEF SlotInv
<1>1. ASSUME NEW j \in Job, Push(j) PROVE GapInv' /\ GapKept
  <2>1. phase[j] = "new" /\ now' = now
    BY <1>1 DEF Push
  <2>2. CASE ~Sendable \/ closed \/ Full
    <3>1. UNCHANGED <<now, lastStart, startAt, wire, lastSent>> /\ phase' = [phase EXCEPT ![j] = "done"]
      BY <1>1, <2>2 DEF Push, history
    <3>2. Sleepers' = Sleepers
      BY <1>0, <2>1, <3>1 DEF Sleepers, TypeOK
    <3> QED BY <3>1, <3>2 DEF GapInv, GapKept
  <2>3. CASE ~(~Sendable \/ closed \/ Full)
    <3> DEFINE w == Append(waiting, j)
               ph == [phase EXCEPT ![j] = "waiting"]
    <3>1. Pump(w, running, ph)
      BY <1>1, <2>3 DEF Push
    <3>2. ~Holds(waiting, j)
      BY <1>0, <2>1 DEF ListMatches
    <3>3. w \in Seq(Job) /\ ph \in [Job -> Phases] /\ ListMatches(w, ph)
      BY <1>0, <3>2, AppendHolds DEF TypeOK, ListMatches, Phases
    <3>4. \A k \in Job : ph[k] = "reserved" <=> phase[k] = "reserved"
      BY <1>0, <2>1 DEF TypeOK
    <3>5. running \in Nat
      BY <1>0, SlotsFinite
    <3> HIDE DEF w, ph
    <3> QED BY <1>0, <2>1, <3>1, <3>3, <3>4, <3>5, PumpGap
  <2> QED BY <2>2, <2>3
<1>2. ASSUME NEW j \in Job, Finish(j) PROVE GapInv' /\ GapKept
  <2> DEFINE ph == [phase EXCEPT ![j] = "done"]
  <2>1. phase[j] = "settled" /\ Pump(waiting, running - 1, ph) /\ now' = now
    BY <1>2 DEF Finish, SlotsAfter
  <2>2. ph \in [Job -> Phases] /\ ListMatches(waiting, ph)
        /\ \A k \in Job : ph[k] = "reserved" <=> phase[k] = "reserved"
    BY <1>0, <2>1 DEF TypeOK, ListMatches, Phases
  <2>3. running - 1 \in Nat
    BY <1>0, <2>1, SlotFreed, SlotsFinite DEF TypeOK, Phases, SlotPhases
  <2> HIDE DEF ph
  <2> QED BY <1>0, <2>1, <2>2, <2>3, PumpGap DEF TypeOK
<1>3. ASSUME NEW j \in Job, Wake(j) PROVE GapInv' /\ GapKept
  <2>1. j \in Sleepers /\ startAt[j] <= now /\ UNCHANGED <<startAt, lastStart, now>>
    BY <1>3 DEF Wake, Sleepers, fields
  <2>2. /\ lastSent' = now \/ lastSent' = lastSent
        /\ \E p \in {"running", "settled"} : phase' = [phase EXCEPT ![j] = p]
    BY <1>3 DEF Wake, RunTask
  <2>3. Sleepers' = Sleepers \ {j}
    BY <1>0, <2>2 DEF Sleepers, TypeOK
  <2> QED BY <1>0, <2>1, <2>2, <2>3, WakeGap DEF GapKept
<1>4. CASE Tick
  <2>1. /\ now' = now + 1 /\ UNCHANGED <<lastStart, startAt, phase, wire, lastSent>>
        /\ \A j \in Sleepers : now < startAt[j] + MaxLate
    BY <1>4 DEF Tick, fields, jobs, history
  <2>2. Sleepers' = Sleepers
    BY <2>1 DEF Sleepers
  <2>3. \A j \in Sleepers : now + 1 <= startAt[j] + MaxLate
    BY <1>0, <2>1, TimeTypes
  <2>4. lastSent <= now + 1
    BY <1>0, TimeTypes DEF GapInv
  <2> QED BY <2>1, <2>2, <2>3, <2>4 DEF GapInv, GapKept
<1>5. CASE \/ \E j \in Job : DriverReturns(j) \/ TimeOut(j)
           \/ \E d \in Drainer : Drain(d) \/ Stop(d)
           \/ Drop \/ Reopen \/ UNCHANGED vars
  <2>1. UNCHANGED <<lastStart, startAt, now, lastSent>> /\ wire' \subseteq wire
    BY <1>5 DEF DriverReturns, TimeOut, Drain, Stop, Drop, Reopen, vars, fields, jobs, history
  <2>2. Sleepers' = Sleepers
    <3>1. \A k \in Job : phase'[k] = "reserved" <=> phase[k] = "reserved"
      BY <1>0, <1>5 DEF DriverReturns, TimeOut, Drain, Stop, Unstarted, Drop, Reopen, vars, jobs, TypeOK
    <3> QED BY <3>1 DEF Sleepers
  <2> QED BY <2>1, <2>2 DEF GapInv, GapKept
<1> QED BY <1>1, <1>2, <1>3, <1>4, <1>5 DEF Next

\* Two driver calls start at least minDelayMs apart, whichever jobs they serve
\* and however slots free up, but for what a timer is late (queue.ts #pump:
\* the start is reserved before the sleep).
THEOREM SendsAreSpaced == Spec => GapBetweenSends
<1>1. Init => GapInv
  BY TimeAssumption DEF Init, GapInv, Sleepers
<1>2. GapKept => \A j \in Job : Sends(j) => lastSent + MinDelay <= now + MaxLate
  BY DEF GapKept, Sends
<1>3. SlotInv /\ GapInv /\ [Next]_vars =>
        GapInv' /\ [\A j \in Job : Sends(j) => lastSent + MinDelay <= now + MaxLate]_vars
  BY <1>2, NextGap
<1> QED BY <1>1, <1>3, InitSlots, NextSlots, PTL DEF Spec, GapBetweenSends

-----------------------------------------------------------------------------
(* The order of the sends                                                   *)

\* Timers are more precise than the gap is wide, or there is no gap.
Precise == MaxLate < MinDelay \/ MinDelay = 0

Sorted(w, s) == \A i, k \in DOMAIN w : i < k => Position(s, w[i]) < Position(s, w[k])

\* The list w is in the order s of acceptance, behind every job that sleeps,
\* and the jobs that sleep are in that order by their reserved starts.
Ordered(w, s, ph, st) ==
  /\ Distinct(s) /\ Sorted(w, s)
  /\ \A j \in Job : ph[j] \in {"waiting", "reserved"} => Holds(s, j)
  /\ \A j \in Job : ph[j] = "new" => ~Holds(s, j)
  /\ \A j, k \in Job : ph[j] = "reserved" /\ ph[k] = "waiting" => Position(s, j) < Position(s, k)
  /\ \A j, k \in Job : ph[j] = "reserved" /\ ph[k] = "reserved" /\ st[j] < st[k] =>
                         Position(s, j) < Position(s, k)

\* Without a gap nobody ever sleeps.
Prompt == MinDelay = 0 => lastStart <= now /\ Sleepers = {}

OrderInv == Ordered(waiting, accepted, phase, startAt) /\ Prompt

LEMMA PositionIs ==
  ASSUME NEW S, NEW s \in Seq(S), Distinct(s), NEW i \in DOMAIN s
  PROVE  Position(s, s[i]) = i
BY DEF Position, Distinct

LEMMA PositionKept ==
  ASSUME NEW S, NEW s \in Seq(S), NEW e \in S, Distinct(s), ~Holds(s, e)
  PROVE  /\ Position(Append(s, e), e) = Len(s) + 1
         /\ \A j : Holds(s, j) => /\ Position(Append(s, e), j) = Position(s, j)
                                 /\ Position(s, j) \in 1..Len(s)
<1>1. /\ Len(s) \in Nat /\ DOMAIN s = 1..Len(s)
      /\ DOMAIN Append(s, e) = 1..(Len(s) + 1)
      /\ \A i \in 1..Len(s) : Append(s, e)[i] = s[i]
      /\ Append(s, e)[Len(s) + 1] = e
  BY LenProperties, AppendProperties
<1>2. Append(s, e) \in Seq(S) /\ Distinct(Append(s, e))
  BY AppendHolds
<1>3. Len(s) + 1 \in DOMAIN Append(s, e) /\ \A i \in DOMAIN s : i \in DOMAIN Append(s, e)
  BY <1>1
<1>4. Position(Append(s, e), e) = Len(s) + 1
  BY <1>1, <1>2, <1>3, PositionIs
<1>5. ASSUME NEW j, Holds(s, j)
      PROVE  Position(Append(s, e), j) = Position(s, j) /\ Position(s, j) \in 1..Len(s)
  <2>1. PICK i \in DOMAIN s : s[i] = j
    BY <1>5 DEF Holds
  <2>2. Position(s, j) = i
    BY <2>1, PositionIs
  <2>3. Position(Append(s, e), Append(s, e)[i]) = i
    BY <1>2, <1>3, <2>1, PositionIs
  <2> QED BY <1>1, <2>1, <2>2, <2>3
<1> QED BY <1>4, <1>5

\* Precise timers wake the jobs in the order of their reservations.
LEMMA FirstAwake ==
  ASSUME TypeOK, GapInv, Precise, Prompt, NEW j \in Sleepers, startAt[j] <= now
  PROVE  \A k \in Sleepers : k # j => startAt[j] < startAt[k]
<1> SUFFICES ASSUME NEW k \in Sleepers, k # j PROVE startAt[j] < startAt[k]
  OBVIOUS
<1>1. /\ now \in Int /\ MinDelay \in Nat /\ MaxLate \in Nat
      /\ startAt[j] \in Int /\ startAt[k] \in Int
  BY TimeTypes
<1>2. MaxLate < MinDelay
  BY DEF Precise, Prompt
<1>3. now <= startAt[k] + MaxLate
  BY DEF GapInv
<1>4. startAt[j] + MinDelay <= startAt[k] \/ startAt[k] + MinDelay <= startAt[j]
  BY DEF GapInv
<1> QED BY <1>1, <1>2, <1>3, <1>4

\* A job that starts without a sleep meets no job that sleeps.
LEMMA AllAwake ==
  ASSUME TypeOK, GapInv, Precise, Prompt, ~(StartOf > now)
  PROVE  Sleepers = {}
<1> SUFFICES ASSUME NEW k \in Sleepers PROVE FALSE
  OBVIOUS
<1>1. /\ now \in Int /\ lastStart \in Int /\ MinDelay \in Nat /\ MaxLate \in Nat
      /\ startAt[k] \in Int /\ lastStart + MinDelay <= now
  BY TimeTypes DEF StartOf
<1>2. MaxLate < MinDelay
  BY DEF Precise, Prompt
<1>3. startAt[k] <= lastStart /\ now <= startAt[k] + MaxLate
  BY DEF GapInv
<1> QED BY <1>1, <1>2, <1>3

\* The head of an ordered list is before the rest of it.
LEMMA HeadFirst ==
  ASSUME NEW w \in Seq(Job), NEW ph, NEW s \in Seq(Job), NEW st,
         ListMatches(w, ph), Ordered(w, s, ph, st), w # <<>>
  PROVE  /\ Sorted(Tail(w), s)
         /\ \A k \in Job : ph[k] = "waiting" /\ k # Head(w) => Position(s, Head(w)) < Position(s, k)
<1>1. /\ Len(w) \in Nat \ {0} /\ DOMAIN w = 1..Len(w) /\ Head(w) = w[1]
      /\ DOMAIN Tail(w) = 1..(Len(w) - 1)
      /\ \A i \in 1..(Len(w) - 1) : Tail(w)[i] = w[i + 1]
  <2>1. Tail(w) \in Seq(Job) /\ Len(Tail(w)) = Len(w) - 1
    BY HeadTailProperties
  <2> QED BY <2>1, EmptySeq, LenProperties, HeadTailProperties
<1>2. Sorted(Tail(w), s)
  BY <1>1 DEF Ordered, Sorted
<1>3. ASSUME NEW k \in Job, ph[k] = "waiting", k # Head(w) PROVE Position(s, Head(w)) < Position(s, k)
  <2>1. PICK i \in 1..Len(w) : w[i] = k
    BY <1>1, <1>3 DEF ListMatches, Holds
  <2>2. i \in 1..Len(w) /\ 1 \in 1..Len(w) /\ 1 < i
    BY <1>1, <1>3, <2>1
  <2> QED BY <1>1, <2>1, <2>2 DEF Ordered, Sorted
<1> QED BY <1>2, <1>3

\* Whoever a step hands to the driver is before all that wait and sleep.
FirstSends(s, ph) ==
  \A j, k \in Job : Sends(j) /\ k # j /\ ph[k] \in {"waiting", "reserved"} =>
                     Position(s, j) < Position(s, k)

LEMMA PumpOrder ==
  ASSUME TypeOK, GapInv, Precise, Prompt,
         NEW w \in Seq(Job), NEW r \in Nat, NEW ph \in [Job -> Phases], NEW s \in Seq(Job),
         ListMatches(w, ph), \A j \in Job : ph[j] = "reserved" <=> phase[j] = "reserved",
         Ordered(w, s, ph, startAt),
         Pump(w, r, ph), now' = now
  PROVE  Ordered(waiting', s, phase', startAt') /\ Prompt' /\ FirstSends(s, ph)
<1>1. CASE SlotFree(r) /\ w # <<>>
  <2> DEFINE h == Head(w)
  <2>1. h \in Job /\ h \notin Sleepers /\ ph[h] = "waiting"
    BY <1>1, TailHolds DEF ListMatches, Sleepers
  <2>2. /\ waiting' = Tail(w) /\ lastStart' = StartOf /\ startAt' = [startAt EXCEPT ![h] = StartOf]
    BY <1>1 DEF Pump
  <2>3. /\ Sorted(Tail(w), s)
        /\ \A k \in Job : ph[k] = "waiting" /\ k # h => Position(s, h) < Position(s, k)
    BY <1>1, HeadFirst
  <2>4. /\ now \in Int /\ lastStart \in Int /\ MinDelay \in Nat /\ startAt \in [Job -> Int]
        /\ \A k \in Job : ph[k] = "reserved" => startAt[k] \in Int /\ startAt[k] <= lastStart
    BY TimeTypes DEF GapInv, Sleepers
  <2>5. \A k \in Job : k # h => startAt'[k] = startAt[k]
    BY <2>2, <2>4
  <2>6. startAt'[h] = StartOf
    BY <2>1, <2>2, <2>4
  <2> HIDE DEF h
  <2>7. CASE StartOf > now
    <3>1. phase' = [ph EXCEPT ![h] = "reserved"] /\ UNCHANGED wire
      BY <1>1, <2>7 DEF Pump, h
    <3>2. StartOf = lastStart + MinDelay
      BY <2>4, <2>7 DEF StartOf
    <3>3. MinDelay # 0
      BY <2>4, <2>7, <3>2 DEF Prompt
    <3>4. \A k \in Job : ph[k] = "reserved" => ~(StartOf < startAt[k])
      BY <2>4, <3>2
    <3>5. Distinct(s) /\ Sorted(waiting', s)
      BY <2>2, <2>3 DEF Ordered
    <3>6. \A j, k \in Job : phase'[j] = "reserved" /\ phase'[k] = "waiting" => Position(s, j) < Position(s, k)
      BY <2>1, <2>3, <3>1 DEF Ordered
    <3>7. \A j, k \in Job : phase'[j] = "reserved" /\ phase'[k] = "reserved" /\ startAt'[j] < startAt'[k] =>
                            Position(s, j) < Position(s, k)
      <4> SUFFICES ASSUME NEW j \in Job, NEW k \in Job, phase'[j] = "reserved", phase'[k] = "reserved",
                          startAt'[j] < startAt'[k]
                   PROVE  Position(s, j) < Position(s, k)
        OBVIOUS
      <4>1. CASE j # h /\ k # h
        BY <2>5, <3>1, <4>1 DEF Ordered
      <4>2. CASE j # h /\ k = h
        BY <2>1, <3>1, <4>2 DEF Ordered
      <4>3. CASE j = h /\ k # h
        BY <2>5, <2>6, <3>1, <3>4, <4>3
      <4>4. CASE j = h /\ k = h
        BY <2>4, <2>6, <3>2, <4>4
      <4> QED BY <4>1, <4>2, <4>3, <4>4
    <3>8. /\ \A j \in Job : phase'[j] \in {"waiting", "reserved"} => Holds(s, j)
          /\ \A j \in Job : phase'[j] = "new" => ~Holds(s, j)
      BY <2>1, <3>1 DEF Ordered
    <3>9. FirstSends(s, ph)
      BY <3>1 DEF FirstSends, Sends
    <3> QED BY <3>3, <3>5, <3>6, <3>7, <3>8, <3>9 DEF Ordered, Prompt
  <2>8. CASE ~(StartOf > now)
    <3>1. RunTask(h, ph)
      BY <1>1, <2>8 DEF Pump, h
    <3>2. /\ wire' = wire \/ wire' = wire \cup {h}
          /\ \E p \in {"running", "settled"} : phase' = [ph EXCEPT ![h] = p]
      BY <3>1 DEF RunTask
    <3>3. Sleepers = {}
      BY <2>8, AllAwake
    <3>4. \A k \in Job : ph[k] # "reserved" /\ phase'[k] # "reserved"
      BY <3>2, <3>3 DEF Sleepers
    <3>5. Sleepers' = {}
      BY <3>4 DEF Sleepers
    <3>6. lastStart' <= now'
      BY <2>2, <2>4, <2>8, TimeTypes DEF StartOf
    <3>7. FirstSends(s, ph)
      BY <2>3, <3>2, <3>4 DEF FirstSends, Sends
    <3>8. /\ \A j \in Job : phase'[j] \in {"waiting", "reserved"} => Holds(s, j)
          /\ \A j \in Job : phase'[j] = "new" => ~Holds(s, j)
      BY <3>2 DEF Ordered
    <3> QED BY <2>2, <2>3, <3>4, <3>5, <3>6, <3>7, <3>8 DEF Ordered, Prompt
  <2> QED BY <2>7, <2>8
<1>2. CASE ~(SlotFree(r) /\ w # <<>>)
  <2>1. waiting' = w /\ phase' = ph /\ UNCHANGED <<lastStart, startAt, answer, wire, lastSent>>
    BY <1>2 DEF Pump
  <2>2. Sleepers' = Sleepers
    BY <2>1 DEF Sleepers
  <2> QED BY <2>1, <2>2 DEF Prompt, FirstSends, Sends
<1> QED BY <1>1, <1>2

\* An accepted job goes to the end of both orders.
LEMMA AcceptOrder ==
  ASSUME SlotInv, OrderInv, NEW j \in Job, phase[j] = "new"
  PROVE  Ordered(Append(waiting, j), Append(accepted, j), [phase EXCEPT ![j] = "waiting"], startAt)
<1> DEFINE w == Append(waiting, j)
           s == Append(accepted, j)
           ph == [phase EXCEPT ![j] = "waiting"]
<1>1. /\ waiting \in Seq(Job) /\ accepted \in Seq(Job) /\ phase \in [Job -> Phases]
      /\ ListMatches(waiting, phase) /\ Ordered(waiting, accepted, phase, startAt)
      /\ Distinct(accepted) /\ ~Holds(accepted, j)
  BY DEF SlotInv, TypeOK, OrderInv, Ordered
<1>2. /\ Position(s, j) = Len(accepted) + 1 /\ Len(accepted) \in Nat
      /\ \A k : Holds(accepted, k) => /\ Position(s, k) = Position(accepted, k)
                                     /\ Position(accepted, k) \in 1..Len(accepted)
  BY <1>1, PositionKept, LenProperties
<1>3. Distinct(s) /\ \A k : Holds(s, k) <=> Holds(accepted, k) \/ k = j
  BY <1>1, AppendHolds
<1>4. \A k \in Job : phase[k] \in {"waiting", "reserved"} =>
        Holds(accepted, k) /\ Position(s, k) = Position(accepted, k) /\ Position(s, k) < Position(s, j)
  BY <1>1, <1>2 DEF Ordered
<1>5. /\ Len(waiting) \in Nat /\ DOMAIN waiting = 1..Len(waiting) /\ DOMAIN w = 1..(Len(waiting) + 1)
      /\ \A i \in 1..Len(waiting) : w[i] = waiting[i] /\ waiting[i] \in Job /\ phase[waiting[i]] = "waiting"
      /\ w[Len(waiting) + 1] = j
  <2>1. \A i \in DOMAIN waiting : waiting[i] \in Job /\ phase[waiting[i]] = "waiting"
    BY <1>1, ElementOfSeq DEF ListMatches, Holds
  <2> QED BY <1>1, <2>1, LenProperties, AppendProperties
<1> HIDE DEF w, s, ph
<1>6. Sorted(w, s)
  <2> SUFFICES ASSUME NEW i \in 1..(Len(waiting) + 1), NEW k \in 1..(Len(waiting) + 1), i < k
               PROVE  Position(s, w[i]) < Position(s, w[k])
    BY <1>5 DEF Sorted
  <2>1. i \in 1..Len(waiting)
    BY <1>5
  <2>2. CASE k \in 1..Len(waiting)
    <3>1. Position(accepted, waiting[i]) < Position(accepted, waiting[k])
      BY <1>1, <1>5, <2>1, <2>2 DEF Ordered, Sorted
    <3> QED BY <1>4, <1>5, <2>1, <2>2, <3>1
  <2>3. CASE k = Len(waiting) + 1
    BY <1>4, <1>5, <2>1, <2>3
  <2> QED BY <1>5, <2>2, <2>3
<1>7. /\ \A k \in Job : ph[k] \in {"waiting", "reserved"} => Holds(s, k)
      /\ \A k \in Job : ph[k] = "new" => ~Holds(s, k)
  BY <1>1, <1>3 DEF Ordered, ph
<1>8. \A k, l \in Job : ph[k] = "reserved" /\ ph[l] = "waiting" => Position(s, k) < Position(s, l)
  <2> SUFFICES ASSUME NEW k \in Job, NEW l \in Job, ph[k] = "reserved", ph[l] = "waiting"
               PROVE  Position(s, k) < Position(s, l)
    OBVIOUS
  <2>1. k # j /\ phase[k] = "reserved" /\ (l # j => phase[l] = "waiting")
    BY <1>1 DEF ph
  <2>2. l # j => Position(accepted, k) < Position(accepted, l)
    BY <1>1, <2>1 DEF Ordered
  <2> QED BY <1>4, <2>1, <2>2
<1>9. \A k, l \in Job : ph[k] = "reserved" /\ ph[l] = "reserved" /\ startAt[k] < startAt[l] =>
                        Position(s, k) < Position(s, l)
  <2> SUFFICES ASSUME NEW k \in Job, NEW l \in Job, ph[k] = "reserved", ph[l] = "reserved",
                      startAt[k] < startAt[l]
               PROVE  Position(s, k) < Position(s, l)
    OBVIOUS
  <2>1. phase[k] = "reserved" /\ phase[l] = "reserved"
    BY <1>1 DEF ph
  <2>2. Position(accepted, k) < Position(accepted, l)
    BY <1>1, <2>1 DEF Ordered
  <2> QED BY <1>4, <2>1, <2>2
<1> QED BY <1>3, <1>6, <1>7, <1>8, <1>9 DEF Ordered, w, s, ph

LEMMA NextOrder ==
  ASSUME Precise, SlotInv, GapInv, OrderInv, [Next]_vars
  PROVE  OrderInv' /\ FirstSends(accepted', phase)
<1>0. /\ TypeOK /\ ListMatches(waiting, phase) /\ running = Cardinality(SlotsOf(phase))
      /\ Ordered(waiting, accepted, phase, startAt) /\ Prompt
      /\ waiting \in Seq(Job) /\ accepted \in Seq(Job) /\ phase \in [Job -> Phases]
  BY DEF SlotInv, OrderInv, TypeOK
<1>1. ASSUME NEW j \in Job, Push(j) PROVE OrderInv' /\ FirstSends(accepted', phase)
  <2>1. phase[j] = "new" /\ now' = now
    BY <1>1 DEF Push
  <2>2. CASE ~Sendable \/ closed \/ Full
    <3>1. /\ UNCHANGED <<waiting, accepted, startAt, now, lastStart, wire>>
          /\ phase' = [phase EXCEPT ![j] = "done"]
      BY <1>1, <2>2 DEF Push, history
    <3>2. Sleepers' = Sleepers
      BY <1>0, <2>1, <3>1 DEF Sleepers
    <3> QED BY <1>0, <3>1, <3>2 DEF OrderInv, Ordered, Prompt, FirstSends, Sends
  <2>3. CASE ~(~Sendable \/ closed \/ Full)
    <3> DEFINE w == Append(waiting, j)
               s == Append(accepted, j)
               ph == [phase EXCEPT ![j] = "waiting"]
    <3>1. Pump(w, running, ph) /\ accepted' = s
      BY <1>1, <2>3 DEF Push
    <3>2. ~Holds(waiting, j)
      BY <1>0, <2>1 DEF ListMatches
    <3>3. w \in Seq(Job) /\ ph \in [Job -> Phases] /\ ListMatches(w, ph) /\ s \in Seq(Job)
      BY <1>0, <3>2, AppendHolds, AppendProperties DEF ListMatches, Phases
    <3>4. Ordered(w, s, ph, startAt)
      BY <2>1, AcceptOrder
    <3>5. /\ \A k \in Job : ph[k] = "reserved" <=> phase[k] = "reserved"
          /\ \A k \in Job : phase[k] \in {"waiting", "reserved"} => ph[k] \in {"waiting", "reserved"}
      BY <1>0, <2>1
    <3>6. running \in Nat
      BY <1>0, SlotsFinite
    <3> HIDE DEF w, s, ph
    <3>7. Ordered(waiting', s, phase', startAt') /\ Prompt' /\ FirstSends(s, ph)
      BY <1>0, <2>1, <3>1, <3>3, <3>4, <3>5, <3>6, PumpOrder
    <3> QED BY <3>1, <3>5, <3>7 DEF OrderInv, FirstSends
  <2> QED BY <2>2, <2>3
<1>2. ASSUME NEW j \in Job, Finish(j) PROVE OrderInv' /\ FirstSends(accepted', phase)
  <2> DEFINE ph == [phase EXCEPT ![j] = "done"]
  <2>1. phase[j] = "settled" /\ Pump(waiting, running - 1, ph) /\ now' = now /\ accepted' = accepted
    BY <1>2 DEF Finish, SlotsAfter
  <2>2. ph \in [Job -> Phases] /\ ListMatches(waiting, ph)
        /\ (\A k \in Job : ph[k] = "reserved" <=> phase[k] = "reserved")
        /\ (\A k \in Job : phase[k] \in {"waiting", "reserved"} => ph[k] \in {"waiting", "reserved"})
    BY <1>0, <2>1 DEF ListMatches, Phases
  <2>3. running - 1 \in Nat
    BY <1>0, <2>1, SlotFreed, SlotsFinite DEF TypeOK, Phases, SlotPhases
  <2>4. Ordered(waiting, accepted, ph, startAt)
    BY <1>0, <2>1 DEF Ordered
  <2> HIDE DEF ph
  <2>5. Ordered(waiting', accepted, phase', startAt') /\ Prompt' /\ FirstSends(accepted, ph)
    BY <1>0, <2>1, <2>2, <2>3, <2>4, PumpOrder
  <2> QED BY <2>1, <2>2, <2>5 DEF OrderInv, FirstSends
<1>3. ASSUME NEW j \in Job, Wake(j) PROVE OrderInv' /\ FirstSends(accepted', phase)
  <2>1. j \in Sleepers /\ startAt[j] <= now /\ UNCHANGED <<waiting, accepted, startAt, lastStart, now>>
    BY <1>3 DEF Wake, Sleepers, fields
  <2>2. /\ wire' \subseteq wire \cup {j}
        /\ \E p \in {"running", "settled"} : phase' = [phase EXCEPT ![j] = p]
    BY <1>3 DEF Wake, RunTask
  <2>3. Sleepers' \subseteq Sleepers
    BY <1>0, <2>2 DEF Sleepers
  <2>4. ASSUME NEW k \in Job, k # j, phase[k] \in {"waiting", "reserved"}
        PROVE  Position(accepted, j) < Position(accepted, k)
    <3>1. CASE phase[k] = "waiting"
      BY <1>0, <2>1, <3>1 DEF Ordered, Sleepers
    <3>2. CASE phase[k] = "reserved"
      <4>1. startAt[j] < startAt[k]
        BY <1>0, <2>1, <2>4, <3>2, FirstAwake DEF Sleepers
      <4> QED BY <1>0, <2>1, <3>2, <4>1 DEF Ordered, Sleepers
    <3> QED BY <2>4, <3>1, <3>2
  <2>5. FirstSends(accepted', phase)
    BY <2>1, <2>2, <2>4 DEF FirstSends, Sends
  <2>6. Ordered(waiting, accepted, phase', startAt)
    BY <1>0, <2>2 DEF Ordered
  <2> QED BY <1>0, <2>1, <2>3, <2>5, <2>6 DEF OrderInv, Prompt
<1>4. CASE Tick
  <2>1. now' = now + 1 /\ UNCHANGED <<waiting, accepted, phase, startAt, lastStart, wire>>
    BY <1>4 DEF Tick, fields, jobs, history
  <2>2. Sleepers' = Sleepers
    BY <2>1 DEF Sleepers
  <2>3. Prompt'
    BY <1>0, <2>1, <2>2, TimeTypes DEF Prompt
  <2> QED BY <1>0, <2>1, <2>3 DEF OrderInv, FirstSends, Sends
<1>5. ASSUME NEW d \in Drainer, Stop(d) PROVE OrderInv' /\ FirstSends(accepted', phase)
  <2>1. /\ waiting' = <<>> /\ UNCHANGED <<accepted, startAt, lastStart, now, wire>>
        /\ phase' = [k \in Job |-> IF phase[k] = "waiting" THEN "done" ELSE phase[k]]
    BY <1>5 DEF Stop, Unstarted, history
  <2>2. Sleepers' = Sleepers
    BY <2>1 DEF Sleepers
  <2>3. Ordered(<<>>, accepted, phase', startAt)
    BY <1>0, <2>1, EmptySeq DEF Ordered, Sorted
  <2> QED BY <1>0, <2>1, <2>2, <2>3 DEF OrderInv, Prompt, FirstSends, Sends
<1>6. CASE \/ \E j \in Job : DriverReturns(j) \/ TimeOut(j)
           \/ \E d \in Drainer : Drain(d)
           \/ Drop \/ Reopen \/ UNCHANGED vars
  <2>1. UNCHANGED <<waiting, accepted, startAt, lastStart, now>> /\ wire' \subseteq wire
    BY <1>6 DEF DriverReturns, TimeOut, Drain, Drop, Reopen, vars, fields, jobs, history
  <2>2. \A k \in Job : /\ phase'[k] \in {"waiting", "reserved", "new"} => phase'[k] = phase[k]
    BY <1>0, <1>6 DEF DriverReturns, TimeOut, Drain, Drop, Reopen, vars, jobs
  <2>3. Sleepers' \subseteq Sleepers
    BY <2>2 DEF Sleepers
  <2>4. Ordered(waiting, accepted, phase', startAt)
    BY <1>0, <2>2 DEF Ordered
  <2> QED BY <1>0, <2>1, <2>3, <2>4 DEF OrderInv, Prompt, FirstSends, Sends
<1> QED BY <1>1, <1>2, <1>3, <1>4, <1>5, <1>6 DEF Next

\* Messages reach the driver in the order their sends were accepted, through
\* waiting, gaps, failures and stops, as long as a timer is never as late as
\* the gap between sends is wide (queue.ts #waiting.shift, #lastStart).
THEOREM SendsAreOrdered == ASSUME Precise PROVE Spec => SendsInOrder
<1>1. Init => OrderInv
  <2> SUFFICES ASSUME Init PROVE OrderInv
    OBVIOUS
  <2>1. Ordered(waiting, accepted, phase, startAt)
    BY EmptySeq DEF Init, Ordered, Sorted, Distinct, Holds
  <2> QED BY <2>1, TimeAssumption DEF Init, OrderInv, Prompt, Sleepers
<1>2. Init => GapInv
  BY TimeAssumption DEF Init, GapInv, Sleepers
<1>3. SlotInv /\ GapInv /\ OrderInv /\ [Next]_vars =>
        OrderInv' /\ [FirstSends(accepted', phase)]_vars
  BY NextOrder
<1>4. SlotInv /\ GapInv /\ [Next]_vars => GapInv'
  BY NextGap
<1>5. Spec => [][FirstSends(accepted', phase)]_vars
  BY <1>1, <1>2, <1>3, <1>4, InitSlots, NextSlots, PTL DEF Spec
<1> QED BY <1>5, PTL DEF SendsInOrder, FirstSends
=============================================================================
