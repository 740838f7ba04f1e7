------------------------------ MODULE SendQueue ------------------------------
(***************************************************************************)
(* The send queue of one session (src/src/messaging/queue.ts), the send    *)
(* path its tasks run (session.ts send, messaging/send.ts) and the         *)
(* deadline around the driver call (utils/timeout.ts).                      *)
(*                                                                          *)
(* A job is one call of Session.send.  The deadline is not a cancellation: *)
(* a driver call that timed out stays in `wire` until the driver returns.  *)
(***************************************************************************)
EXTENDS Integers, Sequences, FiniteSets

CONSTANTS Job,          \* calls of send
          Drainer,      \* calls of drain, those made by stop included
          Concurrency,  \* config.send.concurrency
          MaxQueue,     \* config.send.maxQueue
          MinDelay,     \* config.send.minDelayMs
          HasDeadline,  \* config.send.timeoutMs > 0
          MaxLate,      \* bound: how late a timer may fire
          MaxNow,       \* bound of the clock while no job sleeps
          MaxEpoch      \* bound: connections of the session

ASSUME JobAssumption == IsFiniteSet(Job)
ASSUME LimitAssumption == Concurrency \in Nat \ {0} /\ MaxQueue \in Nat \ {0}
ASSUME TimeAssumption == MinDelay \in Nat /\ MaxLate \in Nat /\ MaxNow \in Nat
ASSUME DeadlineAssumption == HasDeadline \in BOOLEAN /\ MaxEpoch \in Nat

VARIABLES closed, waiting, running, lastStart,  \* the fields of SendQueue
          phase,    \* where each job is
          answer,   \* what its promise settled with
          startAt,  \* the start reserved for it
          drain,    \* the promises handed out by drain()
          stopped,  \* the drains that a stop made
          wire,     \* driver calls that have not returned
          open,     \* the session is open
          epoch,    \* connections so far
          now,
          accepted, lastSent  \* history: order, and the last real start

fields == <<closed, waiting, running, lastStart>>
jobs == <<phase, answer, startAt>>
session == <<open, epoch>>
drains == <<drain, stopped>>
history == <<accepted, lastSent>>

vars == <<fields, jobs, drains, wire, session, now, history>>

Init ==
  /\ closed = FALSE /\ waiting = <<>> /\ running = 0
  /\ lastStart = 0 - MinDelay
  /\ phase = [j \in Job |-> "new"]
  /\ answer = [j \in Job |-> "none"]
  /\ startAt = [j \in Job |-> 0]
  /\ drain = [d \in Drainer |-> "out"] /\ stopped = {}
  /\ wire = {}
  /\ open = TRUE /\ epoch = 1
  /\ now = 0
  /\ accepted = <<>> /\ lastSent = 0 - MinDelay

-----------------------------------------------------------------------------
(* #pump                                                                     *)

\* #requireOpen: a socket, and a session that may send.
Sendable == open

\* The task: #requireOpen again, then the driver call.  A session that went
\* down meanwhile fails the job without a driver call.
RunTask(j, ph) ==
  IF Sendable
  THEN /\ phase' = [ph EXCEPT ![j] = "running"]
       /\ wire' = wire \cup {j}
       /\ lastSent' = now
       /\ UNCHANGED answer
  ELSE /\ phase' = [ph EXCEPT ![j] = "settled"]
       /\ answer' = [answer EXCEPT ![j] = "failed"]
       /\ UNCHANGED <<wire, lastSent>>

\* Mutant of StartOf: no gap after the previous start.
StartOfNow == now

\* Mutant of StartOf: the gap counts from the last send, not the last reservation.
StartOfUnreserved == IF lastSent + MinDelay > now THEN lastSent + MinDelay ELSE now

\* The later of now and the gap after the last start that was reserved.
StartOf == IF lastStart + MinDelay > now THEN lastStart + MinDelay ELSE now

SlotFree(r) == r < Concurrency

\* One #pump over the waiting list w with r slots taken.  The start is
\* reserved before the sleep, if there is one to sleep.
Pump(w, r, ph) ==
  IF SlotFree(r) /\ w # <<>>
  THEN /\ waiting' = Tail(w)
       /\ running' = r + 1
       /\ lastStart' = StartOf
       /\ startAt' = [startAt EXCEPT ![Head(w)] = StartOf]
       /\ IF StartOf > now
          THEN /\ phase' = [ph EXCEPT ![Head(w)] = "reserved"]
               /\ UNCHANGED <<answer, wire, lastSent>>
          ELSE RunTask(Head(w), ph)
  ELSE /\ waiting' = w /\ running' = r /\ phase' = ph
       /\ UNCHANGED <<lastStart, startAt, answer, wire, lastSent>>

-----------------------------------------------------------------------------
(* The operations                                                            *)

Full == Len(waiting) >= MaxQueue

\* send(): refused at once when the session is down, or the queue closed or full.
Push(j) ==
  /\ phase[j] = "new"
  /\ IF ~Sendable \/ closed \/ Full
     THEN /\ phase' = [phase EXCEPT ![j] = "done"]
          /\ answer' = [answer EXCEPT ![j] = "refused"]
          /\ UNCHANGED <<waiting, running, lastStart, startAt, wire, history>>
     ELSE /\ accepted' = Append(accepted, j)
          /\ Pump(Append(waiting, j), running, [phase EXCEPT ![j] = "waiting"])
  /\ UNCHANGED <<closed, drains, session, now>>

\* The sleep before a start is over; the timer may fire late.
Wake(j) ==
  /\ phase[j] = "reserved" /\ startAt[j] <= now
  /\ RunTask(j, phase)
  /\ UNCHANGED <<fields, startAt, drains, session, now, accepted>>

\* The driver call returns.  If the job timed out before, nobody hears of it.
DriverReturns(j) ==
  /\ j \in wire
  /\ wire' = wire \ {j}
  /\ IF phase[j] = "running"
     THEN /\ phase' = [phase EXCEPT ![j] = "settled"]
          /\ \E a \in {"sent", "failed"} : answer' = [answer EXCEPT ![j] = a]
     ELSE UNCHANGED <<phase, answer>>
  /\ UNCHANGED <<fields, startAt, drains, session, now, history>>

DeadlineArmed == HasDeadline

\* withTimeout gives up waiting; the driver call goes on.
TimeOut(j) ==
  /\ DeadlineArmed
  /\ phase[j] = "running"
  /\ phase' = [phase EXCEPT ![j] = "settled"]
  /\ answer' = [answer EXCEPT ![j] = "timeout"]
  /\ UNCHANGED <<fields, startAt, drains, wire, session, now, history>>

\* Mutant of SettleIdle: the jobs still running are not waited for.
SettleWaiting(r, w) ==
  drain' = [d \in Drainer |-> IF drain[d] = "asked" /\ w = <<>> THEN "done" ELSE drain[d]]

\* Mutant of SettleIdle: nobody is told.
SettleNobody(r, w) == UNCHANGED drain

\* #settleIdle with r slots taken and the list w: every drain resolves.
SettleIdle(r, w) ==
  drain' = [d \in Drainer |->
              IF drain[d] = "asked" /\ r = 0 /\ w = <<>> THEN "done" ELSE drain[d]]

\* Mutant of SlotsAfter: a finished job keeps its slot.
SlotsKept == running

SlotsAfter == running - 1

\* The worker's finally: free the slot, start the next job or settle the drains.
Finish(j) ==
  /\ phase[j] = "settled"
  /\ Pump(waiting, SlotsAfter, [phase EXCEPT ![j] = "done"])
  /\ IF waiting # <<>> THEN UNCHANGED drain ELSE SettleIdle(SlotsAfter, waiting)
  /\ UNCHANGED <<closed, stopped, session, now, accepted>>

\* drain() resolves at once when the queue is idle.
Drain(d) ==
  /\ drain[d] = "out"
  /\ drain' = [drain EXCEPT ![d] = IF running = 0 /\ waiting = <<>> THEN "done" ELSE "asked"]
  /\ UNCHANGED <<fields, jobs, stopped, wire, session, now, history>>

\* The jobs close() rejects.
Unstarted(j) == phase[j] = "waiting"

\* stop(): the session leaves `open`, then close() and drain().
Stop(d) ==
  /\ drain[d] = "out"
  /\ open' = FALSE
  /\ closed' = TRUE
  /\ waiting' = <<>>
  /\ phase' = [j \in Job |-> IF Unstarted(j) THEN "done" ELSE phase[j]]
  /\ answer' = [j \in Job |-> IF Unstarted(j) THEN "closed" ELSE answer[j]]
  /\ stopped' = stopped \cup {d}
  /\ drain' = [e \in Drainer |->
                 IF e = d \/ drain[e] = "asked"
                 THEN (IF running = 0 THEN "done" ELSE "asked") ELSE drain[e]]
  /\ UNCHANGED <<running, lastStart, startAt, wire, epoch, now, history>>

-----------------------------------------------------------------------------
(* The session around the queue, and time                                    *)

\* The connection is lost.  The queue is not told.
Drop ==
  /\ open
  /\ open' = FALSE
  /\ UNCHANGED <<fields, jobs, drains, wire, epoch, now, history>>

\* The session reconnects; only a stopped one gets a new queue.
Reopen ==
  /\ ~open /\ ~closed /\ epoch < MaxEpoch
  /\ open' = TRUE
  /\ epoch' = epoch + 1
  /\ UNCHANGED <<fields, jobs, drains, wire, now, history>>

Sleepers == {j \in Job : phase[j] = "reserved"}

Tick ==
  /\ now < MaxNow \/ \E j \in Sleepers : startAt[j] > now
  /\ \A j \in Sleepers : now < startAt[j] + MaxLate
  /\ now' = now + 1
  /\ UNCHANGED <<fields, jobs, drains, wire, session, history>>

Next ==
  \/ \E j \in Job : Push(j) \/ Wake(j) \/ DriverReturns(j) \/ TimeOut(j) \/ Finish(j)
  \/ \E d \in Drainer : Drain(d) \/ Stop(d)
  \/ Drop \/ Reopen \/ Tick

Spec == Init /\ [][Next]_vars

\* Timers fire, and continuations run.  The driver owes no answer.
Fairness ==
  /\ WF_vars(Tick)
  /\ \A j \in Job : WF_vars(Wake(j)) /\ WF_vars(TimeOut(j)) /\ WF_vars(Finish(j))

FairSpec == Spec /\ Fairness

-----------------------------------------------------------------------------
(* Properties                                                               *)

Phases == {"new", "waiting", "reserved", "running", "settled", "done"}
Answers == {"none", "sent", "failed", "timeout", "refused", "closed"}

\* The types, with the slots never exceeding config.send.concurrency.
TypeOK ==
  /\ closed \in BOOLEAN /\ waiting \in Seq(Job) /\ running \in 0..Concurrency
  /\ lastStart \in Int
  /\ phase \in [Job -> Phases] /\ answer \in [Job -> Answers] /\ startAt \in [Job -> Int]
  /\ drain \in [Drainer -> {"out", "asked", "done"}] /\ stopped \subseteq Drainer
  /\ wire \subseteq Job
  /\ open \in BOOLEAN /\ epoch \in Nat /\ now \in Nat
  /\ accepted \in Seq(Job) /\ lastSent \in Int

InSlot == {j \in Job : phase[j] \in {"reserved", "running", "settled"}}

\* The counter is the number of workers between taking a job and the end of
\* its finally, and within the configured concurrency: no path through a
\* failed, late or refused job leaks a slot or frees one twice.
SlotsAreCounted == TypeOK /\ running = Cardinality(InSlot)

\* Nothing waits while a slot is free: each finished job starts at most one,
\* and that is enough to keep every slot busy.
NoIdleSlot == waiting # <<>> => running = Concurrency

\* queue.ts:149-157: a slot is held exactly while its worker runs, and none
\* stands free while a job waits.
SlotsAreUsed == SlotsAreCounted /\ NoIdleSlot

\* When the drain of a stop resolves, the queue runs nothing and never will.
StoppedIsQuiet ==
  \A d \in stopped : drain[d] = "done" => InSlot = {} /\ waiting = <<>>

Position(s, j) == CHOOSE i \in DOMAIN s : s[i] = j
Sends(j) == j \in wire' \ wire

\* Messages reach the driver in the order their sends were accepted.
SendsInOrder ==
  [][\A j, k \in Job :
       Sends(j) /\ k # j /\ phase[k] \in {"waiting", "reserved"} =>
         Position(accepted', j) < Position(accepted', k)]_vars

\* Two messages start at least minDelayMs apart, but for what a timer is late:
\* spec/config.yaml:54, "enforced gap between sends".
GapBetweenSends ==
  [][\A j \in Job : Sends(j) => lastSent + MinDelay <= now + MaxLate]_vars

\* Every caller gets an answer, even from a driver that never answers, and
\* every drain resolves, so that a stop does not hang on its queue.
EveryoneIsAnswered ==
  /\ \A j \in Job : phase[j] = "waiting" ~> answer[j] # "none"
  /\ \A d \in Drainer : drain[d] = "asked" ~> drain[d] = "done"
=============================================================================
