------------------------------- MODULE Delivery -------------------------------
(***************************************************************************)
(* The webhook delivery queue (src/src/webhook/delivery.ts): batches are   *)
(* posted one at a time, retried in place, and settled by their receiver,  *)
(* by the retry schedule or by the shutdown deadline.  The receiver and    *)
(* the network are the outcomes of a post.  Delays are abstract: a sleep   *)
(* ends when it ends; the clock only decides the shutdown deadline.         *)
(***************************************************************************)
EXTENDS Integers, Sequences, FiniteSets

CONSTANTS Batch,        \* calls of enqueue
          Waiter,       \* calls of close and idle
          MaxQueue, MaxAttempts, Grace,  \* maxQueue, retry.maxAttempts, drainTimeoutMs
          MaxNow        \* bound of the clock

ASSUME LimitAssumption == MaxQueue \in Nat \ {0} /\ MaxAttempts \in Nat \ {0}
ASSUME TimeAssumption == Grace \in Nat /\ MaxNow \in Nat

VARIABLES queue,      \* #queue: the head stays in it while it is delivered
          attempts, fate,
          pc,         \* the pump: "off", or where its loop awaits
          result,     \* what the last post came back with
          aborted,    \* the in-flight request was aborted
          closing, deadline,
          graceTimer, \* close() waits with its timer armed
          waiter, closers,
          now,
          accepted, arrived  \* history: order of acceptance, and what the receiver has seen

batches == <<queue, attempts, fate>>
pump == <<pc, result, aborted>>
shutdown == <<closing, deadline>>
waiters == <<waiter, closers, graceTimer>>
history == <<accepted, arrived>>

vars == <<batches, pump, shutdown, waiters, now, history>>

Never == 0 - 1

Init ==
  /\ queue = <<>>
  /\ attempts = [b \in Batch |-> 0] /\ fate = [b \in Batch |-> "unseen"]
  /\ pc = "off" /\ result = "none" /\ aborted = FALSE
  /\ closing = FALSE /\ deadline = Never
  /\ graceTimer = FALSE /\ waiter = [w \in Waiter |-> "out"] /\ closers = {}
  /\ now = 0
  /\ accepted = <<>> /\ arrived = {}

-----------------------------------------------------------------------------
(* The pump                                                                  *)

Pumping == pc # "off"

Expired == deadline # Never /\ now >= deadline

\* #settleIdle, reached with an empty queue and the pump at p.  The close
\* that waits clears its timer when it resolves.
SettleIdle(p) ==
  IF p = "off"
  THEN /\ waiter' = [w \in Waiter |-> IF waiter[w] = "asked" THEN "done" ELSE waiter[w]]
       /\ graceTimer' = FALSE
  ELSE UNCHANGED <<waiter, graceTimer>>

\* The deliveries of q, all dead-lettered by the shutdown.
Flushed(q, f) == [b \in Batch |-> IF \E i \in DOMAIN q : q[i] = b THEN "shutdown" ELSE f[b]]

\* Mutant of HasMore: the loop handles one delivery.
HasMoreNever(q) == FALSE

HasMore(q) == q # <<>>

\* The loops of #pump and #deliver, from their top to the next await: stop
\* when nothing is left, flush when the grace is over, else post the head.
Loop(q, f) ==
  IF HasMore(q) /\ ~Expired
  THEN /\ queue' = q /\ fate' = f
       /\ attempts' = [attempts EXCEPT ![Head(q)] = @ + 1]
       /\ pc' = "posting" /\ aborted' = FALSE
       /\ UNCHANGED <<waiter, graceTimer>>
  ELSE /\ queue' = IF HasMore(q) THEN <<>> ELSE q
       /\ fate' = IF HasMore(q) THEN Flushed(q, f) ELSE f
       /\ pc' = "off"
       /\ SettleIdle("off")
       /\ UNCHANGED <<attempts, aborted>>

\* fetch settles: answered, refused, or failed in a way worth retrying.  A
\* failed post may have reached the receiver.  An abort is a transport error.
PostEnds(r) ==
  /\ pc = "posting"
  /\ aborted => r = "retry"
  /\ result' = r
  /\ arrived' \in (IF r = "retry" THEN {arrived} ELSE {}) \cup {arrived \cup {Head(queue)}}
  /\ pc' = "posted"
  /\ aborted' = FALSE
  /\ UNCHANGED <<batches, shutdown, waiters, now, accepted>>

LastAttempt(b) == attempts[b] >= MaxAttempts

\* Mutant of Shifted: the settled delivery stays at the head.
NotShifted == queue

Shifted == Tail(queue)

\* Mutant of Retried: a retry lets the delivery behind it go first.
RetriedLast == Append(Tail(queue), Head(queue))

Retried == queue

\* The result of the post is read: the head is settled, or backs off.
Continue ==
  /\ pc = "posted"
  /\ result' = "none"
  /\ LET b == Head(queue)
         settled == CASE result = "ok" -> "delivered"
                      [] result = "reject" -> "rejected"
                      [] OTHER -> "exhausted"
     IN IF result = "retry" /\ ~LastAttempt(b)
        THEN /\ pc' = "sleeping"
             /\ queue' = Retried
             /\ UNCHANGED <<attempts, fate, aborted, waiters>>
        ELSE Loop(Shifted, [fate EXCEPT ![b] = settled]) /\ UNCHANGED closers
  /\ UNCHANGED <<shutdown, now, history>>

\* The backoff, or the receiver's Retry-After, is over.
SleepEnds ==
  /\ pc = "sleeping"
  /\ pc' = "woken"
  /\ UNCHANGED <<batches, result, aborted, shutdown, waiters, now, history>>

Woken ==
  /\ pc = "woken"
  /\ Loop(queue, fate)
  /\ UNCHANGED <<result, shutdown, closers, now, history>>

-----------------------------------------------------------------------------
(* The operations                                                            *)

Full == Len(queue) >= MaxQueue

\* Mutant of Accepting: a closing queue takes new work.
AcceptingAlways == TRUE

Accepting == ~closing

\* enqueue: why a batch is dead-lettered unsent, or "pending".
Admission(b, encodes) ==
  IF ~Accepting THEN "shutdown"
  ELSE IF ~encodes THEN "encode"
  ELSE IF Full THEN "overflow" ELSE "pending"

Enqueue(b) ==
  /\ fate[b] = "unseen"
  /\ \E encodes \in BOOLEAN :
       LET f == [fate EXCEPT ![b] = Admission(b, encodes)]
       IN IF f[b] # "pending"
          THEN fate' = f /\ UNCHANGED <<queue, attempts, pc, aborted, waiter, graceTimer, accepted>>
          ELSE /\ accepted' = Append(accepted, b)
               /\ IF Pumping
                  THEN /\ queue' = Append(queue, b) /\ fate' = f
                       /\ UNCHANGED <<attempts, pc, aborted, waiter, graceTimer>>
                  ELSE Loop(Append(queue, b), f)
  /\ UNCHANGED <<result, shutdown, closers, now, arrived>>

WakeSleeper == IF pc = "sleeping" THEN "woken" ELSE pc

\* #expire: abort the request in flight, wake the sleeper, flush if no pump will.
Expire ==
  /\ deadline' = 0
  /\ aborted' = (pc = "posting")
  /\ pc' = WakeSleeper
  /\ IF Pumping THEN UNCHANGED <<queue, fate>>
     ELSE queue' = <<>> /\ fate' = Flushed(queue, fate)
  /\ UNCHANGED <<attempts, result>>

IdleNow == ~Pumping /\ queue = <<>>

\* close(), the first one and any other.  Its idle() follows at once.
Close(w) ==
  /\ waiter[w] = "out"
  /\ closing' = TRUE
  /\ closers' = closers \cup {w}
  /\ waiter' = [waiter EXCEPT ![w] = IF IdleNow THEN "done" ELSE "asked"]
  /\ IF closing
     THEN UNCHANGED <<batches, pump, deadline, graceTimer>>
     ELSE IF Grace = 0
          THEN Expire /\ UNCHANGED graceTimer
          ELSE /\ deadline' = now + Grace
               /\ graceTimer' = ~IdleNow
               /\ UNCHANGED <<batches, pump>>
  /\ UNCHANGED <<now, history>>

WaitIdle(w) ==
  /\ waiter[w] = "out"
  /\ waiter' = [waiter EXCEPT ![w] = IF IdleNow THEN "done" ELSE "asked"]
  /\ UNCHANGED <<batches, pump, shutdown, closers, graceTimer, now, history>>

\* The grace of the close is over.  The timer may fire late.
GraceFires ==
  /\ graceTimer
  /\ now >= deadline
  /\ Expire
  /\ graceTimer' = FALSE
  /\ UNCHANGED <<closing, waiter, closers, now, history>>

Tick ==
  /\ now < MaxNow
  /\ now' = now + 1
  /\ UNCHANGED <<batches, pump, shutdown, waiters, history>>

PumpStep == (\E r \in {"ok", "retry", "reject"} : PostEnds(r)) \/ Continue \/ SleepEnds \/ Woken

Next ==
  \/ PumpStep
  \/ \E b \in Batch : Enqueue(b)
  \/ \E w \in Waiter : Close(w) \/ WaitIdle(w)
  \/ GraceFires \/ Tick

Spec == Init /\ [][Next]_vars

\* The pump is never starved: every post ends by its own timeout, every sleep
\* by its timer.  Nothing is asked of the receiver or of the callers.
FairSpec == Spec /\ WF_vars(PumpStep)

-----------------------------------------------------------------------------
(* Properties                                                               *)

\* The types, with the queue within maxQueue and no delivery attempted more
\* often than the schedule grants.
TypeOK ==
  /\ queue \in Seq(Batch) /\ Len(queue) <= MaxQueue
  /\ attempts \in [Batch -> 0..MaxAttempts]
  /\ fate \in [Batch -> {"unseen", "pending", "delivered", "shutdown", "encode", "overflow",
                         "rejected", "exhausted"}]
  /\ pc \in {"off", "posting", "posted", "sleeping", "woken"}
  /\ result \in {"none", "ok", "retry", "reject"} /\ aborted \in BOOLEAN
  /\ closing \in BOOLEAN /\ deadline \in Nat \cup {Never} /\ graceTimer \in BOOLEAN
  /\ waiter \in [Waiter -> {"out", "asked", "done"}] /\ closers \subseteq Waiter
  /\ now \in Nat /\ accepted \in Seq(Batch) /\ arrived \subseteq Batch

\* Every accepted batch is settled once, in order, and only a shutdown gives
\* up a batch that was not next: the outbox this queue stands for.
Contract == INSTANCE Outbox WITH pending <- queue
OutboxContract == Contract!OutboxSpec

\* "a retry never overtakes the delivery behind it", and nothing overtakes a
\* retry (spec/webhook.md:107-108): a batch reaches the receiver only when
\* every batch accepted before it is settled.
ReceivedInOrder ==
  [][\A i, k \in DOMAIN accepted :
       i < k /\ accepted[k] \in arrived' \ arrived => fate[accepted[i]] # "pending"]_vars

\* A close that resolved left nothing behind, and nothing comes after it; no
\* delivery was attempted more often than its schedule grants.
ClosedIsFinal ==
  /\ TypeOK
  /\ \A w \in closers : waiter[w] = "done" => pc = "off" /\ queue = <<>>

\* "Cuts the shutdown grace short: abort what is in flight and stop waiting"
\* (delivery.ts:277), "so a long backoff cannot outlive the process" (:434).
NoSleepAfterGrace == deadline = 0 => pc # "sleeping"

\* Every batch accepted is settled, whatever the receiver does, and every
\* close and every idle resolves: no enqueue meets a pump on its way out and
\* is left behind, and no shutdown waits for ever.
WorkSettles ==
  /\ \A b \in Batch : fate[b] = "pending" ~> fate[b] # "pending"
  /\ \A w \in Waiter : waiter[w] = "asked" ~> waiter[w] = "done"
=============================================================================
