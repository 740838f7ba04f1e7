------------------------------ MODULE Forwarder ------------------------------
(***************************************************************************)
(* The webhook plugin's batch window (src/src/webhook/index.ts), between   *)
(* the event bus and the delivery queue, which is Delivery's: here it only *)
(* takes what `enqueue` hands it.  Events are numbered as they are emitted;*)
(* those that do not cross the wire have no number.                         *)
(***************************************************************************)
EXTENDS Integers, Sequences, SequencesExt

CONSTANT MaxBatch     \* maxBatchSize

ASSUME BatchAssumption == MaxBatch \in Nat \ {0}

VARIABLES windowed,   \* batchWindowMs > 0
          queue,      \* the delivery queue: "none", "open" or "closed"
          window,     \* `pending`: collected, not posted
          timer,      \* the variable of the window's timer: "unset" or "armed"
          posted      \* the batches handed to the queue, in order

forwarderVars == <<windowed, queue, window, timer, posted>>

ForwarderInit ==
  /\ windowed \in BOOLEAN
  /\ queue = "none" /\ window = <<>> /\ timer = "unset" /\ posted = <<>>

\* post's loop: es, cut into batches of at most maxBatchSize.
Chunks(es) ==
  [i \in 1..((Len(es) + MaxBatch - 1) \div MaxBatch) |->
     SubSeq(es, (i - 1) * MaxBatch + 1, IF i * MaxBatch < Len(es) THEN i * MaxBatch ELSE Len(es))]

\* Without a queue, post does nothing.
Post(es) == posted' = IF queue = "none" THEN posted ELSE posted \o Chunks(es)

Disarmed == "unset"

\* flush, with es the window's content.
FlushOf(es) ==
  /\ timer' = Disarmed
  /\ window' = <<>>
  /\ Post(es)

WindowFull(es) == Len(es) >= MaxBatch

\* collect, for a batch that has es left after the names were filtered.
Collect(es) ==
  /\ IF es = <<>> THEN UNCHANGED <<window, timer, posted>>
     ELSE IF ~windowed THEN Post(es) /\ UNCHANGED <<window, timer>>
     ELSE IF WindowFull(window \o es) THEN FlushOf(window \o es)
     ELSE /\ window' = window \o es
          /\ timer' = IF timer = "unset" THEN "armed" ELSE timer
          /\ UNCHANGED posted
  /\ UNCHANGED <<windowed, queue>>

\* The window's timer fires, or the application calls flush().
WindowEnds == timer = "armed" /\ FlushOf(window) /\ UNCHANGED <<windowed, queue>>
FlushCall == FlushOf(window) /\ UNCHANGED <<windowed, queue>>

\* setup: a new queue.
ForwarderOpens == queue' = "open" /\ UNCHANGED <<windowed, window, timer, posted>>

\* Mutant of Remainder: dispose closes without flushing.
RemainderDropped == <<>>

Remainder == window

\* dispose: flush, then close the queue, if there is one.
ForwarderCloses ==
  /\ FlushOf(Remainder)
  /\ queue' = IF queue = "open" THEN "closed" ELSE queue
  /\ UNCHANGED windowed

PostedEvents == FlattenSeq(posted)
=============================================================================
