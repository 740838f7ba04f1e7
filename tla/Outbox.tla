-------------------------------- MODULE Outbox --------------------------------
(***************************************************************************)
(* What the webhook forwarder promises of every batch handed to it         *)
(* (src/src/webhook/delivery.ts): it is settled exactly once, delivered or *)
(* dead-lettered with a reason, and batches are settled in the order they  *)
(* were accepted.  Only a shutdown settles what was never tried.           *)
(***************************************************************************)
EXTENDS Sequences

CONSTANT Batch

VARIABLES pending,  \* accepted and not settled, oldest first
          fate      \* "unseen", "pending", "delivered", or the dead letter's reason

outboxVars == <<pending, fate>>

Reasons == {"shutdown", "encode", "overflow", "rejected", "exhausted"}

OutboxInit == pending = <<>> /\ fate = [b \in Batch |-> "unseen"]

Accept(b) ==
  /\ fate[b] = "unseen"
  /\ fate' = [fate EXCEPT ![b] = "pending"]
  /\ pending' = Append(pending, b)

Refuse(b, r) ==
  /\ fate[b] = "unseen"
  /\ fate' = [fate EXCEPT ![b] = r]
  /\ UNCHANGED pending

\* The oldest is settled by its receiver, or given up, or the shutdown cuts
\* it short together with everything behind it.
Settle(f) ==
  /\ pending # <<>>
  /\ fate' = [fate EXCEPT ![Head(pending)] = f]
  /\ pending' = Tail(pending)

Flush(f) ==
  /\ pending # <<>>
  /\ fate' = [b \in Batch |-> IF fate[b] = "pending"
                              THEN (IF b = Head(pending) THEN f ELSE "shutdown")
                              ELSE fate[b]]
  /\ pending' = <<>>

OutboxNext ==
  \/ \E b \in Batch : Accept(b) \/ \E r \in {"shutdown", "encode", "overflow"} : Refuse(b, r)
  \/ \E f \in {"delivered", "rejected", "exhausted", "shutdown"} : Settle(f) \/ Flush(f)

OutboxSpec == OutboxInit /\ [][OutboxNext]_outboxVars
=============================================================================
