---------------------------- MODULE DeliveryProofs ----------------------------
(***************************************************************************)
(* Delivery for any batches, any callers of close and idle, any list       *)
(* length, number of attempts, grace and bound of the clock, and its       *)
(* refinement of Outbox.                                                    *)
(***************************************************************************)
EXTENDS Delivery, SequenceTheorems, TLAPS

Fates == {"unseen", "pending", "delivered", "shutdown", "encode", "overflow",
          "rejected", "exhausted"}

-----------------------------------------------------------------------------
(* The queue is the end of the order of acceptance                          *)

\* The list q is the last part of the order s, in which no batch is twice;
\* the pending batches are those of q, and those of s are not unseen.
Window(q, s, f) ==
  /\ q \in Seq(Batch) /\ s \in Seq(Batch) /\ f \in [Batch -> Fates]
  /\ Len(q) <= Len(s)
  /\ \A i, k \in 1..Len(s) : s[i] = s[k] => i = k
  /\ \A i \in 1..Len(q) : q[i] = s[Len(s) - Len(q) + i]
  /\ \A b \in Batch : f[b] = "pending" <=> \E i \in 1..Len(q) : q[i] = b
  /\ \A i \in 1..Len(s) : f[s[i]] # "unseen"

LEMMA WindowAccepts ==
  ASSUME NEW q, NEW s, NEW f, Window(q, s, f), NEW b \in Batch, f[b] = "unseen"
  PROVE  Window(Append(q, b), Append(s, b), [f EXCEPT ![b] = "pending"])
<1> DEFINE g == [f EXCEPT ![b] = "pending"]
<1>1. /\ q \in Seq(Batch) /\ s \in Seq(Batch) /\ f \in [Batch -> Fates]
      /\ Len(q) \in Nat /\ Len(s) \in Nat /\ Len(q) <= Len(s)
      /\ \A i \in 1..Len(q) : q[i] \in Batch
      /\ \A i \in 1..Len(s) : s[i] \in Batch /\ s[i] # b
  BY LenProperties, ElementOfSeq DEF Window
<1>2. /\ Append(q, b) \in Seq(Batch) /\ Len(Append(q, b)) = Len(q) + 1
      /\ \A i \in 1..Len(q) : Append(q, b)[i] = q[i]
      /\ Append(q, b)[Len(q) + 1] = b
  BY <1>1, AppendProperties
<1>3. /\ Append(s, b) \in Seq(Batch) /\ Len(Append(s, b)) = Len(s) + 1
      /\ \A i \in 1..Len(s) : Append(s, b)[i] = s[i]
      /\ Append(s, b)[Len(s) + 1] = b
  BY <1>1, AppendProperties
<1>4. /\ g \in [Batch -> Fates] /\ g[b] = "pending" /\ \A c \in Batch \ {b} : g[c] = f[c]
  BY <1>1 DEF Fates
<1>5. \A i, k \in 1..(Len(s) + 1) : Append(s, b)[i] = Append(s, b)[k] => i = k
  BY <1>1, <1>3 DEF Window
<1>6. \A i \in 1..(Len(q) + 1) : Append(q, b)[i] = Append(s, b)[Len(s) + 1 - (Len(q) + 1) + i]
  <2> SUFFICES ASSUME NEW i \in 1..(Len(q) + 1)
               PROVE  Append(q, b)[i] = Append(s, b)[Len(s) - Len(q) + i]
    BY <1>1
  <2>1. CASE i \in 1..Len(q)
    <3>1. Len(s) - Len(q) + i \in 1..Len(s) /\ q[i] = s[Len(s) - Len(q) + i]
      BY <1>1, <2>1 DEF Window
    <3> QED BY <1>2, <1>3, <2>1, <3>1
  <2>2. CASE i = Len(q) + 1
    BY <1>1, <1>2, <1>3, <2>2
  <2> QED BY <1>1, <2>1, <2>2
<1>7. \A c \in Batch : g[c] = "pending" <=> \E i \in 1..(Len(q) + 1) : Append(q, b)[i] = c
  BY <1>1, <1>2, <1>4 DEF Window
<1>8. \A i \in 1..(Len(s) + 1) : g[Append(s, b)[i]] # "unseen"
  <2>1. \A i \in 1..Len(s) : g[Append(s, b)[i]] # "unseen"
    BY <1>1, <1>3, <1>4 DEF Window
  <2> QED BY <1>1, <1>3, <1>4, <2>1
<1> HIDE DEF g
<1>9. Len(q) + 1 <= Len(s) + 1
  BY <1>1
<1> DEFINE q2 == Append(q, b)
           s2 == Append(s, b)
<1>10. /\ q2 \in Seq(Batch) /\ s2 \in Seq(Batch) /\ Len(q2) = Len(q) + 1 /\ Len(s2) = Len(s) + 1
       /\ \A i, k \in 1..(Len(s) + 1) : s2[i] = s2[k] => i = k
       /\ \A i \in 1..(Len(q) + 1) : q2[i] = s2[Len(s) + 1 - (Len(q) + 1) + i]
       /\ \A c \in Batch : g[c] = "pending" <=> \E i \in 1..(Len(q) + 1) : q2[i] = c
       /\ \A i \in 1..(Len(s) + 1) : g[s2[i]] # "unseen"
  BY <1>2, <1>3, <1>5, <1>6, <1>7, <1>8
<1> HIDE DEF q2, s2
<1>11. Len(q2) <= Len(s2)
  BY <1>9, <1>10
<1>12. \A i, k \in 1..Len(s2) : s2[i] = s2[k] => i = k
  BY <1>10
<1>13. \A i \in 1..Len(q2) : q2[i] = s2[Len(s2) - Len(q2) + i]
  BY <1>10
<1>14. \A c \in Batch : g[c] = "pending" <=> \E i \in 1..Len(q2) : q2[i] = c
  BY <1>10
<1>15. \A i \in 1..Len(s2) : g[s2[i]] # "unseen"
  BY <1>10
<1>16. Window(q2, s2, g)
  BY <1>4, <1>10, <1>11, <1>12, <1>13, <1>14, <1>15 DEF Window
<1> QED BY <1>16 DEF g, q2, s2

LEMMA WindowSettles ==
  ASSUME NEW q, NEW s, NEW f, Window(q, s, f), q # <<>>,
         NEW r \in Fates \ {"unseen", "pending"}
  PROVE  /\ Head(q) \in Batch /\ f[Head(q)] = "pending"
         /\ Window(Tail(q), s, [f EXCEPT ![Head(q)] = r])
<1> DEFINE g == [f EXCEPT ![Head(q)] = r]
<1>1. /\ q \in Seq(Batch) /\ s \in Seq(Batch) /\ f \in [Batch -> Fates]
      /\ Len(q) \in Nat \ {0} /\ Len(s) \in Nat /\ Len(q) <= Len(s)
      /\ Head(q) = q[1] /\ Head(q) \in Batch
      /\ Tail(q) \in Seq(Batch) /\ Len(Tail(q)) = Len(q) - 1
      /\ \A i \in 1..(Len(q) - 1) : Tail(q)[i] = q[i + 1]
  BY EmptySeq, LenProperties, HeadTailProperties DEF Window
<1>2. f[Head(q)] = "pending"
  BY <1>1 DEF Window
<1>3. /\ g \in [Batch -> Fates] /\ g[Head(q)] = r
      /\ \A c \in Batch : c # Head(q) => g[c] = f[c]
  BY <1>1
<1>4. \A i, k \in 1..Len(q) : q[i] = q[k] => i = k
  <2> SUFFICES ASSUME NEW i \in 1..Len(q), NEW k \in 1..Len(q), q[i] = q[k] PROVE i = k
    OBVIOUS
  <2>1. /\ Len(s) - Len(q) + i \in 1..Len(s) /\ Len(s) - Len(q) + k \in 1..Len(s)
        /\ s[Len(s) - Len(q) + i] = s[Len(s) - Len(q) + k]
    BY <1>1 DEF Window
  <2>2. Len(s) - Len(q) + i = Len(s) - Len(q) + k
    BY <2>1 DEF Window
  <2> QED BY <1>1, <2>2
<1>5. \A i \in 1..(Len(q) - 1) : Tail(q)[i] = s[Len(s) - (Len(q) - 1) + i]
  <2> SUFFICES ASSUME NEW i \in 1..(Len(q) - 1) PROVE Tail(q)[i] = s[Len(s) - (Len(q) - 1) + i]
    OBVIOUS
  <2>1. i + 1 \in 1..Len(q) /\ Len(s) - Len(q) + (i + 1) = Len(s) - (Len(q) - 1) + i
    BY <1>1
  <2>2. q[i + 1] = s[Len(s) - Len(q) + (i + 1)]
    BY <2>1 DEF Window
  <2> QED BY <1>1, <2>1, <2>2
<1>6. \A c \in Batch : g[c] = "pending" <=> \E i \in 1..(Len(q) - 1) : Tail(q)[i] = c
  <2> SUFFICES ASSUME NEW c \in Batch
               PROVE  g[c] = "pending" <=> \E i \in 1..(Len(q) - 1) : Tail(q)[i] = c
    OBVIOUS
  <2>1. CASE c = Head(q)
    <3>1. \A i \in 1..(Len(q) - 1) : Tail(q)[i] # c
      BY <1>1, <1>4, <2>1
    <3> QED BY <1>3, <2>1, <3>1
  <2>2. CASE c # Head(q)
    <3>1. ASSUME NEW i \in 1..Len(q), q[i] = c PROVE \E k \in 1..(Len(q) - 1) : Tail(q)[k] = c
      <4>1. i - 1 \in 1..(Len(q) - 1) /\ Tail(q)[i - 1] = c
        BY <1>1, <2>2, <3>1
      <4> QED BY <4>1
    <3>2. ASSUME NEW i \in 1..(Len(q) - 1), Tail(q)[i] = c PROVE \E k \in 1..Len(q) : q[k] = c
      BY <1>1, <3>2
    <3> QED BY <1>3, <2>2, <3>1, <3>2 DEF Window
  <2> QED BY <2>1, <2>2
<1>7. \A i \in 1..Len(s) : g[s[i]] # "unseen"
  <2>1. \A i \in 1..Len(s) : s[i] \in Batch /\ f[s[i]] # "unseen"
    BY <1>1, ElementOfSeq DEF Window
  <2> QED BY <1>3, <2>1
<1> HIDE DEF g
<1>8. Window(Tail(q), s, g)
  BY <1>1, <1>3, <1>5, <1>6, <1>7 DEF Window
<1> QED BY <1>1, <1>2, <1>8 DEF g

LEMMA WindowRefuses ==
  ASSUME NEW q, NEW s, NEW f, Window(q, s, f), NEW b \in Batch, f[b] = "unseen",
         NEW r \in Fates \ {"unseen", "pending"}
  PROVE  Window(q, s, [f EXCEPT ![b] = r])
BY DEF Window

LEMMA WindowFlushes ==
  ASSUME NEW q, NEW s, NEW f, Window(q, s, f)
  PROVE  /\ Window(<<>>, s, Flushed(q, f))
         /\ \A b \in Batch : Flushed(q, f)[b] = IF f[b] = "pending" THEN "shutdown" ELSE f[b]
<1>1. q \in Seq(Batch) /\ DOMAIN q = 1..Len(q)
  BY LenProperties DEF Window
<1>2. Flushed(q, f) = [b \in Batch |-> IF f[b] = "pending" THEN "shutdown" ELSE f[b]]
  <2>1. \A b \in Batch : (\E i \in DOMAIN q : q[i] = b) <=> f[b] = "pending"
    BY <1>1 DEF Window
  <2> QED BY <2>1 DEF Flushed
<1>3. /\ s \in Seq(Batch) /\ \A i \in 1..Len(s) : s[i] \in Batch
      /\ Len(s) \in Nat /\ f \in [Batch -> Fates]
  BY ElementOfSeq, LenProperties DEF Window
<1>4. <<>> \in Seq(Batch) /\ Len(<<>>) = 0
  BY EmptySeq
<1>5. Window(<<>>, s, [b \in Batch |-> IF f[b] = "pending" THEN "shutdown" ELSE f[b]])
  BY <1>3, <1>4 DEF Window, Fates
<1> QED BY <1>2, <1>5

-----------------------------------------------------------------------------
(* The pump keeps the queue                                                 *)

\* The attempts that a queue q leaves to its batches: only its head was tried.
Schedule(q, f, at) ==
  /\ at \in [Batch -> 0..MaxAttempts]
  /\ Len(q) <= MaxQueue
  /\ \A b \in Batch : f[b] = "unseen" => at[b] = 0
  /\ \A i \in 2..Len(q) : at[q[i]] = 0

\* The types of the variables that no queue decides.
RestTyped ==
  /\ result \in {"none", "ok", "retry", "reject"} /\ aborted \in BOOLEAN
  /\ closing \in BOOLEAN /\ deadline \in Nat \cup {Never} /\ graceTimer \in BOOLEAN
  /\ waiter \in [Waiter -> {"out", "asked", "done"}] /\ closers \subseteq Waiter
  /\ now \in Nat /\ arrived \subseteq Batch

\* The pump runs exactly while something is queued, and what sleeps has an
\* attempt left.
PumpInv ==
  /\ pc \in {"off", "posting", "posted", "sleeping", "woken"}
  /\ Pumping <=> queue # <<>>
  /\ pc \in {"sleeping", "woken"} => attempts[Head(queue)] < MaxAttempts

DeliveryInv ==
  /\ Window(queue, accepted, fate)
  /\ Schedule(queue, fate, attempts)
  /\ PumpInv
  /\ RestTyped

\* From an await to the next: the pump of a queue q whose head may be tried.
LEMMA LoopKeeps ==
  ASSUME RestTyped, NEW q, NEW s, NEW f, Window(q, s, f), Schedule(q, f, attempts),
         q # <<>> => attempts[Head(q)] < MaxAttempts,
         Loop(q, f)
  PROVE  /\ Window(queue', s, fate') /\ Schedule(queue', fate', attempts')
         /\ pc' \in {"posting", "off"} /\ (pc' # "off" <=> queue' # <<>>)
         /\ aborted' \in BOOLEAN /\ graceTimer' \in BOOLEAN
         /\ waiter' \in [Waiter -> {"out", "asked", "done"}]
<1>1. /\ q \in Seq(Batch) /\ Len(q) \in Nat /\ \A i \in 1..Len(q) : q[i] \in Batch
      /\ f \in [Batch -> Fates]
  BY LenProperties, ElementOfSeq DEF Window
<1>2. CASE HasMore(q) /\ ~Expired
  <2>1. /\ q # <<>> /\ queue' = q /\ fate' = f /\ pc' = "posting" /\ aborted' = FALSE
        /\ attempts' = [attempts EXCEPT ![Head(q)] = @ + 1]
        /\ UNCHANGED <<waiter, graceTimer>>
    BY <1>2 DEF Loop, HasMore
  <2>2. Head(q) = q[1] /\ Head(q) \in Batch /\ Len(q) >= 1
    BY <1>1, <2>1, EmptySeq, HeadTailProperties
  <2>3. attempts[Head(q)] + 1 \in 0..MaxAttempts
    <3>1. attempts[Head(q)] \in 0..MaxAttempts
      BY <2>2 DEF Schedule
    <3> QED BY <2>1, <3>1, LimitAssumption
  <2>4. attempts' \in [Batch -> 0..MaxAttempts]
    BY <2>1, <2>2, <2>3 DEF Schedule
  <2>5. \A b \in Batch : f[b] = "unseen" => attempts'[b] = 0
    BY <2>1, <2>2 DEF Window, Schedule
  <2>6. \A i \in 2..Len(q) : attempts'[q[i]] = 0
    <3>1. \A i \in 2..Len(q) : q[i] # q[1]
      <4> SUFFICES ASSUME NEW i \in 2..Len(q), q[i] = q[1] PROVE FALSE
        OBVIOUS
      <4>1. /\ Len(s) \in Nat /\ Len(q) <= Len(s)
            /\ q[i] = s[Len(s) - Len(q) + i] /\ q[1] = s[Len(s) - Len(q) + 1]
        BY <1>1, <2>2, LenProperties DEF Window
      <4>2. Len(s) - Len(q) + i \in 1..Len(s) /\ Len(s) - Len(q) + 1 \in 1..Len(s)
        BY <1>1, <2>2, <4>1
      <4>3. Len(s) - Len(q) + i = Len(s) - Len(q) + 1
        BY <4>1, <4>2 DEF Window
      <4> QED BY <1>1, <4>1, <4>3
    <3>2. \A i \in 2..Len(q) : q[i] \in Batch
      BY <1>1
    <3> QED BY <2>1, <2>2, <3>1, <3>2 DEF Schedule
  <2> QED BY <2>1, <2>4, <2>5, <2>6 DEF Schedule, RestTyped
<1>3. CASE ~(HasMore(q) /\ ~Expired)
  <2>1. /\ pc' = "off" /\ UNCHANGED <<attempts, aborted>> /\ queue' = <<>>
        /\ fate' = IF HasMore(q) THEN Flushed(q, f) ELSE f
        /\ q = <<>> \/ HasMore(q)
    BY <1>3 DEF Loop, HasMore
  <2>2. graceTimer' \in BOOLEAN /\ waiter' \in [Waiter -> {"out", "asked", "done"}]
    BY <1>3 DEF Loop, SettleIdle, RestTyped
  <2>3. Window(queue', s, fate')
    BY <2>1, WindowFlushes DEF HasMore
  <2>4. \A b \in Batch : fate'[b] = "unseen" => f[b] = "unseen"
    <3>1. \A b \in Batch : Flushed(q, f)[b] = IF f[b] = "pending" THEN "shutdown" ELSE f[b]
      BY WindowFlushes
    <3> QED BY <2>1, <3>1
  <2>5. Schedule(queue', fate', attempts')
    BY <2>1, <2>4, EmptySeq, LimitAssumption DEF Schedule
  <2> QED BY <2>1, <2>2, <2>3, <2>5 DEF RestTyped
<1> QED BY <1>2, <1>3

LEMMA InitDelivery == Init => DeliveryInv
<1> SUFFICES ASSUME Init PROVE DeliveryInv
  OBVIOUS
<1>1. Window(queue, accepted, fate)
  BY EmptySeq DEF Init, Window, Fates
<1>2. Schedule(queue, fate, attempts)
  BY LimitAssumption, EmptySeq DEF Init, Schedule
<1> QED BY <1>1, <1>2 DEF Init, DeliveryInv, PumpInv, RestTyped, Pumping, Never

\* The head of a queue that is pumped is pending, and in the queue.
LEMMA PumpedHead ==
  ASSUME DeliveryInv, Pumping
  PROVE  /\ queue \in Seq(Batch) /\ queue # <<>> /\ Len(queue) \in Nat \ {0}
         /\ Head(queue) = queue[1] /\ Head(queue) \in Batch /\ fate[Head(queue)] = "pending"
         /\ Tail(queue) \in Seq(Batch) /\ Len(Tail(queue)) = Len(queue) - 1
         /\ \A i \in 1..(Len(queue) - 1) : Tail(queue)[i] = queue[i + 1]
<1>1. queue \in Seq(Batch) /\ queue # <<>>
  BY DEF DeliveryInv, Window, PumpInv
<1>2. /\ Len(queue) \in Nat \ {0} /\ Head(queue) = queue[1] /\ Head(queue) \in Batch
      /\ Tail(queue) \in Seq(Batch) /\ Len(Tail(queue)) = Len(queue) - 1
      /\ \A i \in 1..(Len(queue) - 1) : Tail(queue)[i] = queue[i + 1]
  BY <1>1, EmptySeq, LenProperties, HeadTailProperties
<1> QED BY <1>1, <1>2 DEF DeliveryInv, Window

LEMMA ContinueKeeps == ASSUME DeliveryInv, Continue PROVE DeliveryInv'
<1>1. /\ pc = "posted" /\ Pumping /\ result' = "none" /\ UNCHANGED <<shutdown, now, history, closers>>
  BY DEF Continue, Pumping, waiters
<1>2. CASE result = "retry" /\ ~LastAttempt(Head(queue))
  <2>1. /\ pc' = "sleeping" /\ queue' = queue
        /\ UNCHANGED <<attempts, fate, aborted, waiters>>
    BY <1>2 DEF Continue, Retried
  <2>2. attempts[Head(queue)] < MaxAttempts
    <3>1. attempts[Head(queue)] \in 0..MaxAttempts
      BY <1>1, PumpedHead DEF DeliveryInv, Schedule
    <3> QED BY <1>2, <3>1, LimitAssumption DEF LastAttempt
  <2> QED BY <1>1, <2>1, <2>2 DEF DeliveryInv, PumpInv, RestTyped, Pumping, shutdown, history, waiters
<1>3. CASE ~(result = "retry" /\ ~LastAttempt(Head(queue)))
  <2>1. PICK r \in {"delivered", "rejected", "exhausted"} :
          Loop(Tail(queue), [fate EXCEPT ![Head(queue)] = r])
    BY <1>3 DEF Continue, Shifted
  <2> DEFINE f == [fate EXCEPT ![Head(queue)] = r]
  <2>2. Window(Tail(queue), accepted, f)
    BY <1>1, PumpedHead, WindowSettles DEF DeliveryInv, Fates
  <2>3. \A i \in 1..Len(Tail(queue)) : attempts[Tail(queue)[i]] = 0
    BY <1>1, PumpedHead DEF DeliveryInv, Schedule
  <2>4. Schedule(Tail(queue), f, attempts)
    <3>1. \A b \in Batch : f[b] = "unseen" => fate[b] = "unseen"
      BY DEF DeliveryInv, Window
    <3>2. Len(Tail(queue)) <= MaxQueue
      BY <1>1, PumpedHead, LimitAssumption DEF DeliveryInv, Schedule
    <3> QED BY <2>3, <3>1, <3>2 DEF DeliveryInv, Schedule
  <2>5. Tail(queue) # <<>> => attempts[Head(Tail(queue))] < MaxAttempts
    <3>1. ASSUME Tail(queue) # <<>> PROVE Head(Tail(queue)) = Tail(queue)[1] /\ Len(Tail(queue)) >= 1
      BY <1>1, <3>1, PumpedHead, EmptySeq, LenProperties, HeadTailProperties
    <3> QED BY <1>1, <2>3, <3>1, PumpedHead, LimitAssumption
  <2> HIDE DEF f
  <2>6. /\ Window(queue', accepted, fate') /\ Schedule(queue', fate', attempts')
        /\ pc' \in {"posting", "off"} /\ (pc' # "off" <=> queue' # <<>>)
        /\ aborted' \in BOOLEAN /\ graceTimer' \in BOOLEAN
        /\ waiter' \in [Waiter -> {"out", "asked", "done"}]
    BY <2>1, <2>2, <2>4, <2>5, LoopKeeps DEF DeliveryInv, f
  <2> QED BY <1>1, <2>6 DEF DeliveryInv, PumpInv, RestTyped, Pumping, shutdown, history
<1> QED BY <1>2, <1>3

LEMMA WokenKeeps == ASSUME DeliveryInv, Woken PROVE DeliveryInv'
<1>1. /\ pc = "woken" /\ Loop(queue, fate) /\ UNCHANGED <<result, shutdown, closers, now, history>>
  BY DEF Woken
<1>2. /\ Window(queue', accepted, fate') /\ Schedule(queue', fate', attempts')
      /\ pc' \in {"posting", "off"} /\ (pc' # "off" <=> queue' # <<>>)
      /\ aborted' \in BOOLEAN /\ graceTimer' \in BOOLEAN
      /\ waiter' \in [Waiter -> {"out", "asked", "done"}]
  BY <1>1, LoopKeeps DEF DeliveryInv, PumpInv
<1> QED BY <1>1, <1>2 DEF DeliveryInv, PumpInv, RestTyped, Pumping, shutdown, history

LEMMA EnqueueKeeps == ASSUME DeliveryInv, NEW b \in Batch, Enqueue(b) PROVE DeliveryInv'
<1>1. /\ fate[b] = "unseen" /\ attempts[b] = 0
      /\ UNCHANGED <<result, shutdown, closers, now, arrived>>
  BY DEF Enqueue, DeliveryInv, Schedule
<1>2. PICK encodes \in BOOLEAN :
        LET f == [fate EXCEPT ![b] = Admission(b, encodes)]
        IN IF f[b] # "pending"
           THEN fate' = f /\ UNCHANGED <<queue, attempts, pc, aborted, waiter, graceTimer, accepted>>
           ELSE /\ accepted' = Append(accepted, b)
                /\ IF Pumping
                   THEN /\ queue' = Append(queue, b) /\ fate' = f
                        /\ UNCHANGED <<attempts, pc, aborted, waiter, graceTimer>>
                   ELSE Loop(Append(queue, b), f)
  BY DEF Enqueue
<1> DEFINE f == [fate EXCEPT ![b] = Admission(b, encodes)]
<1>3. fate \in [Batch -> Fates] /\ f[b] = Admission(b, encodes)
  BY DEF DeliveryInv, Window
<1>4. Admission(b, encodes) \in {"shutdown", "encode", "overflow", "pending"}
  BY DEF Admission
<1>5. CASE Admission(b, encodes) # "pending"
  <2>1. /\ fate' = [fate EXCEPT ![b] = Admission(b, encodes)]
        /\ UNCHANGED <<queue, attempts, pc, aborted, waiter, graceTimer, accepted>>
    BY <1>2, <1>3, <1>5
  <2>2. Window(queue, accepted, fate')
    BY <1>1, <1>4, <1>5, <2>1, WindowRefuses DEF DeliveryInv, Fates
  <2>3. Schedule(queue, fate', attempts)
    BY <1>3, <1>4, <2>1 DEF DeliveryInv, Schedule
  <2> QED BY <1>1, <2>1, <2>2, <2>3 DEF DeliveryInv, PumpInv, RestTyped, Pumping, shutdown
<1>6. CASE Admission(b, encodes) = "pending"
  <2> DEFINE q == Append(queue, b)
             g == [fate EXCEPT ![b] = "pending"]
  <2>1. /\ accepted' = Append(accepted, b)
        /\ IF Pumping
           THEN /\ queue' = q /\ fate' = g
                /\ UNCHANGED <<attempts, pc, aborted, waiter, graceTimer>>
           ELSE Loop(q, g)
    BY <1>2, <1>3, <1>6
  <2>2. /\ queue \in Seq(Batch) /\ Len(queue) \in Nat
        /\ Len(q) = Len(queue) + 1 /\ q[Len(queue) + 1] = b
        /\ \A i \in 1..Len(queue) : q[i] = queue[i]
    BY LenProperties, AppendProperties DEF DeliveryInv, Window
  <2>3. Len(q) <= MaxQueue
    BY <1>6, <2>2, LimitAssumption DEF Admission, Full
  <2>4. Window(q, accepted', g)
    BY <1>1, <2>1, WindowAccepts DEF DeliveryInv
  <2>5. Schedule(q, g, attempts)
    <3>1. \A c \in Batch : g[c] = "unseen" => attempts[c] = 0
      BY <1>3 DEF DeliveryInv, Schedule
    <3>2. \A i \in 2..Len(q) : attempts[q[i]] = 0
      BY <1>1, <2>2 DEF DeliveryInv, Schedule
    <3> QED BY <2>3, <3>1, <3>2 DEF DeliveryInv, Schedule
  <2> HIDE DEF q, g
  <2>6. CASE Pumping
    <3>1. queue' = q /\ fate' = g /\ UNCHANGED <<attempts, pc, aborted, waiter, graceTimer>>
      BY <2>1, <2>6
    <3>2. queue # <<>> /\ q # <<>> /\ Head(q) = Head(queue)
      <4>1. queue # <<>> /\ Len(queue) >= 1
        BY <2>2, <2>6, EmptySeq DEF DeliveryInv, PumpInv
      <4>2. q \in Seq(Batch) /\ q # <<>>
        BY <2>2, <2>4, EmptySeq DEF Window
      <4> QED BY <2>2, <4>1, <4>2, HeadTailProperties
    <3> QED BY <1>1, <2>4, <2>5, <3>1, <3>2 DEF DeliveryInv, PumpInv, RestTyped, Pumping, shutdown
  <2>7. CASE ~Pumping
    <3>1. Loop(q, g)
      BY <2>1, <2>7
    <3>2. Head(q) = b
      <4>1. Len(queue) = 0
        BY <2>7, EmptySeq DEF DeliveryInv, PumpInv
      <4>2. q \in Seq(Batch) /\ q # <<>>
        BY <2>2, <2>4, EmptySeq DEF Window
      <4> QED BY <2>2, <4>1, <4>2, HeadTailProperties
    <3>3. attempts[Head(q)] < MaxAttempts
      BY <1>1, <3>2, LimitAssumption
    <3>4. /\ Window(queue', accepted', fate') /\ Schedule(queue', fate', attempts')
          /\ pc' \in {"posting", "off"} /\ (pc' # "off" <=> queue' # <<>>)
          /\ aborted' \in BOOLEAN /\ graceTimer' \in BOOLEAN
          /\ waiter' \in [Waiter -> {"out", "asked", "done"}]
      BY <2>4, <2>5, <3>1, <3>3, LoopKeeps DEF DeliveryInv
    <3> QED BY <1>1, <3>4 DEF DeliveryInv, PumpInv, RestTyped, Pumping, shutdown
  <2> QED BY <2>6, <2>7
<1> QED BY <1>5, <1>6

\* The end of the grace touches no queue: a pump that runs ends it itself.
LEMMA ExpireKeeps ==
  ASSUME DeliveryInv, Expire
  PROVE  /\ queue' = queue /\ fate' = fate /\ attempts' = attempts /\ result' = result
         /\ aborted' \in BOOLEAN /\ deadline' = 0 /\ pc' = WakeSleeper
<1>1. /\ aborted' = (pc = "posting") /\ deadline' = 0 /\ pc' = WakeSleeper
      /\ UNCHANGED <<attempts, result>>
  BY DEF Expire
<1>2. queue' = queue /\ fate' = fate
  <2>1. CASE Pumping
    BY <2>1 DEF Expire
  <2>2. CASE ~Pumping
    <3>1. queue = <<>> /\ queue' = <<>> /\ fate' = Flushed(queue, fate)
      BY <2>2 DEF Expire, DeliveryInv, PumpInv
    <3>2. DOMAIN queue = {}
      BY <3>1
    <3> QED BY <3>1, <3>2 DEF Flushed, DeliveryInv, Window
  <2> QED BY <2>1, <2>2
<1> QED BY <1>1, <1>2

LEMMA ShutdownKeeps ==
  ASSUME DeliveryInv,
         (\E w \in Waiter : Close(w) \/ WaitIdle(w)) \/ GraceFires
  PROVE  DeliveryInv'
<1>0. RestTyped /\ now \in Nat /\ Grace \in Nat
  BY TimeAssumption DEF DeliveryInv, RestTyped
<1>1. ASSUME NEW w \in Waiter, Close(w) PROVE DeliveryInv'
  <2>1. /\ closing' \in BOOLEAN /\ closers' \subseteq Waiter
        /\ waiter' \in [Waiter -> {"out", "asked", "done"}] /\ UNCHANGED <<now, history>>
    BY <1>0, <1>1 DEF Close, RestTyped
  <2>2. CASE closing \/ Grace # 0
    <3>1. UNCHANGED <<batches, pump>> /\ graceTimer' \in BOOLEAN /\ deadline' \in Nat \cup {Never}
      <4>1. CASE closing
        BY <1>0, <1>1, <4>1 DEF Close, RestTyped
      <4>2. CASE ~closing /\ Grace # 0
        <5>1. UNCHANGED <<batches, pump>> /\ graceTimer' \in BOOLEAN /\ deadline' = now + Grace
          BY <1>1, <4>2 DEF Close
        <5> QED BY <1>0, <5>1
      <4> QED BY <2>2, <4>1, <4>2
    <3> QED BY <2>1, <3>1 DEF DeliveryInv, PumpInv, RestTyped, Pumping, batches, pump, history
  <2>3. CASE ~closing /\ Grace = 0
    <3>1. Expire /\ graceTimer' = graceTimer
      BY <1>1, <2>3 DEF Close
    <3>2. /\ queue' = queue /\ fate' = fate /\ attempts' = attempts /\ result' = result
          /\ aborted' \in BOOLEAN /\ deadline' = 0 /\ pc' = WakeSleeper
      BY <3>1, ExpireKeeps
    <3>3. PumpInv'
      BY <3>2 DEF DeliveryInv, PumpInv, WakeSleeper, Pumping
    <3> QED BY <2>1, <3>1, <3>2, <3>3 DEF DeliveryInv, RestTyped, history
  <2> QED BY <2>2, <2>3
<1>2. ASSUME NEW w \in Waiter, WaitIdle(w) PROVE DeliveryInv'
  BY <1>2 DEF WaitIdle, DeliveryInv, PumpInv, RestTyped, Pumping, batches, pump, shutdown, history
<1>3. CASE GraceFires
  <2>1. Expire /\ graceTimer' = FALSE /\ UNCHANGED <<closing, waiter, closers, now, history>>
    BY <1>3 DEF GraceFires
  <2>2. /\ queue' = queue /\ fate' = fate /\ attempts' = attempts /\ result' = result
        /\ aborted' \in BOOLEAN /\ deadline' = 0 /\ pc' = WakeSleeper
    BY <2>1, ExpireKeeps
  <2>3. PumpInv'
    BY <2>2 DEF DeliveryInv, PumpInv, WakeSleeper, Pumping
  <2> QED BY <2>1, <2>2, <2>3 DEF DeliveryInv, RestTyped, history
<1> QED BY <1>1, <1>2, <1>3

LEMMA PostEndsKeeps ==
  ASSUME DeliveryInv, NEW r \in {"ok", "retry", "reject"}, PostEnds(r) PROVE DeliveryInv'
<1>1. /\ pc = "posting" /\ pc' = "posted" /\ result' = r /\ aborted' = FALSE
      /\ UNCHANGED <<batches, shutdown, waiters, now, accepted>>
      /\ arrived' \subseteq arrived \cup {Head(queue)}
  BY DEF PostEnds
<1>2. Head(queue) \in Batch
  BY <1>1, PumpedHead DEF Pumping
<1>3. arrived' \subseteq Batch
  BY <1>1, <1>2 DEF DeliveryInv, RestTyped
<1> QED BY <1>1, <1>3 DEF DeliveryInv, PumpInv, RestTyped, Pumping, batches, shutdown, waiters

LEMMA NextDelivery == DeliveryInv /\ [Next]_vars => DeliveryInv'
<1> SUFFICES ASSUME DeliveryInv, [Next]_vars PROVE DeliveryInv'
  OBVIOUS
<1>1. CASE \E r \in {"ok", "retry", "reject"} : PostEnds(r)
  BY <1>1, PostEndsKeeps
<1>2. CASE Continue
  BY <1>2, ContinueKeeps
<1>3. CASE Woken
  BY <1>3, WokenKeeps
<1>4. CASE \E b \in Batch : Enqueue(b)
  BY <1>4, EnqueueKeeps
<1>5. CASE (\E w \in Waiter : Close(w) \/ WaitIdle(w)) \/ GraceFires
  BY <1>5, ShutdownKeeps
<1>6. CASE SleepEnds \/ Tick \/ UNCHANGED vars
  <2>1. /\ UNCHANGED <<batches, result, aborted, shutdown, waiters, history>>
        /\ pc' = pc \/ (pc = "sleeping" /\ pc' = "woken")
    BY <1>6 DEF SleepEnds, Tick, vars, pump
  <2>2. now' \in Nat
    <3>1. now \in Nat
      BY DEF DeliveryInv, RestTyped
    <3> QED BY <1>6, <3>1 DEF SleepEnds, Tick, vars
  <2> QED BY <2>1, <2>2 DEF DeliveryInv, PumpInv, RestTyped, Pumping, batches, shutdown, waiters, history
<1> QED BY <1>1, <1>2, <1>3, <1>4, <1>5, <1>6 DEF Next, PumpStep

LEMMA DeliveryAlways == Spec => []DeliveryInv
BY InitDelivery, NextDelivery, PTL DEF Spec

-----------------------------------------------------------------------------
(* The queue implements the outbox                                          *)

\* What a pass of the pump over the queue q does to the outbox.
LEMMA LoopEffect ==
  ASSUME NEW q, NEW f, Loop(q, f)
  PROVE  \/ queue' = q /\ fate' = f
         \/ q # <<>> /\ queue' = <<>> /\ fate' = Flushed(q, f)
BY DEF Loop, HasMore

LEMMA ContinueSettles ==
  ASSUME DeliveryInv, Continue PROVE [Contract!OutboxNext]_<<queue, fate>>
<1>1. Pumping
  BY DEF Continue, Pumping
<1>2. /\ queue # <<>> /\ Head(queue) \in Batch /\ fate[Head(queue)] = "pending"
      /\ fate \in [Batch -> Fates] /\ Window(queue, accepted, fate)
  BY <1>1, PumpedHead DEF DeliveryInv, Window
<1>3. CASE result = "retry" /\ ~LastAttempt(Head(queue))
  BY <1>3 DEF Continue, Retried
<1>4. CASE ~(result = "retry" /\ ~LastAttempt(Head(queue)))
  <2>1. PICK r \in {"delivered", "rejected", "exhausted"} :
          Loop(Tail(queue), [fate EXCEPT ![Head(queue)] = r])
    BY <1>4 DEF Continue, Shifted
  <2> DEFINE f == [fate EXCEPT ![Head(queue)] = r]
  <2>2. CASE queue' = Tail(queue) /\ fate' = f
    BY <1>2, <2>2 DEF Contract!OutboxNext, Contract!Settle
  <2>3. CASE queue' = <<>> /\ fate' = Flushed(Tail(queue), f)
    <3>1. Window(Tail(queue), accepted, f)
      BY <1>2, WindowSettles DEF Fates
    <3> HIDE DEF f
    <3>2. \A b \in Batch : fate'[b] = IF f[b] = "pending" THEN "shutdown" ELSE f[b]
      BY <2>3, <3>1, WindowFlushes
    <3>3. fate' = [b \in Batch |-> fate'[b]]
      BY <2>3 DEF Flushed
    <3>4. fate' = [b \in Batch |-> IF fate[b] = "pending"
                                  THEN (IF b = Head(queue) THEN r ELSE "shutdown")
                                  ELSE fate[b]]
      BY <1>2, <3>2, <3>3 DEF f
    <3> QED BY <1>2, <2>3, <3>4 DEF Contract!OutboxNext, Contract!Flush
  <2> QED BY <2>1, <2>2, <2>3, LoopEffect
<1> QED BY <1>3, <1>4

LEMMA WokenSettles ==
  ASSUME DeliveryInv, Woken PROVE [Contract!OutboxNext]_<<queue, fate>>
<1>1. Pumping /\ Loop(queue, fate)
  BY DEF Woken, Pumping
<1>2. /\ queue # <<>> /\ fate \in [Batch -> Fates] /\ Window(queue, accepted, fate)
  BY <1>1, PumpedHead DEF DeliveryInv, Window
<1>3. CASE queue' = queue /\ fate' = fate
  BY <1>3
<1>4. CASE queue' = <<>> /\ fate' = Flushed(queue, fate)
  <2>1. \A b \in Batch : fate'[b] = IF fate[b] = "pending" THEN "shutdown" ELSE fate[b]
    BY <1>2, <1>4, WindowFlushes
  <2>2. fate' = [b \in Batch |-> fate'[b]]
    BY <1>4 DEF Flushed
  <2>3. fate' = [b \in Batch |-> IF fate[b] = "pending"
                                THEN (IF b = Head(queue) THEN "shutdown" ELSE "shutdown")
                                ELSE fate[b]]
    BY <2>1, <2>2
  <2> QED BY <1>2, <1>4, <2>3 DEF Contract!OutboxNext, Contract!Flush
<1> QED BY <1>1, <1>3, <1>4, LoopEffect

LEMMA EnqueueAccepts ==
  ASSUME DeliveryInv, NEW b \in Batch, Enqueue(b) PROVE [Contract!OutboxNext]_<<queue, fate>>
<1>1. fate[b] = "unseen" /\ fate \in [Batch -> Fates] /\ Window(queue, accepted, fate)
  BY DEF Enqueue, DeliveryInv, Window
<1>2. PICK encodes \in BOOLEAN :
        LET f == [fate EXCEPT ![b] = Admission(b, encodes)]
        IN IF f[b] # "pending"
           THEN fate' = f /\ UNCHANGED <<queue, attempts, pc, aborted, waiter, graceTimer, accepted>>
           ELSE /\ accepted' = Append(accepted, b)
                /\ IF Pumping
                   THEN /\ queue' = Append(queue, b) /\ fate' = f
                        /\ UNCHANGED <<attempts, pc, aborted, waiter, graceTimer>>
                   ELSE Loop(Append(queue, b), f)
  BY DEF Enqueue
<1> DEFINE f == [fate EXCEPT ![b] = Admission(b, encodes)]
<1>3. f[b] = Admission(b, encodes)
  BY <1>1
<1>4. CASE Admission(b, encodes) # "pending"
  <2>1. Admission(b, encodes) \in {"shutdown", "encode", "overflow"}
    BY <1>4 DEF Admission
  <2>2. fate' = [fate EXCEPT ![b] = Admission(b, encodes)] /\ queue' = queue
    BY <1>2, <1>3, <1>4
  <2> QED BY <1>1, <2>1, <2>2 DEF Contract!OutboxNext, Contract!Refuse
<1>5. CASE Admission(b, encodes) = "pending"
  <2> DEFINE q == Append(queue, b)
             g == [fate EXCEPT ![b] = "pending"]
  <2>1. (queue' = q /\ fate' = g) \/ (~Pumping /\ Loop(q, g))
    BY <1>2, <1>3, <1>5
  <2>2. CASE queue' = q /\ fate' = g
    BY <1>1, <2>2 DEF Contract!OutboxNext, Contract!Accept
  <2>3. CASE ~Pumping /\ queue' = <<>> /\ fate' = Flushed(q, g)
    <3>1. queue = <<>>
      BY <2>3 DEF DeliveryInv, PumpInv
    <3>2. Window(q, Append(accepted, b), g)
      BY <1>1, WindowAccepts
    <3> HIDE DEF q, g
    <3>3. \A c \in Batch : fate'[c] = IF g[c] = "pending" THEN "shutdown" ELSE g[c]
      BY <2>3, <3>2, WindowFlushes
    <3>4. \A c \in Batch : fate[c] # "pending"
      BY <1>1, <3>1, EmptySeq DEF Window
    <3>5. fate' = [c \in Batch |-> fate'[c]]
      BY <2>3 DEF Flushed
    <3>6. fate' = [fate EXCEPT ![b] = "shutdown"]
      BY <1>1, <3>3, <3>4, <3>5 DEF g
    <3> QED BY <1>1, <2>3, <3>1, <3>6 DEF Contract!OutboxNext, Contract!Refuse
  <2> QED BY <2>1, <2>2, <2>3, LoopEffect
<1> QED BY <1>4, <1>5

LEMMA OutboxStep ==
  DeliveryInv /\ [Next]_vars => [Contract!OutboxNext]_<<queue, fate>>
<1> SUFFICES ASSUME DeliveryInv, [Next]_vars PROVE [Contract!OutboxNext]_<<queue, fate>>
  OBVIOUS
<1>1. CASE Continue
  BY <1>1, ContinueSettles
<1>2. CASE Woken
  BY <1>2, WokenSettles
<1>3. CASE \E b \in Batch : Enqueue(b)
  BY <1>3, EnqueueAccepts
<1>4. CASE (\E w \in Waiter : Close(w)) \/ GraceFires
  <2>1. Expire \/ UNCHANGED <<batches, pump>>
    BY <1>4 DEF Close, GraceFires
  <2> QED BY <2>1, ExpireKeeps DEF batches
<1>5. CASE \/ (\E r \in {"ok", "retry", "reject"} : PostEnds(r)) \/ SleepEnds
           \/ (\E w \in Waiter : WaitIdle(w)) \/ Tick \/ UNCHANGED vars
  BY <1>5 DEF PostEnds, SleepEnds, WaitIdle, Tick, vars, batches
<1> QED BY <1>1, <1>2, <1>3, <1>4, <1>5 DEF Next, PumpStep

\* The delivery queue is an outbox: each batch is accepted or refused once,
\* settled once, in the order of acceptance, and only a shutdown gives up what
\* was never tried (delivery.ts #pump, #deliver, #expire), whatever the
\* receiver answers and whenever the grace ends.
THEOREM ImplementsOutbox == Spec => OutboxContract
<1>1. Init => Contract!OutboxInit
  BY DEF Init, Contract!OutboxInit
<1>2. DeliveryInv /\ [Next]_vars => [Contract!OutboxNext]_Contract!outboxVars
  BY OutboxStep DEF Contract!outboxVars
<1> QED BY <1>1, <1>2, DeliveryAlways, PTL DEF Spec, OutboxContract, Contract!OutboxSpec

-----------------------------------------------------------------------------
(* What the receiver sees, and what a shutdown ends                         *)

\* Only the head is posted, and what was accepted before it has left the queue.
LEMMA HeadArrives ==
  ASSUME DeliveryInv, [Next]_vars
  PROVE  \A i, k \in DOMAIN accepted :
           i < k /\ accepted[k] \in arrived' \ arrived => fate[accepted[i]] # "pending"
<1>1. CASE \E r \in {"ok", "retry", "reject"} : PostEnds(r)
  <2>1. Pumping /\ arrived' \subseteq arrived \cup {Head(queue)}
    BY <1>1 DEF PostEnds, Pumping
  <2>2. /\ Len(queue) \in Nat \ {0} /\ Head(queue) = queue[1]
        /\ accepted \in Seq(Batch) /\ Len(accepted) \in Nat /\ DOMAIN accepted = 1..Len(accepted)
        /\ Len(queue) <= Len(accepted) /\ \A i \in 1..Len(accepted) : accepted[i] \in Batch
    BY <2>1, PumpedHead, LenProperties, ElementOfSeq DEF DeliveryInv, Window
  <2> SUFFICES ASSUME NEW i \in 1..Len(accepted), NEW k \in 1..Len(accepted), i < k,
                      accepted[k] = queue[1], fate[accepted[i]] = "pending"
               PROVE  FALSE
    BY <2>1, <2>2
  <2>3. PICK x \in 1..Len(queue) : queue[x] = accepted[i]
    BY <2>2 DEF DeliveryInv, Window
  <2>4. /\ queue[1] = accepted[Len(accepted) - Len(queue) + 1]
        /\ queue[x] = accepted[Len(accepted) - Len(queue) + x]
    BY <2>2 DEF DeliveryInv, Window
  <2>5. /\ Len(accepted) - Len(queue) + 1 \in 1..Len(accepted)
        /\ Len(accepted) - Len(queue) + x \in 1..Len(accepted)
    BY <2>2
  <2>6. k = Len(accepted) - Len(queue) + 1 /\ i = Len(accepted) - Len(queue) + x
    <3>1. \A l, m \in 1..Len(accepted) : accepted[l] = accepted[m] => l = m
      BY DEF DeliveryInv, Window
    <3>2. accepted[k] = accepted[Len(accepted) - Len(queue) + 1]
      BY <2>4
    <3>3. accepted[i] = accepted[Len(accepted) - Len(queue) + x]
      BY <2>3, <2>4
    <3>4. k = Len(accepted) - Len(queue) + 1
      BY <2>5, <3>1, <3>2
    <3>5. i = Len(accepted) - Len(queue) + x
      BY <2>5, <3>1, <3>3
    <3> QED BY <3>4, <3>5
  <2> QED BY <2>2, <2>6
<1>2. CASE ~\E r \in {"ok", "retry", "reject"} : PostEnds(r)
  <2>1. arrived' = arrived
    BY <1>2 DEF Next, PumpStep, Continue, SleepEnds, Woken, Enqueue, Close, WaitIdle, GraceFires,
                Tick, vars, history
  <2> QED BY <2>1
<1> QED BY <1>1, <1>2

\* A batch reaches the receiver only when every batch accepted before it is
\* settled, across retries, aborts and late answers (delivery.ts #pump posts
\* the head and retries in place).
THEOREM ArrivesInOrder == Spec => ReceivedInOrder
<1>1. DeliveryInv /\ [Next]_vars =>
        [\A i, k \in DOMAIN accepted :
           i < k /\ accepted[k] \in arrived' \ arrived => fate[accepted[i]] # "pending"]_vars
  BY HeadArrives
<1> QED BY <1>1, DeliveryAlways, PTL DEF Spec, ReceivedInOrder

\* A close that has resolved found the pump off, and a closing queue accepts
\* nothing that could start it again.
CloseInv ==
  /\ closers # {} => closing
  /\ \A w \in closers : waiter[w] = "done" => ~Pumping

LEMMA NextClose == DeliveryInv /\ DeliveryInv' /\ CloseInv /\ [Next]_vars => CloseInv'
<1> SUFFICES ASSUME DeliveryInv, DeliveryInv', CloseInv, [Next]_vars PROVE CloseInv'
  OBVIOUS
<1>0. waiter \in [Waiter -> {"out", "asked", "done"}] /\ closers \subseteq Waiter
  BY DEF DeliveryInv, RestTyped
<1>1. CASE Continue \/ Woken
  <2>1. UNCHANGED <<closing, closers>> /\ Pumping
    BY <1>1 DEF Continue, Woken, shutdown, waiters, Pumping
  <2>2. Pumping' => waiter' = waiter
    BY <1>1 DEF Continue, Woken, Loop, SettleIdle, Pumping, waiters
  <2> QED BY <2>1, <2>2 DEF CloseInv
<1>2. ASSUME NEW b \in Batch, Enqueue(b) PROVE CloseInv'
  <2>1. UNCHANGED <<closing, closers>>
    BY <1>2 DEF Enqueue, shutdown
  <2>2. CASE closing
    <3>1. \A e \in BOOLEAN : Admission(b, e) = "shutdown"
      BY <2>2 DEF Admission, Accepting
    <3>2. fate \in [Batch -> Fates]
      BY DEF DeliveryInv, Window
    <3>3. UNCHANGED <<pc, waiter>>
      BY <1>2, <3>1, <3>2 DEF Enqueue
    <3> QED BY <2>1, <3>3 DEF CloseInv, Pumping
  <2>3. CASE ~closing
    BY <2>1, <2>3 DEF CloseInv
  <2> QED BY <2>2, <2>3
<1>3. ASSUME NEW w \in Waiter, Close(w) PROVE CloseInv'
  <2>1. /\ closing' = TRUE /\ closers' = closers \cup {w}
        /\ waiter' = [waiter EXCEPT ![w] = IF IdleNow THEN "done" ELSE "asked"]
    BY <1>3 DEF Close
  <2>2. ~Pumping => ~Pumping'
    BY <1>3 DEF Close, Expire, WakeSleeper, Pumping, pump
  <2> QED BY <1>0, <2>1, <2>2 DEF CloseInv, IdleNow
<1>4. ASSUME NEW w \in Waiter, WaitIdle(w) PROVE CloseInv'
  BY <1>0, <1>4 DEF WaitIdle, CloseInv, IdleNow, Pumping, pump, shutdown
<1>5. CASE GraceFires
  <2>1. UNCHANGED <<closing, closers, waiter>> /\ (~Pumping => ~Pumping')
    BY <1>5 DEF GraceFires, Expire, WakeSleeper, Pumping
  <2> QED BY <2>1 DEF CloseInv
<1>6. CASE (\E r \in {"ok", "retry", "reject"} : PostEnds(r)) \/ SleepEnds \/ Tick \/ UNCHANGED vars
  <2>1. UNCHANGED <<closing, closers, waiter>> /\ (~Pumping => ~Pumping')
    BY <1>6 DEF PostEnds, SleepEnds, Tick, vars, shutdown, waiters, pump, Pumping
  <2> QED BY <2>1 DEF CloseInv
<1> QED BY <1>1, <1>2, <1>3, <1>4, <1>5, <1>6 DEF Next, PumpStep

\* A close that resolved left nothing queued or in flight, nothing comes after
\* it, and no batch is attempted more often than retry.maxAttempts
\* (delivery.ts close, idle, #settleIdle).
THEOREM ClosingIsFinal == Spec => []ClosedIsFinal
<1>1. Init => CloseInv
  BY DEF Init, CloseInv
<1>2. DeliveryInv => TypeOK
  BY DEF DeliveryInv, Window, Schedule, PumpInv, RestTyped, TypeOK, Fates
<1>3. DeliveryInv /\ CloseInv => ClosedIsFinal
  BY <1>2 DEF ClosedIsFinal, CloseInv, DeliveryInv, PumpInv, Pumping
<1> QED BY <1>1, <1>3, NextClose, InitDelivery, NextDelivery, PTL DEF Spec

=============================================================================
