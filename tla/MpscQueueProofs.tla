---------------------------- MODULE MpscQueueProofs ----------------------------
(***************************************************************************)
(* The MPSC ring, for every number of producers and consumers, every       *)
(* capacity and every set of items: its safety invariants, and that it     *)
(* implements BoundedChannel, in the behaviours in which the calls of      *)
(* try_dequeue do not overlap; and what explains a refusal in all of them. *)
(***************************************************************************)
EXTENDS MpscQueue, RingProofs

-----------------------------------------------------------------------------
(* The inductive invariant.                                                 *)

LEMMA IInvInit == Init => IInv
<1> SUFFICES ASSUME Init PROVE IInv
  OBVIOUS
<1> USE DEF Init
<1>1. TypeOK
  BY DEF TypeOK, Slots
<1>2. CountersInv
  BY CapacityAssumption DEF CountersInv
<1>3. ProducerInv /\ ConsumerInv
  BY DEF ProducerInv, ConsumerInv, Threads
<1>4. ClaimedInv
  BY DEF ClaimedInv
<1>5. FreeInv
  <2>1. \A i \in Nat : Slot(i) \in 0 .. Capacity - 1
    BY SlotRange DEF Slots
  <2> QED BY <2>1, CapacityAssumption DEF FreeInv
<1>6. FIFO
  BY DEF FIFO
<1> QED BY <1>1, <1>2, <1>3, <1>4, <1>5, <1>6 DEF IInv

LEMMA IInvNext ==
  IInv /\ OneDequeuer /\ OneDequeuer' /\ [Next]_vars => IInv'
<1> SUFFICES ASSUME IInv, OneDequeuer, OneDequeuer', [Next]_vars PROVE IInv'
  OBVIOUS
<1> USE CapacityAssumption, NullAssumption, ThreadAssumption
<1> USE DEF TypeOK, Threads, Goto
<1>1. ASSUME NEW p \in Producers, Call(p) PROVE IInv'
  <2> USE <1>1 DEF IInv, Call, ring, locals, hist
  <2>1. TypeOK' /\ CountersInv' /\ FreeInv' /\ FIFO'
    BY DEF CountersInv, FreeInv, FIFO
  <2>2. ProducerInv'
    BY DEF ProducerInv
  <2>3. ConsumerInv'
    BY DEF ConsumerInv
  <2>4. ClaimedInv'
    BY DEF ClaimedInv
  <2> QED BY <2>1, <2>2, <2>3, <2>4
<1>2. ASSUME NEW p \in Producers, LoadHead(p) PROVE IInv'
  <2> USE <1>2 DEF IInv, LoadHead, ring, locals, hist
  <2>1. TypeOK' /\ CountersInv' /\ FreeInv' /\ FIFO'
    BY DEF CountersInv, FreeInv, FIFO
  <2>2. ProducerInv'
    BY DEF ProducerInv
  <2>3. ConsumerInv'
    BY DEF ConsumerInv
  <2>4. ClaimedInv'
    BY DEF ClaimedInv
  <2> QED BY <2>1, <2>2, <2>3, <2>4
<1>3. ASSUME NEW p \in Producers, LoadTail(p) PROVE IInv'
  <2> USE <1>3 DEF IInv, LoadTail, ring, locals, hist
  <2>1. TypeOK' /\ CountersInv' /\ FreeInv' /\ FIFO'
    BY DEF CountersInv, FreeInv, FIFO
  <2>2. ~Full(pos[p], tail) /\ pos[p] = head => head < tail + Capacity
    BY DEF Full, USub, CountersInv
  <2>3. ProducerInv'
    BY <2>2 DEF ProducerInv
  <2>4. ConsumerInv'
    BY DEF ConsumerInv
  <2>5. ClaimedInv'
    BY DEF ClaimedInv
  <2> QED BY <2>1, <2>3, <2>4, <2>5
<1>4. ASSUME NEW p \in Producers, Drop(p) PROVE IInv'
  <2> USE <1>4 DEF IInv, Drop, ring, locals, hist
  <2>1. TypeOK' /\ CountersInv' /\ FreeInv' /\ FIFO'
    BY DEF CountersInv, FreeInv, FIFO
  <2>2. ProducerInv'
    BY DEF ProducerInv
  <2>3. ConsumerInv'
    BY DEF ConsumerInv
  <2>4. ClaimedInv'
    BY DEF ClaimedInv
  <2> QED BY <2>1, <2>2, <2>3, <2>4
<1>5. ASSUME NEW p \in Producers, CasSuccess(p) PROVE IInv'
  <2> USE <1>5 DEF IInv, CasSuccess
  <2>1. /\ item[p] \in Items /\ pos[p] = head /\ head < tail + Capacity
        /\ tail <= head /\ Len(accepted) = head
    BY DEF ProducerInv, CountersInv
  <2>2. /\ accepted' \in Seq(Items)
        /\ Len(accepted') = head + 1
        /\ accepted'[head + 1] = item[p]
        /\ \A i \in 1 .. head : accepted'[i] = accepted[i]
    BY <2>1
  <2> HIDE DEF CasSuccess
  <2>3. /\ head' = head + 1 /\ pc' = [pc EXCEPT ![p] = "store"] /\ pc[p] = "cas"
        /\ UNCHANGED <<buffer, tail, drop_count, pos, item, fresh, received>>
    BY DEF CasSuccess
  <2>4. TypeOK'
    BY <2>1, <2>2, <2>3
  <2>5. CountersInv' /\ FreeInv' /\ FIFO'
    BY <2>1, <2>2, <2>3 DEF CountersInv, FreeInv, FIFO
  <2>6. buffer[Slot(head)] = NULL
    BY <2>1 DEF FreeInv
  <2>7. ProducerInv'
    BY <2>1, <2>2, <2>6, <2>3 DEF ProducerInv
  <2>8. ConsumerInv'
    BY <2>1, <2>2, <2>3 DEF ConsumerInv
  <2>9. ClaimedInv'
    <3> SUFFICES ASSUME NEW i \in tail .. head
                 PROVE  \/ buffer[Slot(i)] = accepted'[i + 1]
                        \/ /\ buffer[Slot(i)] = NULL
                           /\ \/ \E q \in Producers : pc'[q] = "store" /\ pos[q] = i
                              \/ \E c \in Consumers : pc'[c] = "deq_tail" /\ pos[c] = i
      BY <2>1, <2>3 DEF ClaimedInv
    <3>1. CASE i = head
      BY <3>1, <2>1, <2>6, <2>3
    <3>2. CASE i < head
      BY <3>2, <2>1, <2>2, <2>3 DEF ClaimedInv
    <3> QED BY <3>1, <3>2, <2>1
  <2> QED BY <2>4, <2>5, <2>7, <2>8, <2>9
<1>6. ASSUME NEW p \in Producers, CasFailure(p) PROVE IInv'
  <2> USE <1>6 DEF IInv, CasFailure, ring, locals, hist
  <2>1. TypeOK' /\ CountersInv' /\ FreeInv' /\ FIFO'
    BY DEF CountersInv, FreeInv, FIFO
  <2>2. ProducerInv'
    BY DEF ProducerInv
  <2>3. ConsumerInv'
    BY DEF ConsumerInv
  <2>4. ClaimedInv'
    BY DEF ClaimedInv
  <2> QED BY <2>1, <2>2, <2>3, <2>4
<1>7. ASSUME NEW p \in Producers, Store(p) PROVE IInv'
  <2> USE <1>7 DEF IInv
  <2> DEFINE n == pos[p]
  <2>1. /\ pc[p] = "store" /\ pc' = [pc EXCEPT ![p] = "idle"]
        /\ buffer' = [buffer EXCEPT ![Slot(n)] = item[p]]
        /\ item' = [item EXCEPT ![p] = NULL]
        /\ UNCHANGED <<head, tail, drop_count, pos, fresh, accepted, received>>
    BY DEF Store, hist
  <2>2. /\ n \in Nat /\ tail <= n /\ n < head /\ head <= tail + Capacity
        /\ item[p] = accepted[n + 1] /\ item[p] \in Items
        /\ buffer[Slot(n)] = NULL
        /\ Len(accepted) = head
    BY <2>1 DEF ProducerInv, CountersInv
  <2>3. Slot(n) \in Slots
    BY <2>2, SlotRange
  <2>4. buffer'[Slot(n)] = accepted[n + 1]
    BY <2>1, <2>2, <2>3
  (* The only slot of the window that changes is that of position n. *)
  <2>5. \A i \in tail .. tail + Capacity - 1 :
           i # n => buffer'[Slot(i)] = buffer[Slot(i)]
    <3> SUFFICES ASSUME NEW i \in tail .. tail + Capacity - 1, i # n
                 PROVE  buffer'[Slot(i)] = buffer[Slot(i)]
      OBVIOUS
    <3>1. i \in Nat /\ i < n + Capacity /\ n < i + Capacity
      BY <2>2
    <3>2. Slot(i) # Slot(n) /\ Slot(i) \in Slots
      BY <3>1, <2>2, SlotDistinct, SlotRange
    <3> HIDE DEF n
    <3> QED BY <3>2, <2>1, <2>3
  <2>6. TypeOK'
    BY <2>1, <2>2, <2>3
  <2>7. CountersInv' /\ FIFO'
    BY <2>1 DEF CountersInv, FIFO
  <2>8. ProducerInv'
    <3> SUFFICES ASSUME NEW q \in Producers, q # p, pc[q] = "store"
                 PROVE  buffer'[Slot(pos[q])] = NULL
      BY <2>1 DEF ProducerInv
    <3>1. /\ pos[q] \in tail .. tail + Capacity - 1 /\ pos[q] # n
          /\ buffer[Slot(pos[q])] = NULL
      BY <2>1, <2>2 DEF ProducerInv
    <3> QED BY <3>1, <2>5
  <2>9. ConsumerInv'
    <3> SUFFICES ASSUME NEW c \in Consumers, tail < head
                 PROVE  /\ pc[c] = "deq_clear" => buffer'[Slot(tail)] = accepted[tail + 1]
                        /\ pc[c] = "deq_tail" => buffer'[Slot(tail)] = NULL
      BY <2>1 DEF ConsumerInv
    <3>1. CASE n = tail
      BY <3>1, <2>1, <2>4 DEF ConsumerInv
    <3>2. CASE n # tail
      <4>1. buffer'[Slot(tail)] = buffer[Slot(tail)]
        BY <3>2, <2>5
      <4> QED BY <4>1, <2>1 DEF ConsumerInv
    <3> QED BY <3>1, <3>2
  <2>10. ClaimedInv'
    <3> SUFFICES ASSUME NEW i \in tail .. head - 1
                 PROVE  \/ buffer'[Slot(i)] = accepted[i + 1]
                        \/ /\ buffer'[Slot(i)] = NULL
                           /\ \/ \E q \in Producers : pc'[q] = "store" /\ pos[q] = i
                              \/ \E c \in Consumers : pc'[c] = "deq_tail" /\ pos[c] = i
      BY <2>1 DEF ClaimedInv
    <3>1. CASE i = n
      BY <3>1, <2>4
    <3>2. CASE i # n
      <4>1. buffer'[Slot(i)] = buffer[Slot(i)]
        BY <3>2, <2>2, <2>5
      <4>2. \A q \in Producers : pc[q] = "store" /\ pos[q] = i => pc'[q] = "store"
        BY <3>2, <2>1
      <4>3. \A c \in Consumers : pc[c] = "deq_tail" => pc'[c] = "deq_tail"
        BY <2>1
      <4> QED BY <4>1, <4>2, <4>3 DEF ClaimedInv
    <3> QED BY <3>1, <3>2
  <2>11. FreeInv'
    <3> SUFFICES ASSUME NEW i \in head .. tail + Capacity - 1
                 PROVE  buffer'[Slot(i)] = NULL
      BY <2>1 DEF FreeInv
    <3>1. i \in tail .. tail + Capacity - 1 /\ i # n
      BY <2>2
    <3> QED BY <3>1, <2>5 DEF FreeInv
  <2> QED BY <2>6, <2>7, <2>8, <2>9, <2>10, <2>11
<1>8. ASSUME NEW c \in Consumers, DeqLoadTail(c) PROVE IInv'
  <2> USE <1>8 DEF IInv, DeqLoadTail, ring, locals, hist
  <2>1. TypeOK' /\ CountersInv' /\ FreeInv' /\ FIFO'
    BY DEF CountersInv, FreeInv, FIFO
  <2>2. ProducerInv'
    BY DEF ProducerInv
  <2>3. ConsumerInv'
    <3>1. \A d \in Consumers \ {c} : pc'[d] = "idle"
      BY DEF OneDequeuer
    <3> QED BY <3>1 DEF ConsumerInv
  <2>4. ClaimedInv'
    BY DEF ClaimedInv
  <2> QED BY <2>1, <2>2, <2>3, <2>4
<1>9. ASSUME NEW c \in Consumers, DeqLoadHead(c) PROVE IInv'
  <2> USE <1>9 DEF IInv, DeqLoadHead, ring, locals, hist
  <2>1. TypeOK' /\ CountersInv' /\ FreeInv' /\ FIFO'
    BY DEF CountersInv, FreeInv, FIFO
  <2>2. ProducerInv'
    BY DEF ProducerInv
  <2>3. ConsumerInv'
    BY DEF ConsumerInv
  <2>4. ClaimedInv'
    BY DEF ClaimedInv
  <2> QED BY <2>1, <2>2, <2>3, <2>4
<1>10. ASSUME NEW c \in Consumers, DeqLoadSlot(c) PROVE IInv'
  <2> USE <1>10 DEF IInv
  <2> DEFINE x == buffer[Slot(pos[c])]
  <2>1. /\ pc[c] = "deq_slot" /\ item' = [item EXCEPT ![c] = x]
        /\ pc' = [pc EXCEPT ![c] = IF x = NULL THEN "idle" ELSE "deq_clear"]
        /\ UNCHANGED <<buffer, head, tail, drop_count, pos, fresh, accepted, received>>
    BY DEF DeqLoadSlot, ring, hist
  <2>2. pos[c] = tail /\ tail < head
    BY <2>1 DEF ConsumerInv
  <2>3. x = buffer[Slot(tail)] /\ x \in Items \cup {NULL}
    BY <2>2, SlotRange
  <2>4. x # NULL => x = accepted[tail + 1]
    BY <2>2, <2>3 DEF ClaimedInv
  <2> HIDE DEF x
  <2>5. TypeOK'
    BY <2>1, <2>3
  <2>6. CountersInv' /\ FreeInv' /\ FIFO'
    BY <2>1 DEF CountersInv, FreeInv, FIFO
  <2>7. ProducerInv'
    BY <2>1 DEF ProducerInv
  <2>8. ConsumerInv'
    BY <2>1, <2>2, <2>3, <2>4 DEF ConsumerInv
  <2>9. ClaimedInv'
    BY <2>1 DEF ClaimedInv
  <2> QED BY <2>5, <2>6, <2>7, <2>8, <2>9
<1>11. ASSUME NEW c \in Consumers, DeqClear(c) PROVE IInv'
  <2> USE <1>11 DEF IInv
  <2>1. /\ pc[c] = "deq_clear" /\ pc' = [pc EXCEPT ![c] = "deq_tail"]
        /\ buffer' = [buffer EXCEPT ![Slot(pos[c])] = NULL]
        /\ UNCHANGED <<head, tail, drop_count, pos, item, fresh, accepted, received>>
    BY DEF DeqClear, hist
  <2>2. /\ pos[c] = tail /\ tail < head /\ head <= tail + Capacity
        /\ item[c] = accepted[tail + 1]
        /\ buffer[Slot(tail)] = accepted[tail + 1]
        /\ Len(accepted) = head
    BY <2>1 DEF ConsumerInv, CountersInv
  <2>3. Slot(tail) \in Slots /\ buffer[Slot(tail)] \in Items
    BY <2>2, SlotRange
  <2>4. buffer'[Slot(tail)] = NULL
    BY <2>1, <2>2, <2>3
  <2>5. \A i \in tail + 1 .. tail + Capacity - 1 : buffer'[Slot(i)] = buffer[Slot(i)]
    <3> SUFFICES ASSUME NEW i \in tail + 1 .. tail + Capacity - 1
                 PROVE  buffer'[Slot(i)] = buffer[Slot(i)]
      OBVIOUS
    <3>1. Slot(i) # Slot(tail) /\ Slot(i) \in Slots
      BY SlotDistinct, SlotRange
    <3> QED BY <3>1, <2>1, <2>2, <2>3
  (* The slot was written, so its producer is done with it. *)
  <2>6. \A p \in Producers : pc[p] = "store" =>
           /\ pos[p] \in tail + 1 .. tail + Capacity - 1
           /\ buffer[Slot(pos[p])] = NULL
    BY <2>2, <2>3 DEF ProducerInv
  <2>7. TypeOK'
    BY <2>1, <2>2, <2>3
  <2>8. CountersInv' /\ FIFO'
    BY <2>1 DEF CountersInv, FIFO
  <2>9. ProducerInv'
    <3> SUFFICES ASSUME NEW p \in Producers, pc[p] = "store"
                 PROVE  buffer'[Slot(pos[p])] = NULL
      BY <2>1 DEF ProducerInv
    <3> QED BY <2>5, <2>6
  <2>10. ConsumerInv'
    <3>1. \A p \in Producers : pc'[p] = "store" => pos[p] # tail
      BY <2>1, <2>6
    <3>2. \A d \in Consumers \ {c} : pc[d] = "idle"
      BY <2>1 DEF OneDequeuer
    <3> QED BY <3>1, <3>2, <2>1, <2>2, <2>4 DEF ConsumerInv
  <2>11. ClaimedInv'
    <3> SUFFICES ASSUME NEW i \in tail .. head - 1
                 PROVE  \/ buffer'[Slot(i)] = accepted[i + 1]
                        \/ /\ buffer'[Slot(i)] = NULL
                           /\ \/ \E p \in Producers : pc'[p] = "store" /\ pos[p] = i
                              \/ \E d \in Consumers : pc'[d] = "deq_tail" /\ pos[d] = i
      BY <2>1 DEF ClaimedInv
    <3>1. CASE i = tail
      BY <3>1, <2>1, <2>2, <2>4
    <3>2. CASE i # tail
      <4>1. i \in tail + 1 .. tail + Capacity - 1
        BY <3>2, <2>2
      <4>2. \A p \in Producers : pc[p] = "store" => pc'[p] = "store"
        BY <2>1
      <4>3. \A d \in Consumers : pc[d] = "deq_tail" => pc'[d] = "deq_tail"
        BY <2>1
      <4> QED BY <4>1, <4>2, <4>3, <2>5 DEF ClaimedInv
    <3> QED BY <3>1, <3>2
  <2>12. FreeInv'
    <3> SUFFICES ASSUME NEW i \in head .. tail + Capacity - 1
                 PROVE  buffer'[Slot(i)] = NULL
      BY <2>1 DEF FreeInv
    <3> QED BY <2>2, <2>5 DEF FreeInv
  <2> QED BY <2>7, <2>8, <2>9, <2>10, <2>11, <2>12
<1>12. ASSUME NEW c \in Consumers, DeqStoreTail(c) PROVE IInv'
  <2> USE <1>12 DEF IInv
  <2>1. /\ pc[c] = "deq_tail" /\ pc' = [pc EXCEPT ![c] = "idle"]
        /\ tail' = pos[c] + 1 /\ received' = Append(received, item[c])
        /\ UNCHANGED <<buffer, head, drop_count, pos, item, fresh, accepted>>
    BY DEF DeqStoreTail
  <2>2. /\ pos[c] = tail /\ tail < head /\ head <= tail + Capacity
        /\ item[c] = accepted[tail + 1]
        /\ buffer[Slot(tail)] = NULL
        /\ \A p \in Producers : pc[p] = "store" => pos[p] # tail
        /\ Len(accepted) = head /\ Len(received) = tail
        /\ \A d \in Consumers \ {c} : pc[d] = "idle"
    BY <2>1 DEF ConsumerInv, CountersInv, OneDequeuer
  <2>3. item[c] \in Items
    BY <2>2
  <2>4. /\ received' \in Seq(Items)
        /\ Len(received') = tail + 1
        /\ received'[tail + 1] = accepted[tail + 1]
        /\ \A i \in 1 .. tail : received'[i] = received[i]
    BY <2>1, <2>2, <2>3
  <2>5. TypeOK'
    BY <2>1, <2>2, <2>4
  <2>6. CountersInv'
    BY <2>1, <2>2, <2>4 DEF CountersInv
  <2>7. FIFO'
    BY <2>1, <2>2, <2>4 DEF FIFO
  <2>8. ProducerInv'
    BY <2>1, <2>2 DEF ProducerInv
  <2>9. ConsumerInv'
    BY <2>1, <2>2 DEF ConsumerInv
  <2>10. ClaimedInv'
    <3> SUFFICES ASSUME NEW i \in tail + 1 .. head - 1
                 PROVE  \/ buffer[Slot(i)] = accepted[i + 1]
                        \/ /\ buffer[Slot(i)] = NULL
                           /\ \E p \in Producers : pc'[p] = "store" /\ pos[p] = i
      BY <2>1, <2>2 DEF ClaimedInv
    <3>1. i # tail /\ i \in tail .. head - 1
      OBVIOUS
    <3>2. \A p \in Producers : pc[p] = "store" => pc'[p] = "store"
      BY <2>1
    <3> QED BY <3>1, <3>2, <2>2 DEF ClaimedInv
  <2>11. FreeInv'
    <3> SUFFICES ASSUME NEW i \in head .. tail + Capacity
                 PROVE  buffer[Slot(i)] = NULL
      BY <2>1, <2>2 DEF FreeInv
    <3>1. CASE i = tail + Capacity
      BY <3>1, <2>2, SlotWraps
    <3>2. CASE i # tail + Capacity
      BY <3>2 DEF FreeInv
    <3> QED BY <3>1, <3>2
  <2> QED BY <2>5, <2>6, <2>7, <2>8, <2>9, <2>10, <2>11
<1>13. ASSUME NEW c \in Consumers, ResetDropCount(c) PROVE IInv'
  <2> USE <1>13 DEF IInv, ResetDropCount, ring, locals, hist
  <2>1. TypeOK' /\ CountersInv' /\ FreeInv' /\ FIFO'
    BY DEF CountersInv, FreeInv, FIFO
  <2>2. ProducerInv'
    BY DEF ProducerInv
  <2>3. ConsumerInv'
    BY DEF ConsumerInv
  <2>4. ClaimedInv'
    BY DEF ClaimedInv
  <2> QED BY <2>1, <2>2, <2>3, <2>4
<1>14. CASE UNCHANGED vars
  BY <1>14 DEF IInv, vars, ring, locals, hist, CountersInv, ProducerInv, ConsumerInv,
               ClaimedInv, FreeInv, FIFO
<1> QED
  BY <1>1, <1>2, <1>3, <1>4, <1>5, <1>6, <1>7, <1>8, <1>9, <1>10, <1>11, <1>12, <1>13, <1>14 DEF Next, Enqueue, Dequeue

-----------------------------------------------------------------------------
(* Theorems.                                                                *)

(* try_enqueue and try_dequeue keep the inductive invariant in every        *)
(* interleaving in which no two calls of try_dequeue overlap.               *)
THEOREM Invariance ==
  Spec /\ []OneDequeuer => []IInv
<1>1. Init => IInv
  BY IInvInit
<1>2. IInv /\ OneDequeuer /\ OneDequeuer' /\ [Next]_vars => IInv'
  BY IInvNext
<1> QED
  BY <1>1, <1>2, PTL DEF Spec

(* Every variable of the ring keeps its type. *)
THEOREM TypeCorrect ==
  Spec /\ []OneDequeuer => []TypeOK
<1>1. IInv => TypeOK
  BY DEF IInv
<1> QED
  BY <1>1, Invariance, PTL

(* try_dequeue hands out the accepted items once each and in claim order.   *)
THEOREM InOrderDelivery ==
  Spec /\ []OneDequeuer => []FIFO
<1>1. IInv => FIFO
  BY DEF IInv
<1> QED
  BY <1>1, Invariance, PTL

(* The store that follows the CAS of try_enqueue hits an empty slot that no *)
(* other producer is about to write.                                        *)
THEOREM NeverOverwrites ==
  Spec /\ []OneDequeuer => []NoOverwrite
<1>1. IInv => NoOverwrite
  <2> SUFFICES ASSUME IInv, NEW p \in Producers, pc[p] = "store"
               PROVE  /\ buffer[Slot(pos[p])] = NULL
                      /\ \A q \in Producers \ {p} :
                             pc[q] = "store" => Slot(pos[q]) # Slot(pos[p])
    BY DEF NoOverwrite
  <2>1. buffer[Slot(pos[p])] = NULL
    BY DEF IInv, ProducerInv
  <2>2. ASSUME NEW q \in Producers \ {p}, pc[q] = "store"
        PROVE  Slot(pos[q]) # Slot(pos[p])
    <3>1. /\ pos[p] \in Nat /\ pos[q] \in Nat /\ pos[p] # pos[q]
          /\ pos[p] < pos[q] + Capacity /\ pos[q] < pos[p] + Capacity
      BY <2>2, CapacityAssumption DEF IInv, TypeOK, Threads, CountersInv, ProducerInv
    <3> QED BY <3>1, SlotDistinct
  <2> QED BY <2>1, <2>2
<1> QED
  BY <1>1, Invariance, PTL

(* An accepted item is always owned by the ring, by the producer that is    *)
(* publishing it or by the consumer that is taking it.                      *)
THEOREM NothingIsLost ==
  Spec /\ []OneDequeuer => []Conservation
<1>1. IInv => Conservation
  <2> SUFFICES ASSUME IInv, NEW i \in tail + 1 .. head
      PROVE
        \/ buffer[Slot(i - 1)] = accepted[i]
        \/ \E p \in Producers : pc[p] = "store" /\ pos[p] = i - 1 /\ item[p] = accepted[i]
        \/ \E c \in Consumers : pc[c] = "deq_tail" /\ pos[c] = i - 1 /\ item[c] = accepted[i]
    BY DEF Conservation
  <2> DEFINE j == i - 1
  <2>1. j \in tail .. head - 1 /\ j + 1 = i
    BY DEF IInv, TypeOK
  <2> HIDE DEF j
  <2>2. \/ buffer[Slot(j)] = accepted[j + 1]
        \/ \E p \in Producers : pc[p] = "store" /\ pos[p] = j
        \/ \E c \in Consumers : pc[c] = "deq_tail" /\ pos[c] = j
    BY <2>1 DEF IInv, ClaimedInv
  <2>3. \A p \in Producers : pc[p] = "store" /\ pos[p] = j => item[p] = accepted[j + 1]
    BY DEF IInv, ProducerInv
  <2>4. \A c \in Consumers : pc[c] = "deq_tail" /\ pos[c] = j => item[c] = accepted[j + 1]
    BY DEF IInv, ConsumerInv
  <2> QED
    BY <2>1, <2>2, <2>3, <2>4 DEF j
<1> QED
  BY <1>1, Invariance, PTL

(* The lock-free ring is a bounded lossy channel: a successful CAS of       *)
(* try_enqueue puts, the last store of try_dequeue takes, and every other   *)
(* access of an atomic is invisible.                                        *)
THEOREM Refinement ==
  Spec /\ []OneDequeuer => ImplementsChannel
<1>1. Init => Channel!Init
  BY DEF Init, Channel!Init
<1>2. IInv /\ [Next]_vars => [Channel!Next]_<<accepted, received>>
  <2> SUFFICES ASSUME IInv, [Next]_vars
               PROVE  [Channel!Next]_<<accepted, received>>
    OBVIOUS
  <2>1. ASSUME NEW p \in Producers, CasSuccess(p)
        PROVE  Channel!Put(item[p]) /\ item[p] \in Items
    BY <2>1, CapacityAssumption
       DEF IInv, TypeOK, Threads, CountersInv, ProducerInv, CasSuccess, Channel!Put
  <2>2. ASSUME NEW c \in Consumers, DeqStoreTail(c)
        PROVE  Channel!Take
    BY <2>2 DEF IInv, TypeOK, CountersInv, ConsumerInv, DeqStoreTail, Channel!Take
  <2>3. ASSUME NEW p \in Producers,
               Call(p) \/ LoadHead(p) \/ LoadTail(p) \/ Drop(p) \/ CasFailure(p) \/ Store(p)
        PROVE  UNCHANGED <<accepted, received>>
    BY <2>3 DEF Call, LoadHead, LoadTail, Drop, CasFailure, Store, hist
  <2>4. ASSUME NEW c \in Consumers,
               \/ DeqLoadTail(c) \/ DeqLoadHead(c) \/ DeqLoadSlot(c)
               \/ DeqClear(c) \/ ResetDropCount(c)
        PROVE  UNCHANGED <<accepted, received>>
    BY <2>4 DEF DeqLoadTail, DeqLoadHead, DeqLoadSlot, DeqClear, ResetDropCount, hist
  <2>5. CASE UNCHANGED vars
    BY <2>5 DEF vars, hist
  <2> QED
    BY <2>1, <2>2, <2>3, <2>4, <2>5 DEF Next, Enqueue, Dequeue, Channel!Next
<1> QED
  BY <1>1, <1>2, Invariance, PTL DEF Spec, ImplementsChannel, Channel!Spec, Channel!cvars

(* Whichever threads enqueue and dequeue: try_enqueue refuses an item only   *)
(* when the ring is full, or when the consumer has overtaken the head_ the   *)
(* producer read, so that the subtraction wraps.  There is no third case.    *)
THEOREM Refusals == Spec => RefusalExplained
<1> DEFINE J == /\ head \in Nat /\ tail \in Nat
                /\ pos \in [Threads -> Nat]
                /\ pc \in [Threads -> {"idle", "head", "tail", "drop", "cas", "store", "deq_head",
                                       "deq_slot", "deq_clear", "deq_tail"}]
                /\ \A p \in Producers : pc[p] = "tail" => pos[p] <= head
           Explained == \A p \in Producers : (pc[p] = "tail" /\ pc'[p] = "drop")
                                  => head - tail >= Capacity \/ pos[p] < tail
<1> USE ThreadAssumption DEF Threads, Goto
<1>1. Init => J
  BY DEF Init
<1>2. J /\ [Next]_vars => J'
  <2> SUFFICES ASSUME J, [Next]_vars PROVE J'
    OBVIOUS
  <2>1. ASSUME NEW p \in Producers, Call(p) \/ Enqueue(p) PROVE J'
    BY <2>1 DEF Call, Enqueue, LoadHead, LoadTail, Drop, CasSuccess, CasFailure, Store, ring
  <2>2. ASSUME NEW c \in Consumers, Dequeue(c) \/ ResetDropCount(c) PROVE J'
    BY <2>2 DEF Dequeue, DeqLoadTail, DeqLoadHead, DeqLoadSlot, DeqClear, DeqStoreTail,
                ResetDropCount, ring, locals
  <2>3. CASE UNCHANGED vars
    BY <2>3 DEF vars, ring, locals
  <2> QED BY <2>1, <2>2, <2>3 DEF Next
<1>3. J /\ [Next]_vars => Explained
  <2> SUFFICES ASSUME J, [Next]_vars, NEW p \in Producers, pc[p] = "tail", pc'[p] = "drop"
               PROVE  head - tail >= Capacity \/ pos[p] < tail
    OBVIOUS
  <2>1. ASSUME NEW q \in Producers, Call(q) \/ Enqueue(q) PROVE LoadTail(p)
    BY <2>1 DEF Call, Enqueue, LoadHead, LoadTail, Drop, CasSuccess, CasFailure, Store
  <2>2. ASSUME NEW c \in Consumers, Dequeue(c) \/ ResetDropCount(c) PROVE FALSE
    BY <2>2 DEF Dequeue, DeqLoadTail, DeqLoadHead, DeqLoadSlot, DeqClear, DeqStoreTail,
                ResetDropCount, locals
  <2>3. ~ UNCHANGED vars
    BY DEF vars, locals
  <2>4. LoadTail(p)
    BY <2>1, <2>2, <2>3 DEF Next
  <2>5. Full(pos[p], tail)
    BY <2>4 DEF LoadTail
  <2> QED BY <2>5, CapacityAssumption DEF Full, USub
<1>4. J /\ [Next]_vars => [Explained]_vars
  BY <1>3
<1> HIDE DEF J
<1> QED BY <1>1, <1>2, <1>4, PTL DEF Spec, RefusalExplained
=============================================================================
