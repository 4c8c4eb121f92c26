---------------------------- MODULE SpscQueueProofs ----------------------------
(***************************************************************************)
(* The SPSC ring for every capacity and every set of commands: it delivers *)
(* in order, its slot accesses never race, it refuses only when full, and   *)
(* it implements BoundedChannel.                                            *)
(***************************************************************************)
EXTENDS SpscQueue, RingProofs

LEMMA IInvInit == Init => IInv
<1> SUFFICES ASSUME Init PROVE IInv
  OBVIOUS
<1>1. TypeOK
  BY DEF Init, TypeOK, Slots
<1>2. CountersInv /\ ProducerInv /\ ConsumerInv /\ StoredInv /\ FIFO
  BY CapacityAssumption DEF Init, CountersInv, ProducerInv, ConsumerInv, StoredInv, FIFO
<1> QED BY <1>1, <1>2 DEF IInv

LEMMA IInvNext == IInv /\ [Next]_vars => IInv'
<1> SUFFICES ASSUME IInv, [Next]_vars PROVE IInv'
  OBVIOUS
<1> USE CapacityAssumption, NullAssumption DEF IInv, TypeOK, CountersInv, pvars, cvars
<1>1. CASE Call
  BY <1>1 DEF Call, ProducerInv, ConsumerInv, StoredInv, FIFO
<1>2. CASE EnqLoadHead
  BY <1>2 DEF EnqLoadHead, ProducerInv, ConsumerInv, StoredInv, FIFO
<1>3. CASE EnqLoadTail
  <2>1. ppc' = "write" => head < tail + Capacity
    BY <1>3 DEF EnqLoadTail, ProducerInv, Full, USub
  <2> QED
    BY <1>3, <2>1 DEF EnqLoadTail, ProducerInv, ConsumerInv, StoredInv, FIFO
<1>4. CASE EnqWrite
  <2>1. h = head /\ head < tail + Capacity /\ arg \in Items
    BY <1>4 DEF EnqWrite, ProducerInv
  <2>2. Slot(head) \in Slots
    BY SlotRange
  <2>3. buffer' = [buffer EXCEPT ![Slot(head)] = arg]
    BY <1>4, <2>1 DEF EnqWrite
  (* The slot written is none of those that hold a command. *)
  <2>4. \A i \in tail .. head - 1 : buffer'[Slot(i)] = buffer[Slot(i)]
    <3> SUFFICES ASSUME NEW i \in tail .. head - 1
                 PROVE  buffer'[Slot(i)] = buffer[Slot(i)]
      OBVIOUS
    <3>1. Slot(i) # Slot(head) /\ Slot(i) \in Slots
      BY <2>1, SlotDistinct, SlotRange
    <3> QED BY <3>1, <2>2, <2>3
  <2>5. TypeOK'
    BY <1>4, <2>1, <2>2 DEF EnqWrite
  <2>6. StoredInv'
    BY <1>4, <2>4 DEF EnqWrite, StoredInv
  <2>7. ProducerInv'
    BY <1>4, <2>1, <2>2, <2>3 DEF EnqWrite, ProducerInv
  <2>8. CountersInv' /\ ConsumerInv' /\ FIFO'
    BY <1>4 DEF EnqWrite, ConsumerInv, FIFO
  <2> QED BY <2>5, <2>6, <2>7, <2>8
<1>5. CASE EnqStoreHead
  <2>1. /\ h = head /\ head < tail + Capacity /\ arg \in Items
        /\ buffer[Slot(head)] = arg
    BY <1>5 DEF EnqStoreHead, ProducerInv
  <2>2. /\ accepted' \in Seq(Items) /\ Len(accepted') = head + 1
        /\ accepted'[head + 1] = arg
        /\ \A i \in 1 .. head : accepted'[i] = accepted[i]
    BY <1>5, <2>1 DEF EnqStoreHead
  <2>3. /\ head' = head + 1 /\ ppc' = "idle"
        /\ UNCHANGED <<buffer, tail, h, arg, cpc, t, out, calls, received>>
    BY <1>5, <2>1 DEF EnqStoreHead
  <2>4. TypeOK' /\ CountersInv' /\ ProducerInv'
    BY <2>1, <2>2, <2>3 DEF ProducerInv
  <2>5. ConsumerInv' /\ FIFO'
    BY <2>1, <2>2, <2>3 DEF ConsumerInv, FIFO
  <2>6. StoredInv'
    <3> SUFFICES ASSUME NEW i \in tail .. head
                 PROVE  buffer[Slot(i)] = accepted'[i + 1]
      BY <2>3 DEF StoredInv
    <3>1. CASE i = head
      BY <3>1, <2>1, <2>2
    <3>2. CASE i < head
      BY <3>2, <2>2 DEF StoredInv
    <3> QED BY <3>1, <3>2
  <2> QED BY <2>4, <2>5, <2>6
<1>6. CASE DeqLoadTail
  BY <1>6 DEF DeqLoadTail, ProducerInv, ConsumerInv, StoredInv, FIFO
<1>7. CASE DeqLoadHead
  BY <1>7 DEF DeqLoadHead, ProducerInv, ConsumerInv, StoredInv, FIFO
<1>8. CASE DeqCopy
  <2>1. t = tail /\ tail < head
    BY <1>8 DEF DeqCopy, ConsumerInv
  <2>2. out' = accepted[tail + 1] /\ out' \in Items
    BY <1>8, <2>1 DEF DeqCopy, StoredInv
  <2> QED
    BY <1>8, <2>1, <2>2 DEF DeqCopy, ProducerInv, ConsumerInv, StoredInv, FIFO
<1>9. CASE DeqStoreTail
  <2>1. t = tail /\ tail < head /\ out = accepted[tail + 1] /\ out \in Items
    BY <1>9 DEF DeqStoreTail, ConsumerInv
  <2>2. /\ received' \in Seq(Items) /\ Len(received') = tail + 1
        /\ received'[tail + 1] = accepted[tail + 1]
        /\ \A i \in 1 .. tail : received'[i] = received[i]
    BY <1>9, <2>1 DEF DeqStoreTail
  <2>3. /\ tail' = tail + 1 /\ cpc' = "idle"
        /\ UNCHANGED <<buffer, head, ppc, h, arg, t, out, calls, accepted>>
    BY <1>9, <2>1 DEF DeqStoreTail
  <2>4. TypeOK' /\ CountersInv'
    BY <2>1, <2>2, <2>3
  <2>5. ProducerInv' /\ ConsumerInv' /\ StoredInv'
    BY <2>1, <2>3 DEF ProducerInv, ConsumerInv, StoredInv
  <2>6. FIFO'
    BY <2>1, <2>2, <2>3 DEF FIFO
  <2> QED BY <2>4, <2>5, <2>6
<1>10. CASE UNCHANGED vars
  BY <1>10 DEF vars, ProducerInv, ConsumerInv, StoredInv, FIFO
<1> QED
  BY <1>1, <1>2, <1>3, <1>4, <1>5, <1>6, <1>7, <1>8, <1>9, <1>10
     DEF Next, Enqueue, Dequeue

-----------------------------------------------------------------------------
(* The accesses of try_enqueue and try_dequeue keep the inductive invariant *)
(* in every interleaving of the two threads.                                *)
THEOREM Invariance == Spec => []IInv
<1> QED
  BY IInvInit, IInvNext, PTL DEF Spec

(* update() sees the accepted commands once each and in order.              *)
THEOREM InOrderDelivery == Spec => []FIFO
<1>1. IInv => FIFO
  BY DEF IInv
<1> QED
  BY <1>1, Invariance, PTL

(* The plain accesses to a slot are ordered by the two indices.             *)
THEOREM RaceFree == Spec => []NoDataRace
<1>1. IInv => NoDataRace
  <2> SUFFICES ASSUME IInv, ppc = "write", cpc = "copy" PROVE Slot(h) # Slot(t)
    BY DEF NoDataRace
  <2>1. /\ h \in Nat /\ t \in Nat /\ h # t
        /\ h < t + Capacity /\ t < h + Capacity
    BY CapacityAssumption DEF IInv, TypeOK, CountersInv, ProducerInv, ConsumerInv
  <2> QED BY <2>1, SlotDistinct
<1> QED
  BY <1>1, Invariance, PTL

(* try_enqueue returns false only for a ring of Capacity waiting commands.  *)
THEOREM RefusesOnlyWhenFull == Spec => DropOnlyWhenFull
<1>1. IInv /\ [Next]_vars =>
         [ppc = "tail" /\ ppc' = "idle" => head - tail >= Capacity]_vars
  <2> SUFFICES ASSUME IInv, [Next]_vars, ppc = "tail", ppc' = "idle"
               PROVE  head - tail >= Capacity
    OBVIOUS
  <2>1. EnqLoadTail
    BY DEF Next, Call, Enqueue, EnqLoadHead, EnqWrite, EnqStoreHead, Dequeue,
           DeqLoadTail, DeqLoadHead, DeqCopy, DeqStoreTail, vars, pvars
  <2>2. Full(h, tail) /\ h = head
    BY <2>1 DEF EnqLoadTail, IInv, ProducerInv
  <2> QED
    BY <2>2 DEF Full, USub, IInv, TypeOK, CountersInv
<1> QED
  BY <1>1, Invariance, PTL DEF Spec, DropOnlyWhenFull

(* The ring is a bounded lossy channel from try_enqueue to try_dequeue.     *)
THEOREM Refinement == Spec => ImplementsChannel
<1>1. Init => Channel!Init
  BY DEF Init, Channel!Init
<1>2. IInv /\ [Next]_vars => [Channel!Next]_<<accepted, received>>
  <2> SUFFICES ASSUME IInv, [Next]_vars
               PROVE  [Channel!Next]_<<accepted, received>>
    OBVIOUS
  <2>1. CASE EnqStoreHead
    <3>1. Channel!Put(arg) /\ arg \in Items
      BY <2>1, CapacityAssumption
         DEF EnqStoreHead, IInv, TypeOK, CountersInv, ProducerInv, Channel!Put
    <3> QED BY <3>1 DEF Channel!Next
  <2>2. CASE DeqStoreTail
    <3>1. Channel!Take
      BY <2>2 DEF DeqStoreTail, IInv, TypeOK, CountersInv, ConsumerInv, Channel!Take
    <3> QED BY <3>1 DEF Channel!Next
  <2>3. CASE \/ Call \/ EnqLoadHead \/ EnqLoadTail \/ EnqWrite
             \/ DeqLoadTail \/ DeqLoadHead \/ DeqCopy \/ UNCHANGED vars
    BY <2>3 DEF Call, EnqLoadHead, EnqLoadTail, EnqWrite, DeqLoadTail, DeqLoadHead,
                DeqCopy, vars
  <2> QED
    BY <2>1, <2>2, <2>3 DEF Next, Enqueue, Dequeue
<1> QED
  BY <1>1, <1>2, Invariance, PTL DEF Spec, ImplementsChannel, Channel!Spec, Channel!cvars
=============================================================================
