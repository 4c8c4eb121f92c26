---------------------------- MODULE LogDrainProofs ----------------------------
(***************************************************************************)
(* The drain loop over the ring, for every set of strings, producers,       *)
(* drainers and capacity.  It uses the ring only through its operations.    *)
(* In the behaviours in which no two drains overlap, whichever threads      *)
(* drain, no string leaks or is used after it is deleted, the socket sees   *)
(* them in order, and warnings never exaggerate.                            *)
(***************************************************************************)
EXTENDS LogDrain, MpscQueueProofs

(* drain_log_queue and the enqueuers take only steps of the ring. *)
LEMMA DrainStep == LNext => [Next]_vars
<1> SUFFICES ASSUME LNext PROVE [Next]_vars
  OBVIOUS
<1>1. ASSUME NEW p \in Producers, Produce(p) PROVE Next
  BY <1>1 DEF Produce, Refused, Next, Enqueue
<1>2. ASSUME NEW c \in Consumers, Begin(c) \/ Drain(c) PROVE Next \/ UNCHANGED vars
  BY <1>2 DEF Begin, Drain, CallDequeue, InDequeue, Send, Delete, LoadDrops, Reset, Warn,
              Next, Dequeue
<1> QED BY <1>1, <1>2 DEF LNext

(* The drain loop refines the ring: every theorem about Spec holds of the    *)
(* ring that drain_log_queue empties.                                        *)
THEOREM DrainUsesTheRing == LSpec => Spec
<1>1. LInit => Init
  BY DEF LInit
<1>2. [LNext]_lvars => [Next]_vars
  BY DrainStep DEF lvars
<1> QED BY <1>1, <1>2, PTL DEF LSpec, Spec

-----------------------------------------------------------------------------
LEMMA AppendType ==
  ASSUME NEW S, NEW s \in Seq(S), NEW x \in S PROVE Append(s, x) \in Seq(S)
OBVIOUS

LEMMA AppendAt ==
  ASSUME NEW S, NEW s \in Seq(S), NEW x \in S
  PROVE  /\ Append(s, x)[Len(s) + 1] = x
         /\ \A i \in 1 .. Len(s) : Append(s, x)[i] = s[i]
OBVIOUS

LEMMA LInvInit == LInit => LInv
<1> SUFFICES ASSUME LInit PROVE LInv
  OBVIOUS
<1>1. TypeOK
  BY IInvInit DEF LInit, IInv
<1>2. wire \in Seq(Items)
  BY DEF LInit
<1>3. LTypeOK
  BY <1>1, <1>2 DEF LInit, LTypeOK
<1>4. /\ drop_count = 0 /\ dropped = 0 /\ reported = 0 /\ head = 0 /\ tail = 0 /\ freed = {}
      /\ \A p \in Producers : pc[p] = "idle" /\ item[p] = NULL
      /\ \A c \in Consumers : pc[c] = "idle" /\ dpc[c] = "out"
  BY DEF LInit, Init, Threads
<1>5. CarryInv /\ OwnInv /\ NeverOverReports
  BY <1>4 DEF CarryInv, OwnInv, Offering, NeverOverReports
<1> QED BY <1>3, <1>5 DEF LInv

(* While a thread drains, the others are outside drain_log_queue. *)
LEMMA Alone ==
  ASSUME LInv, OneAtATime, OneAtATime', NEW c \in Consumers, Begin(c) \/ Drain(c)
  PROVE  \A d \in Consumers \ {c} : dpc[d] = "out" /\ dpc'[d] = "out" /\ pc[d] = "idle"
<1>1. /\ dpc[c] # "out" \/ dpc'[c] # "out"
      /\ \A d \in Consumers \ {c} : dpc'[d] = dpc[d]
  BY DEF LInv, LTypeOK, Begin, Drain, CallDequeue, InDequeue, Send, Delete, LoadDrops, Reset, Warn, DGoto
<1>2. \A d \in Consumers \ {c} : dpc[d] = "out" /\ dpc'[d] = "out"
  BY <1>1 DEF OneAtATime
<1> QED BY <1>2 DEF LInv, CarryInv

(* Drains that do not overlap do not overlap in try_dequeue. *)
LEMMA DrainsDequeueAlone ==
  ASSUME IInv, LInv, OneAtATime, OneAtATime', LNext
  PROVE  OneDequeuer /\ OneDequeuer'
<1>0. /\ pc \in [Threads -> {"idle", "head", "tail", "drop", "cas", "store",
                             "deq_head", "deq_slot", "deq_clear", "deq_tail"}]
      /\ \A c \in Consumers : pc[c] # "idle" => dpc[c] # "out"
  BY DEF IInv, TypeOK, LInv, CarryInv
<1>1. OneDequeuer
  BY <1>0 DEF OneDequeuer, OneAtATime
<1>2. ASSUME NEW p \in Producers, Produce(p) PROVE OneDequeuer'
  <2>1. \A c \in Consumers : pc'[c] = pc[c]
    BY <1>0, <1>2, ThreadAssumption DEF Threads, Produce, Refused, Drop, Call, LoadHead, LoadTail,
       CasSuccess, CasFailure, Store, Goto
  <2> QED BY <1>1, <2>1 DEF OneDequeuer
<1>3. ASSUME NEW c \in Consumers, Begin(c) \/ Drain(c) PROVE OneDequeuer'
  <2>1. \A d \in Consumers \ {c} : pc'[d] = pc[d]
    BY <1>0, <1>3 DEF Threads, Begin, Drain, CallDequeue, InDequeue, Send, Delete, LoadDrops, Reset,
       Warn, DeqLoadTail, DeqLoadHead, DeqLoadSlot, DeqClear, DeqStoreTail, ResetDropCount, Goto,
       vars, locals
  <2>2. \A d \in Consumers \ {c} : pc'[d] = "idle"
    BY <1>3, <2>1, Alone
  <2> QED BY <2>2 DEF OneDequeuer
<1> QED BY <1>1, <1>2, <1>3 DEF LNext

(* Types, and what a drainer carries. *)
LEMMA CarryNext ==
  ASSUME OneAtATime, OneAtATime', IInv, IInv', LInv, LNext
  PROVE  LTypeOK' /\ CarryInv' /\ NeverOverReports'
<1> USE ThreadAssumption
    DEF LInv, LTypeOK, CarryInv, NeverOverReports, dlocals, dhist, ring, hist, locals
<1>0. /\ TypeOK /\ TypeOK'
      /\ item \in [Threads -> Items \cup {NULL}] 
      /\ pc \in [Threads -> {"idle", "head", "tail", "drop", "cas", "store",
                             "deq_head", "deq_slot", "deq_clear", "deq_tail"}]
      /\ Consumers \subseteq Threads /\ Producers \subseteq Threads
      /\ drop_count \in Nat /\ drop_count' \in Nat
      /\ tail \in Nat /\ head \in Nat /\ tail <= head /\ Len(accepted) = head
      /\ accepted \in Seq(Items)
  BY DEF IInv, TypeOK, CountersInv, Threads
<1>1. ASSUME NEW p \in Producers, Produce(p) PROVE LTypeOK' /\ CarryInv' /\ NeverOverReports'
  <2>1. /\ tail' = tail
        /\ \A c \in Consumers : item'[c] = item[c] /\ pc'[c] = pc[c]
    BY <1>0, <1>1 DEF Produce, Refused, Drop, Call, LoadHead, LoadTail, CasSuccess, CasFailure,
                      Store, Goto
  <2>2. \A i \in 1 .. tail : accepted'[i] = accepted[i]
    <3>1. CASE CasSuccess(p)
      <4>1. item[p] \in Items
        BY <3>1 DEF CasSuccess, IInv, ProducerInv
      <4> QED BY <1>0, <3>1, <4>1 DEF CasSuccess
    <3>2. CASE accepted' = accepted
      BY <3>2
    <3> QED BY <1>1, <3>1, <3>2 DEF Produce, Refused, Drop, Call, LoadHead, LoadTail, CasFailure, Store
  <2>3. CASE Refused(p)
    <3>1. item[p] \in Items
      BY <2>3 DEF Refused, Drop, IInv, ProducerInv
    <3> QED BY <1>0, <2>1, <2>2, <2>3, <3>1 DEF Refused, Drop
  <2>4. CASE UNCHANGED <<dlocals, dhist>> /\ UNCHANGED drop_count
    BY <1>0, <2>1, <2>2, <2>4
  <2> QED BY <1>1, <2>3, <2>4 DEF Produce, Call, LoadHead, LoadTail, CasSuccess, CasFailure, Store
<1>2. ASSUME NEW c \in Consumers, Begin(c) \/ Drain(c)
      PROVE  LTypeOK' /\ CarryInv' /\ NeverOverReports'
  <2> USE <1>0 DEF DGoto
  <2>0. /\ \A d \in Consumers \ {c} : dpc[d] = "out" /\ dpc'[d] = "out" /\ pc[d] = "idle"
        /\ c \in Threads
    BY <1>2, Alone
  <2>1. CASE Begin(c)
    <3>1. /\ dpc[c] = "out" /\ dpc' = [dpc EXCEPT ![c] = "call"]
          /\ UNCHANGED <<vars, drops, dhist>> /\ pc[c] = "idle"
      BY <2>1 DEF Begin
    <3>2. dpc' \in [Consumers -> {"out", "call", "deq", "send", "delete", "drops", "reset", "warn"}]
      BY <3>1
    <3>3. \A d \in Consumers : dpc'[d] \in {"out", "call"} /\ pc'[d] = "idle"
      BY <2>0, <3>1 DEF vars
    <3> QED BY <2>0, <3>1, <3>2, <3>3 DEF vars
  <2>2. CASE CallDequeue(c)
    <3>1. /\ dpc' = [dpc EXCEPT ![c] = "deq"] /\ pc[c] = "idle"
          /\ item' = [item EXCEPT ![c] = NULL] /\ pc' = [pc EXCEPT ![c] = "deq_head"]
          /\ UNCHANGED <<ring, hist, drops, dhist>>
      BY <2>2 DEF CallDequeue, DeqLoadTail, Goto
    <3>2. dpc' \in [Consumers -> {"out", "call", "deq", "send", "delete", "drops", "reset", "warn"}]
      BY <3>1
    <3>3. /\ \A d \in Consumers \ {c} : dpc'[d] = "out" /\ pc'[d] = "idle"
          /\ dpc'[c] = "deq" /\ item'[c] = NULL
      BY <2>0, <3>1
    <3>4. LTypeOK'
      BY <3>1, <3>2
    <3>5. CarryInv'
      BY <3>3
    <3>6. NeverOverReports'
      BY <3>1, <3>3
    <3> QED BY <3>4, <3>5, <3>6
  <2>3. CASE InDequeue(c)
    <3>1. UNCHANGED <<drop_count, accepted, head>>
      BY <2>3 DEF InDequeue, DeqLoadHead, DeqLoadSlot, DeqClear, DeqStoreTail
    <3>2. /\ dpc'[c] \in {"deq", "send", "drops"}
          /\ dpc'[c] # "deq" => pc'[c] = "idle"
          /\ dpc'[c] = "send" => item'[c] # NULL /\ pc'[c] = "idle"
      BY <2>0, <2>3 DEF InDequeue
    <3>3. dpc' \in [Consumers -> {"out", "call", "deq", "send", "delete", "drops", "reset", "warn"}]
      BY <2>0, <2>3 DEF InDequeue
    <3>4. dpc'[c] = "send" => tail' > 0 /\ item'[c] = accepted'[tail']
      <4>1. CASE DeqStoreTail(c)
        BY <2>0, <3>1, <4>1 DEF DeqStoreTail, IInv, ConsumerInv
      <4>2. CASE DeqLoadHead(c) /\ pc'[c] = "idle"
        BY <2>0, <3>2, <4>2 DEF DeqLoadHead
      <4> QED BY <2>3, <3>2, <4>1, <4>2 DEF InDequeue, DeqLoadHead, DeqLoadSlot, DeqClear, Goto
    <3>5. pc'[c] # "deq_head"
      BY <2>0, <2>3 DEF InDequeue, DeqLoadHead, DeqLoadSlot, DeqClear, DeqStoreTail, Goto
    <3>6. UNCHANGED <<drops, dhist>>
      BY <2>3 DEF InDequeue
    <3>7. /\ item' \in [Threads -> Items \cup {NULL}] /\ TypeOK'
          /\ \A d \in Consumers \ {c} : pc'[d] = "idle" /\ item'[d] = item[d]
      <4>1. \A d \in Consumers \ {c} : pc'[d] = pc[d] /\ item'[d] = item[d]
        BY <2>0, <2>3 DEF InDequeue, DeqLoadHead, DeqLoadSlot, DeqClear, DeqStoreTail, Goto
      <4> QED BY <2>0, <4>1 DEF TypeOK
    <3>8. LTypeOK'
      BY <3>3, <3>6, <3>7
    <3>9. CarryInv'
      <4>1. ASSUME NEW d \in Consumers \ {c}
            PROVE  dpc'[d] = "out" /\ pc'[d] = "idle"
        BY <2>0, <3>7
      <4>2. /\ dpc'[c] # "deq" => pc'[c] = "idle"
            /\ pc'[c] = "deq_head" => item'[c] = NULL
            /\ dpc'[c] \in {"send", "delete"} => tail' > 0 /\ item'[c] = accepted'[tail']
            /\ dpc'[c] = "reset" => drops'[c] <= drop_count'
        BY <3>2, <3>4, <3>5
      <4> QED BY <4>1, <4>2
    <3>10. NeverOverReports'
      BY <2>0, <3>1, <3>2, <3>6
    <3> QED BY <3>8, <3>9, <3>10
  <2>4. CASE Send(c)
    <3>1. item[c] \in Items /\ item[c] = accepted[tail]
      BY <2>0, <2>4 DEF Send
    <3>2. wire' \in Seq(Items)
      <4>1. wire' = wire \/ wire' = Append(wire, item[c])
        BY <2>4 DEF Send
      <4>2. Append(wire, item[c]) \in Seq(Items)
        BY <3>1, AppendType
      <4> QED BY <4>1, <4>2
    <3> QED BY <2>0, <2>4, <3>1, <3>2 DEF Send, vars
  <2>5. CASE Delete(c)
    <3>1. item[c] \in Items /\ item[c] = accepted[tail]
      BY <2>0, <2>5 DEF Delete
    <3> QED BY <2>0, <2>5, <3>1 DEF Delete, vars
  <2>6. CASE LoadDrops(c) BY <2>0, <2>6 DEF LoadDrops, vars
  <2>7. CASE Reset(c) BY <2>0, <2>7 DEF Reset, ResetDropCount
  <2>8. CASE Warn(c)
    <3>1. /\ reported' = reported + drops[c] /\ dpc'[c] = "out"
          /\ UNCHANGED <<vars, drops, freed, wire, dropped>>
          /\ reported + drops[c] + drop_count <= dropped
      BY <2>8 DEF Warn
    <3>2. /\ dpc' \in [Consumers -> {"out", "call", "deq", "send", "delete", "drops", "reset", "warn"}]
          /\ unwarned' \in BOOLEAN /\ pc[c] = "idle"
      BY <2>8 DEF Warn
    <3> QED BY <2>0, <3>1, <3>2 DEF vars
  <2> QED BY <1>2, <2>1, <2>2, <2>3, <2>4, <2>5, <2>6, <2>7, <2>8 DEF Drain
<1> QED BY <1>1, <1>2 DEF LNext

(* Every string keeps exactly one owner until it is deleted. *)
LEMMA OwnNext ==
  ASSUME OneAtATime, OneAtATime', IInv, LInv, LNext PROVE OwnInv'
<1> USE ThreadAssumption, NullAssumption DEF OwnInv, Offering, dlocals, dhist, ring, hist, locals
<1>0. /\ OwnInv /\ CarryInv /\ TypeOK /\ ProducerInv /\ ConsumerInv
      /\ pc \in [Threads -> {"idle", "head", "tail", "drop", "cas", "store",
                             "deq_head", "deq_slot", "deq_clear", "deq_tail"}]
      /\ item \in [Threads -> Items \cup {NULL}] /\ fresh \subseteq Items
      /\ Producers \subseteq Threads /\ Consumers \subseteq Threads
      /\ tail \in Nat /\ head \in Nat /\ tail <= head /\ Len(accepted) = head
      /\ accepted \in Seq(Items)
  BY DEF IInv, LInv, TypeOK, CountersInv, Threads
<1>1. ASSUME NEW p \in Producers, Produce(p) PROVE OwnInv'
  <2>0. UNCHANGED <<tail, dpc>> /\ p \in Threads
    BY <1>0, <1>1 DEF Produce, Refused, Drop, Call, LoadHead, LoadTail, CasSuccess, CasFailure, Store
  <2>1. CASE Refused(p)
    <3>1. /\ Offering(p)
          /\ pc' = [pc EXCEPT ![p] = "idle"] /\ item' = [item EXCEPT ![p] = NULL]
          /\ freed' = freed \cup {item[p]}
          /\ UNCHANGED <<accepted, head, fresh>>
      BY <2>1 DEF Refused, Drop, Goto
    (* Expiry of the offer: nobody else has the string. *)
    <3>2. /\ \A i \in 1 .. head : accepted[i] # item[p]
          /\ item[p] \notin fresh
          /\ \A q \in Producers \ {p} : Offering(q) => item[q] # item[p]
      BY <1>0, <3>1
    <3>3. \A c \in Consumers : dpc[c] \in {"send", "delete"} => accepted[tail] # item[p]
      BY <1>0, <3>2 DEF CarryInv
    <3> QED BY <1>0, <2>0, <3>1, <3>2, <3>3
  <2>2. CASE Call(p) /\ UNCHANGED <<dlocals, dhist>>
    <3>1. PICK x \in fresh : item' = [item EXCEPT ![p] = x] /\ fresh' = fresh \ {x}
      BY <2>2 DEF Call
    <3>2. /\ pc' = [pc EXCEPT ![p] = "head"]
          /\ UNCHANGED <<accepted, head, freed>>
      BY <2>2 DEF Call, Goto
    <3> QED BY <1>0, <2>0, <3>1, <3>2
  <2>3. CASE (LoadHead(p) \/ LoadTail(p) \/ CasFailure(p)) /\ UNCHANGED <<dlocals, dhist>>
    <3>1. /\ Offering(p)
          /\ \A q \in Producers : Offering(q)' <=> Offering(q)
          /\ \A q \in Producers : pc'[q] = "idle" => pc[q] = "idle"
          /\ UNCHANGED <<accepted, head, fresh, freed, item>>
      BY <1>0, <2>0, <2>3 DEF LoadHead, LoadTail, CasFailure, Goto
    <3> HIDE DEF Offering
    <3> QED BY <1>0, <2>0, <3>1
  <2>4. CASE CasSuccess(p) /\ UNCHANGED <<dlocals, dhist>>
    <3>1. /\ Offering(p) /\ item[p] \in Items
          /\ pc' = [pc EXCEPT ![p] = "store"] /\ head' = head + 1
          /\ accepted' = Append(accepted, item[p])
          /\ UNCHANGED <<fresh, freed, item>>
      BY <1>0, <2>4 DEF CasSuccess, Goto, ProducerInv
    <3>2. /\ accepted'[head + 1] = item[p]
          /\ \A i \in 1 .. head : accepted'[i] = accepted[i]
      <4>1. accepted \in Seq(Items) /\ item[p] \in Items /\ Len(accepted) = head
        BY <1>0, <3>1
      <4>2. accepted' = Append(accepted, item[p])
        BY <3>1
      <4> QED BY <4>1, <4>2, AppendAt
    <3>3. /\ item[p] \notin fresh \cup freed
          /\ \A i \in 1 .. head : accepted[i] # item[p]
          /\ \A q \in Producers \ {p} : Offering(q) => item[q] # item[p]
      BY <1>0, <3>1
    <3>4. \A i \in 1 .. head' : i \in 1 .. head \/ i = head + 1
      BY <1>0, <3>1
    <3>5. /\ \A i \in 1 .. head' : accepted'[i] \notin fresh'
          /\ \A i, j \in 1 .. head' : accepted'[i] = accepted'[j] => i = j
          /\ \A i \in tail + 1 .. head' : accepted'[i] \notin freed'
      BY <1>0, <3>1, <3>2, <3>3, <3>4
    <3>6. \A q \in Producers : Offering(q)' => q # p /\ Offering(q)
      BY <1>0, <2>0, <3>1
    <3>7. \A q \in Producers : Offering(q)' => \A i \in 1 .. head' : accepted'[i] # item[q]
      BY <1>0, <3>2, <3>3, <3>4, <3>6
    <3>8. \A c \in Consumers : dpc[c] \in {"send", "delete"} => accepted'[tail] = accepted[tail]
      BY <1>0, <3>2 DEF CarryInv
    <3>9. \A q \in Producers : pc'[q] = "idle" => pc[q] = "idle"
      BY <1>0, <2>0, <3>1
    <3> HIDE DEF Offering
    <3> QED BY <1>0, <2>0, <3>1, <3>5, <3>6, <3>7, <3>8, <3>9
  <2>5. CASE Store(p) /\ UNCHANGED <<dlocals, dhist>>
    <3>1. /\ pc' = [pc EXCEPT ![p] = "idle"] /\ item' = [item EXCEPT ![p] = NULL]
          /\ UNCHANGED <<accepted, head, fresh, freed>>
      BY <2>5 DEF Store, Goto
    <3> QED BY <1>0, <2>0, <3>1
  <2> QED BY <1>1, <2>1, <2>2, <2>3, <2>4, <2>5 DEF Produce
<1>2. ASSUME NEW c \in Consumers, Begin(c) \/ Drain(c) PROVE OwnInv'
  <2>0. /\ \A d \in Consumers \ {c} : dpc[d] = "out" /\ dpc'[d] = "out"
        /\ c \in Threads /\ c \notin Producers
    BY <1>0, <1>2, Alone
  <2>1. /\ UNCHANGED <<accepted, head, fresh>>
        /\ \A p \in Producers : pc'[p] = pc[p] /\ item'[p] = item[p]
    BY <1>0, <1>2, <2>0 DEF Begin, Drain, CallDequeue, InDequeue, Send, Delete, LoadDrops, Reset,
         Warn, DeqLoadTail, DeqLoadHead, DeqLoadSlot, DeqClear, DeqStoreTail, ResetDropCount,
         Goto, vars
  <2>2. CASE DeqStoreTail(c) /\ InDequeue(c)
    <3>1. tail' = tail + 1 /\ tail < head /\ UNCHANGED freed
      BY <1>0, <2>2 DEF DeqStoreTail, InDequeue, ConsumerInv
    <3> QED BY <1>0, <2>0, <2>1, <3>1
  <2>3. CASE Delete(c)
    <3>1. /\ freed' = freed \cup {accepted[tail]} /\ dpc'[c] = "call" /\ tail' = tail
          /\ tail \in 1 .. head
      BY <1>0, <2>0, <2>3 DEF Delete, DGoto, vars, CarryInv, LInv, LTypeOK
    <3> QED BY <1>0, <2>0, <2>1, <3>1
  <2>4. CASE ~Delete(c) /\ ~(DeqStoreTail(c) /\ InDequeue(c))
    <3>1. tail' = tail /\ freed' = freed
      BY <1>2, <2>4 DEF Begin, Drain, CallDequeue, InDequeue, Send, LoadDrops, Reset,
         Warn, DeqLoadTail, DeqLoadHead, DeqLoadSlot, DeqClear, ResetDropCount, vars
    <3>2. dpc'[c] \in {"send", "delete"} => dpc[c] \in {"send", "delete"}
      <4>1. CASE InDequeue(c)
        BY <1>0, <2>0, <2>4, <4>1 DEF InDequeue, DeqLoadHead, DeqLoadSlot, DeqClear, DGoto, Goto,
           CarryInv, LInv, LTypeOK
      <4>2. CASE ~InDequeue(c)
        BY <1>2, <2>0, <2>4, <4>2 DEF Begin, Drain, CallDequeue, Send, LoadDrops, Reset, Warn,
           DGoto, LInv, LTypeOK
      <4> QED BY <4>1, <4>2
    <3> QED BY <1>0, <2>0, <2>1, <3>1, <3>2
  <2> QED BY <2>2, <2>3, <2>4
<1> QED BY <1>1, <1>2 DEF LNext

LEMMA LInvNext ==
  IInv /\ IInv' /\ LInv /\ OneAtATime /\ OneAtATime' /\ [LNext]_lvars => LInv'
<1> SUFFICES ASSUME IInv, IInv', LInv, OneAtATime, OneAtATime', [LNext]_lvars PROVE LInv'
  OBVIOUS
<1>1. CASE LNext
  BY <1>1, CarryNext, OwnNext DEF LInv
<1>2. CASE UNCHANGED lvars
  BY <1>2 DEF lvars, vars, ring, hist, locals, dlocals, dhist, LInv, LTypeOK, TypeOK, CarryInv,
              OwnInv, Offering, NeverOverReports
<1> QED BY <1>1, <1>2

(* The invariant of drains that do not overlap, for any strings, producers,  *)
(* drainers and capacity.                                                    *)
THEOREM DrainInvariance ==
  LSpec /\ []OneAtATime => [](IInv /\ LInv)
<1>1. LInit => IInv /\ LInv
  BY LInvInit, IInvInit DEF LInit
<1>2. IInv /\ LInv /\ OneAtATime /\ OneAtATime' /\ [LNext]_lvars => IInv' /\ LInv'
  <2> SUFFICES ASSUME IInv, LInv, OneAtATime, OneAtATime', [LNext]_lvars PROVE IInv' /\ LInv'
    OBVIOUS
  <2>1. CASE LNext
    <3>1. OneDequeuer /\ OneDequeuer' /\ [Next]_vars
      BY <2>1, DrainsDequeueAlone, DrainStep
    <3>2. IInv'
      BY <3>1, IInvNext
    <3> QED BY <3>2, LInvNext
  <2>2. CASE UNCHANGED lvars
    <3>1. IInv'
      BY <2>2 DEF lvars, vars, ring, locals, hist, IInv, TypeOK, CountersInv, ProducerInv, ConsumerInv,
                  ClaimedInv, FreeInv, FIFO
    <3> QED BY <3>1, LInvNext
  <2> QED BY <2>1, <2>2
<1> QED BY <1>1, <1>2, PTL DEF LSpec

(* The drain loop's variables keep their types. *)
THEOREM DrainTypeCorrect ==
  LSpec /\ []OneAtATime => []LTypeOK
<1>1. LInv => LTypeOK
  BY DEF LInv
<1> QED BY DrainInvariance, <1>1, PTL

(* The synthetic "N messages dropped" lines never mention a drop twice, nor  *)
(* one that has not happened.                                                *)
THEOREM WarningsAreModest ==
  LSpec /\ []OneAtATime => []NeverOverReports
<1>1. LInv => NeverOverReports
  BY DEF LInv
<1> QED BY DrainInvariance, <1>1, PTL

(* No string is deleted while a slot, a caller of try_enqueue or the drainer *)
(* still refers to it.                                                       *)
THEOREM NothingIsUsedAfterFree ==
  LSpec /\ []OneAtATime => []NoUseAfterFree
<1>1. IInv /\ LInv => NoUseAfterFree
  <2> SUFFICES ASSUME IInv, LInv PROVE NoUseAfterFree
    OBVIOUS
  <2>0. /\ tail \in Nat /\ head \in Nat /\ tail <= head /\ freed \subseteq Items
        /\ Capacity \in Nat
    BY CapacityAssumption DEF IInv, TypeOK, CountersInv, LInv, LTypeOK
  <2>1. ASSUME NEW s \in Slots PROVE buffer[s] \notin freed
    <3>1. PICK i \in tail .. tail + Capacity - 1 : Slot(i) = s
      BY <2>0, SlotCovered
    <3>2. CASE i < head
      <4>1. i \in tail .. head - 1 /\ i + 1 \in tail + 1 .. head
        BY <2>0, <3>2
      <4>2. buffer[s] = accepted[i + 1] \/ buffer[s] = NULL
        BY <3>1, <4>1 DEF IInv, ClaimedInv
      <4> QED BY <2>0, <4>1, <4>2, NullAssumption DEF LInv, OwnInv
    <3>3. CASE i >= head
      <4>1. i \in head .. tail + Capacity - 1
        BY <2>0, <3>3
      <4>2. buffer[s] = NULL
        BY <3>1, <4>1 DEF IInv, FreeInv
      <4> QED BY <2>0, <4>2, NullAssumption
    <3> QED BY <2>0, <3>2, <3>3
  <2>2. ASSUME NEW p \in Producers PROVE item[p] \notin freed
    <3>1. CASE Offering(p)
      BY <3>1 DEF LInv, OwnInv
    <3>2. CASE pc[p] = "idle"
      BY <2>0, <3>2, NullAssumption DEF LInv, OwnInv
    <3>3. CASE pc[p] = "store"
      <4>1. pos[p] \in Nat /\ tail <= pos[p] /\ pos[p] < head /\ item[p] = accepted[pos[p] + 1]
        BY <3>3 DEF IInv, ProducerInv, TypeOK, Threads
      <4>2. pos[p] + 1 \in tail + 1 .. head
        BY <2>0, <4>1
      <4> QED BY <4>1, <4>2 DEF LInv, OwnInv
    <3> QED BY <3>1, <3>2, <3>3 DEF IInv, ProducerInv, Offering
  <2>3. ASSUME NEW c \in Consumers, dpc[c] \in {"send", "delete"} PROVE item[c] \notin freed
    BY <2>3 DEF LInv, CarryInv, OwnInv
  <2> QED BY <2>1, <2>2, <2>3 DEF NoUseAfterFree
<1> QED BY DrainInvariance, <1>1, PTL

-----------------------------------------------------------------------------
(* Ownership, seen from the strings: each still has an owner or is deleted. *)
Owned(x) == \/ x \in fresh \cup freed
            \/ \E i \in tail + 1 .. head : accepted[i] = x
            \/ \E p \in Producers : Offering(p) /\ item[p] = x
            \/ \E c \in Consumers : dpc[c] \in {"send", "delete"} /\ accepted[tail] = x

AllOwned == \A x \in Items : Owned(x)

(* What the socket took are strings the drainer has done with, in order.    *)
Behind(i) == \E a \in 1 .. tail : /\ accepted[a] = wire[i]
                                  /\ \A c \in Consumers : dpc[c] = "send" => a < tail

WireInv == WireInOrder /\ \A i \in 1 .. Len(wire) : Behind(i)

(* What the ring knows of the positions both arguments speak of.            *)
LEMMA RingFacts ==
  ASSUME IInv, LInv
  PROVE  /\ pc \in [Threads -> {"idle", "head", "tail", "drop", "cas", "store",
                                "deq_head", "deq_slot", "deq_clear", "deq_tail"}]
         /\ item \in [Threads -> Items \cup {NULL}] /\ fresh \subseteq Items
         /\ Producers \subseteq Threads /\ Consumers \subseteq Threads
         /\ tail \in Nat /\ head \in Nat /\ tail <= head /\ Len(accepted) = head
         /\ accepted \in Seq(Items) /\ wire \in Seq(Items)
         /\ dpc \in [Consumers -> {"out", "call", "deq", "send", "delete", "drops", "reset", "warn"}]
  BY DEF IInv, LInv, LTypeOK, TypeOK, CountersInv, Threads

(* A producer's step leaves what has been accepted where it was.            *)
LEMMA ProducersOnlyAppend ==
  ASSUME IInv, LInv, NEW p \in Producers, Produce(p)
  PROVE  /\ UNCHANGED <<tail, dpc, wire>> /\ head <= head'
         /\ Len(accepted) <= Len(accepted')
         /\ \A i \in 1 .. head : accepted'[i] = accepted[i]
<1> USE RingFacts DEF dlocals, dhist, ring, hist, locals
<1>1. CASE CasSuccess(p) /\ UNCHANGED <<dlocals, dhist>>
  <2>1. item[p] \in Items
    BY <1>1 DEF CasSuccess, IInv, ProducerInv
  <2>2. accepted' = Append(accepted, item[p]) /\ head' = head + 1 /\ UNCHANGED <<tail, dpc, wire>>
    BY <1>1 DEF CasSuccess
  <2>3. \A i \in 1 .. head : accepted'[i] = accepted[i]
    BY <2>1, <2>2, AppendAt
  <2> QED BY <2>1, <2>2, <2>3
<1>2. CASE UNCHANGED <<tail, dpc, wire, accepted, head>>
  BY <1>2
<1> QED BY <1>1, <1>2 DEF Produce, Refused, Drop, Call, LoadHead, LoadTail, CasFailure, Store

(* The drainer advances tail_ exactly when it takes a string to send.       *)
LEMMA DrainerTakes ==
  ASSUME IInv, LInv, NEW c \in Consumers, Begin(c) \/ Drain(c)
  PROVE  /\ UNCHANGED <<accepted, head, fresh>>
         /\ \A p \in Producers : pc'[p] = pc[p] /\ item'[p] = item[p]
         /\ \/ tail' = tail + 1 /\ tail < head /\ dpc[c] = "deq" /\ dpc'[c] = "send" /\ UNCHANGED <<wire, freed>>
            \/ /\ tail' = tail /\ Send(c) /\ dpc[c] = "send" /\ dpc'[c] = "delete" /\ UNCHANGED freed
               /\ item[c] = accepted[tail] /\ tail > 0
            \/ /\ tail' = tail /\ dpc[c] = "delete" /\ dpc'[c] = "call" /\ UNCHANGED wire
               /\ freed' = freed \cup {accepted[tail]}
            \/ /\ tail' = tail /\ dpc[c] \notin {"send", "delete"} /\ dpc'[c] \notin {"send", "delete"}
               /\ UNCHANGED <<wire, freed>>
<1> USE RingFacts, ThreadAssumption, NullAssumption DEF dlocals, dhist, ring, hist, locals, DGoto, Goto
<1>0. c \in Threads /\ c \notin Producers
  OBVIOUS
<1>1. /\ UNCHANGED <<accepted, head, fresh>>
      /\ \A p \in Producers : pc'[p] = pc[p] /\ item'[p] = item[p]
  BY <1>0 DEF Begin, Drain, CallDequeue, InDequeue, Send, Delete, LoadDrops, Reset,
       Warn, DeqLoadTail, DeqLoadHead, DeqLoadSlot, DeqClear, DeqStoreTail, ResetDropCount, vars
<1>2. CASE InDequeue(c) /\ DeqStoreTail(c)
  <2>1. tail' = tail + 1 /\ tail < head /\ item[c] = accepted[tail + 1]
    BY <1>2 DEF DeqStoreTail, IInv, ConsumerInv
  <2>2. item[c] \in Items /\ item'[c] = item[c] /\ pc'[c] = "idle"
    BY <1>0, <1>2, <2>1 DEF DeqStoreTail
  <2>3. dpc[c] = "deq" /\ dpc'[c] = "send" /\ UNCHANGED <<wire, freed>>
    BY <1>2, <2>2 DEF InDequeue
  <2> QED BY <1>1, <2>1, <2>3
<1>3. CASE InDequeue(c) /\ ~DeqStoreTail(c)
  <2>1. tail' = tail /\ UNCHANGED <<wire, freed>> /\ dpc[c] = "deq"
    BY <1>3 DEF InDequeue, DeqLoadHead, DeqLoadSlot, DeqClear
  <2>2. pc'[c] = "idle" => item'[c] = NULL
    BY <1>0, <1>3 DEF InDequeue, DeqLoadHead, DeqLoadSlot, DeqClear, LInv, CarryInv
  <2>3. dpc'[c] \notin {"send", "delete"}
    BY <1>3, <2>2 DEF InDequeue
  <2> QED BY <1>1, <2>1, <2>3
<1>4. CASE Send(c)
  BY <1>1, <1>4 DEF Send, vars, LInv, CarryInv
<1>5. CASE Delete(c)
  BY <1>1, <1>5 DEF Delete, vars, LInv, CarryInv
<1>6. CASE Begin(c) \/ CallDequeue(c) \/ LoadDrops(c) \/ Reset(c) \/ Warn(c)
  BY <1>1, <1>6 DEF Begin, CallDequeue, DeqLoadTail, LoadDrops, Reset, ResetDropCount, Warn, vars
<1> QED BY <1>2, <1>3, <1>4, <1>5, <1>6 DEF Drain

LEMMA AllOwnedNext ==
  ASSUME OneAtATime, OneAtATime', IInv, LInv, AllOwned, LNext PROVE AllOwned'
<1> USE RingFacts, ThreadAssumption
<1> SUFFICES ASSUME NEW x \in Items, Owned(x) PROVE Owned(x)'
  BY DEF AllOwned
<1>1. ASSUME NEW p \in Producers, Produce(p) PROVE Owned(x)'
  <2>1. /\ UNCHANGED <<tail, dpc>> /\ head' \in Int /\ head <= head'
        /\ \A i \in 1 .. head : accepted'[i] = accepted[i]
        /\ freed \subseteq freed'
    <3>1. freed \subseteq freed' /\ head' \in Int
      BY <1>1 DEF Produce, Refused, Drop, Call, LoadHead, LoadTail, CasSuccess, CasFailure, Store, dhist, ring
    <3> QED BY <1>1, <3>1, ProducersOnlyAppend
  <2>2. CASE \E i \in tail + 1 .. head : accepted[i] = x
    BY <2>1, <2>2 DEF Owned
  <2>3. CASE \E c \in Consumers : dpc[c] \in {"send", "delete"} /\ accepted[tail] = x
    <3>1. tail \in 1 .. head
      BY <2>3 DEF LInv, CarryInv
    <3> QED BY <2>1, <2>3, <3>1 DEF Owned
  <2>4. CASE x \in fresh
    <3>1. CASE x \in fresh'
      BY <3>1 DEF Owned
    <3>2. CASE x \notin fresh'
      <4>1. Call(p)
        BY <1>1, <2>4, <3>2 DEF Produce, Refused, Drop, LoadHead, LoadTail, CasSuccess, CasFailure, Store, hist
      <4>2. Offering(p)' /\ item'[p] = x
        BY <2>4, <3>2, <4>1 DEF Call, Goto, Offering
      <4> QED BY <4>2 DEF Owned
    <3> QED BY <3>1, <3>2
  <2>5. CASE x \in freed
    BY <2>1, <2>5 DEF Owned
  <2>6. ASSUME NEW q \in Producers, Offering(q), item[q] = x PROVE Owned(x)'
    <3>1. CASE q # p
      <4>1. pc'[q] = pc[q] /\ item'[q] = item[q]
        BY <1>1, <3>1 DEF Produce, Refused, Drop, Call, LoadHead, LoadTail, CasSuccess, CasFailure,
                          Store, Goto, locals
      <4> QED BY <2>6, <4>1 DEF Owned, Offering
    <3>2. CASE q = p /\ Refused(p)
      BY <2>6, <3>2 DEF Refused, Owned
    <3>3. CASE q = p /\ CasSuccess(p)
      <4>1. head' = head + 1 /\ accepted' = Append(accepted, x)
        BY <2>6, <3>3 DEF CasSuccess
      <4>2. accepted'[head'] = x /\ head' \in tail' + 1 .. head'
        BY <2>1, <4>1, AppendAt
      <4> QED BY <4>2 DEF Owned
    <3>4. CASE q = p /\ (LoadHead(p) \/ LoadTail(p) \/ CasFailure(p))
      <4>1. Offering(p)' /\ item' = item
        BY <3>4 DEF LoadHead, LoadTail, CasFailure, Goto, Offering
      <4> QED BY <2>6, <3>4, <4>1 DEF Owned
    <3> QED BY <1>1, <2>6, <3>1, <3>2, <3>3, <3>4 DEF Produce, Call, Store, Offering
  <2> QED BY <2>2, <2>3, <2>4, <2>5, <2>6 DEF Owned
<1>2. ASSUME NEW c \in Consumers, Begin(c) \/ Drain(c) PROVE Owned(x)'
  <2>0. \A d \in Consumers \ {c} : dpc[d] = "out" /\ dpc'[d] = "out"
    BY <1>2, Alone
  <2>1. /\ UNCHANGED <<accepted, head, fresh>>
        /\ \A p \in Producers : pc'[p] = pc[p] /\ item'[p] = item[p]
    BY <1>2, DrainerTakes
  <2>2. CASE tail' = tail + 1 /\ dpc[c] = "deq" /\ dpc'[c] = "send" /\ UNCHANGED freed
    BY <2>0, <2>1, <2>2 DEF Owned, Offering
  <2>3. CASE dpc[c] = "delete" /\ freed' = freed \cup {accepted[tail]} /\ tail' = tail
    BY <2>0, <2>1, <2>3 DEF Owned, Offering
  <2>4. CASE tail' = tail /\ dpc[c] = "send" /\ dpc'[c] = "delete" /\ UNCHANGED freed
    BY <2>0, <2>1, <2>4 DEF Owned, Offering
  <2>5. CASE tail' = tail /\ dpc[c] \notin {"send", "delete"} /\ UNCHANGED freed
    BY <2>0, <2>1, <2>5 DEF Owned, Offering
  <2> QED BY <1>2, <2>2, <2>3, <2>4, <2>5, DrainerTakes
<1> QED BY <1>1, <1>2 DEF LNext

LEMMA OrderKept ==
  ASSUME WireInOrder, UNCHANGED <<accepted, wire>> PROVE WireInOrder'
<1> DEFINE InOrder(a, w) == \A i, j \in 1 .. Len(w) :
               i < j => \E k, l \in 1 .. Len(a) : k < l /\ a[k] = w[i] /\ a[l] = w[j]
<1>1. InOrder(accepted, wire) /\ (WireInOrder' <=> InOrder(accepted', wire'))
  BY Zenon DEF WireInOrder
<1> HIDE DEF InOrder
<1> QED BY <1>1

LEMMA WireInvNext ==
  ASSUME OneAtATime, OneAtATime', IInv, LInv, WireInv, LNext PROVE WireInv'
<1> USE RingFacts
<1>1. ASSUME NEW p \in Producers, Produce(p) PROVE WireInv'
  <2>1. /\ UNCHANGED <<tail, dpc, wire>> /\ Len(accepted) <= Len(accepted')
        /\ \A i \in 1 .. head : accepted'[i] = accepted[i]
    BY <1>1, ProducersOnlyAppend
  <2>2. Len(accepted') \in Int
    BY <1>1 DEF Produce, Refused, Drop, Call, LoadHead, LoadTail, CasSuccess, CasFailure, Store, hist,
                IInv, ProducerInv
  <2>3. ASSUME NEW i \in 1 .. Len(wire) PROVE Behind(i)'
    <3>1. PICK a \in 1 .. tail : /\ accepted[a] = wire[i]
                               /\ \A c \in Consumers : dpc[c] = "send" => a < tail
      BY DEF WireInv, Behind
    <3>2. accepted'[a] = wire'[i]
      BY <2>1, <3>1
    <3> QED BY <2>1, <3>1, <3>2 DEF Behind
  <2>4. WireInOrder'
    <3> SUFFICES ASSUME NEW i \in 1 .. Len(wire), NEW j \in 1 .. Len(wire), i < j
                 PROVE  \E a, b \in 1 .. Len(accepted') :
                            a < b /\ accepted'[a] = wire[i] /\ accepted'[b] = wire[j]
      BY <2>1 DEF WireInOrder
    <3>1. PICK a \in 1 .. Len(accepted), b \in 1 .. Len(accepted) :
              a < b /\ accepted[a] = wire[i] /\ accepted[b] = wire[j]
      BY DEF WireInv, WireInOrder
    <3>2. /\ a \in 1 .. Len(accepted') /\ b \in 1 .. Len(accepted')
          /\ accepted'[a] = wire[i] /\ accepted'[b] = wire[j]
      BY <2>1, <2>2, <3>1
    <3> QED BY <3>1, <3>2
  <2> QED BY <2>1, <2>3, <2>4 DEF WireInv
<1>2. ASSUME NEW c \in Consumers, Begin(c) \/ Drain(c) PROVE WireInv'
  <2>0. \A d \in Consumers \ {c} : dpc[d] = "out" /\ dpc'[d] = "out"
    BY <1>2, Alone
  <2>1. UNCHANGED <<accepted, head>>
    BY <1>2, DrainerTakes
  <2>2. CASE wire' = wire
    <3>1. \/ tail' = tail + 1
          \/ tail' = tail /\ dpc'[c] # "send"
      BY <1>2, DrainerTakes
    <3>2. ASSUME NEW i \in 1 .. Len(wire) PROVE Behind(i)'
      <4>1. PICK a \in 1 .. tail : accepted[a] = wire[i]
        BY DEF WireInv, Behind
      <4>2. a \in 1 .. tail' /\ accepted'[a] = wire'[i]
        BY <2>1, <2>2, <3>1, <4>1
      <4>3. dpc'[c] = "send" => a < tail'
        BY <3>1, <4>1
      <4> QED BY <2>0, <4>2, <4>3 DEF Behind
    <3>3. WireInOrder
      BY DEF WireInv
    <3>4. WireInOrder'
      BY <2>1, <2>2, <3>3, OrderKept
    <3>5. \A i \in 1 .. Len(wire') : Behind(i)'
      BY <2>2, <3>2
    <3> HIDE DEF WireInOrder
    <3> QED BY <3>4, <3>5 DEF WireInv
  <2>3. CASE wire' # wire
    <3>1. /\ tail' = tail /\ tail > 0 /\ dpc[c] = "send" /\ dpc'[c] = "delete"
          /\ wire' = Append(wire, accepted[tail])
      BY <1>2, <2>3, DrainerTakes DEF Send
    <3>2. tail \in 1 .. Len(accepted) /\ accepted[tail] \in Items
      BY <3>1
    <3>3. /\ Len(wire') = Len(wire) + 1 /\ wire'[Len(wire) + 1] = accepted[tail]
          /\ \A i \in 1 .. Len(wire) : wire'[i] = wire[i]
      BY <3>1, <3>2, AppendAt
    <3>4. \A i \in 1 .. Len(wire) : \E a \in 1 .. tail : accepted[a] = wire[i] /\ a < tail
      BY <3>1 DEF WireInv, Behind
    <3>5. ASSUME NEW i \in 1 .. Len(wire') PROVE Behind(i)'
      <4>1. i \in 1 .. Len(wire) \/ i = Len(wire) + 1
        BY <3>3
      <4>2. \A d \in Consumers : dpc'[d] # "send"
        BY <2>0, <3>1
      <4>3. \E a \in 1 .. tail : accepted[a] = wire'[i]
        BY <3>1, <3>2, <3>3, <3>4, <4>1
      <4> QED BY <2>1, <3>1, <4>2, <4>3 DEF Behind
    <3>6. ASSUME NEW i \in 1 .. Len(wire'), NEW j \in 1 .. Len(wire'), i < j
          PROVE  \E a, b \in 1 .. Len(accepted) : a < b /\ accepted[a] = wire'[i] /\ accepted[b] = wire'[j]
      <4>1. CASE j \in 1 .. Len(wire)
        <5>1. i \in 1 .. Len(wire)
          BY <3>6, <4>1
        <5> QED BY <3>3, <3>6, <4>1, <5>1 DEF WireInv, WireInOrder
      <4>2. CASE j = Len(wire) + 1
        <5>1. i \in 1 .. Len(wire)
          BY <3>6, <4>2
        <5>2. PICK a \in 1 .. tail : accepted[a] = wire[i] /\ a < tail
          BY <3>4, <5>1
        <5>3. a \in 1 .. Len(accepted) /\ a < tail /\ accepted[a] = wire'[i] /\ accepted[tail] = wire'[j]
          BY <3>2, <3>3, <4>2, <5>1, <5>2
        <5> QED BY <3>2, <5>3
      <4> QED BY <3>3, <4>1, <4>2
    <3>7. accepted' = accepted
      BY <2>1
    <3>8. WireInOrder'
      BY <3>6, <3>7 DEF WireInOrder
    <3>9. \A i \in 1 .. Len(wire') : Behind(i)'
      BY <3>5
    <3> QED BY <3>8, <3>9 DEF WireInv
  <2> QED BY <2>2, <2>3
<1> QED BY <1>1, <1>2 DEF LNext

(* When every call has returned and the ring is empty, every string that was *)
(* enqueued or refused has been deleted.                                      *)
THEOREM NothingLeaks ==
  LSpec /\ []OneAtATime => []NoLeak
<1>1. LInit => AllOwned
  BY DEF LInit, Init, AllOwned, Owned
<1>2. IInv /\ LInv /\ OneAtATime /\ OneAtATime' /\ AllOwned /\ [LNext]_lvars => AllOwned'
  <2>1. ASSUME AllOwned, UNCHANGED lvars PROVE AllOwned'
    BY <2>1 DEF lvars, vars, ring, hist, locals, dlocals, dhist, AllOwned, Owned, Offering
  <2> QED BY <2>1, AllOwnedNext
<1>3. IInv /\ LInv /\ AllOwned => NoLeak
  <2> SUFFICES ASSUME IInv, LInv, AllOwned, Quiet PROVE freed = Items \ fresh
    BY DEF NoLeak
  <2>1. tail + 1 .. head = {}
    BY RingFacts DEF Quiet
  <2>2. \A x \in Items : x \in fresh \cup freed
    BY <2>1 DEF AllOwned, Owned, Quiet, Offering
  <2> QED BY <2>2 DEF LInv, LTypeOK, OwnInv
<1> QED BY <1>1, <1>2, <1>3, DrainInvariance, PTL DEF LSpec

(* The socket sees the strings at most once each, in the order accepted.     *)
THEOREM SocketSeesOrder ==
  LSpec /\ []OneAtATime => []WireInOrder
<1>1. LInit => WireInv
  BY DEF LInit, WireInv, WireInOrder
<1>2. IInv /\ LInv /\ OneAtATime /\ OneAtATime' /\ WireInv /\ [LNext]_lvars => WireInv'
  <2>1. ASSUME WireInv, UNCHANGED lvars PROVE WireInv'
    BY <2>1 DEF lvars, vars, ring, hist, dlocals, dhist, WireInv, WireInOrder, Behind
  <2> QED BY <2>1, WireInvNext
<1>3. WireInv => WireInOrder
  BY DEF WireInv
<1> QED BY <1>1, <1>2, <1>3, DrainInvariance, PTL DEF LSpec
=============================================================================
