------------------------------- MODULE MpscQueue -------------------------------
(***************************************************************************)
(* mpsc_queue<T, Capacity> of src/xray-sock/safe_queue.h: the lock-free     *)
(* ring that carries log lines and REPL results to the network thread.      *)
(*                                                                          *)
(* One action per access of an atomic.  The interleavings are sequentially  *)
(* consistent: the ring's loads are acquire loads (or loads of a word only  *)
(* the reader itself writes), its stores release stores, and the target is  *)
(* x64, where the remaining store-load relaxation only delays a publication *)
(* that the separate Store and StoreTail actions delay already.             *)
(***************************************************************************)
EXTENDS Ring, Sequences

CONSTANTS Producers,    \* threads that call try_enqueue
          Consumers,    \* threads that call try_dequeue (the class wants one)
          Items,        \* the heap strings, each enqueued at most once
          NULL          \* the null pointer

ASSUME NullAssumption == NULL \notin Items
ASSUME ThreadAssumption == Producers \cap Consumers = {}

VARIABLES
    buffer,       \* the slots
    head, tail,   \* head_, tail_
    drop_count,
    pc,           \* next atomic access of each thread; "idle" outside a call
    pos,          \* try_enqueue's h and pos, try_dequeue's t
    item,         \* try_enqueue's argument, try_dequeue's result
    fresh,        \* history: items nobody has tried to enqueue yet
    accepted,     \* history: items in the order their slots were claimed
    received      \* history: items in the order tail_ passed them

ring   == <<buffer, head, tail, drop_count>>
hist   == <<fresh, accepted, received>>
locals == <<pc, pos, item>>
vars   == <<ring, locals, hist>>

Threads == Producers \cup Consumers

Init == /\ buffer = [i \in 0 .. Capacity - 1 |-> NULL]
        /\ head = 0
        /\ tail = 0
        /\ drop_count = 0
        /\ pc = [t \in Threads |-> "idle"]
        /\ pos = [t \in Threads |-> 0]
        /\ item = [t \in Threads |-> NULL]
        /\ fresh = Items
        /\ accepted = <<>>
        /\ received = <<>>

-----------------------------------------------------------------------------
Goto(t, label) == pc' = [pc EXCEPT ![t] = label]

-----------------------------------------------------------------------------
(* try_enqueue *)

Call(p) ==
    /\ pc[p] = "idle"
    /\ \E x \in fresh : /\ item' = [item EXCEPT ![p] = x]
                        /\ fresh' = fresh \ {x}
    /\ Goto(p, "head")
    /\ UNCHANGED <<ring, pos, accepted, received>>

LoadHead(p) ==
    /\ pc[p] = "head"
    /\ pos' = [pos EXCEPT ![p] = head]
    /\ Goto(p, "tail")
    /\ UNCHANGED <<ring, item, hist>>

LoadTail(p) ==
    /\ pc[p] = "tail"
    /\ Goto(p, IF Full(pos[p], tail) THEN "drop" ELSE "cas")
    /\ UNCHANGED <<ring, pos, item, hist>>

\* fetch_add on drop_count_, then return false: the caller deletes the item.
Drop(p) ==
    /\ pc[p] = "drop"
    /\ drop_count' = drop_count + 1
    /\ item' = [item EXCEPT ![p] = NULL]
    /\ Goto(p, "idle")
    /\ UNCHANGED <<buffer, head, tail, pos, hist>>

CasSuccess(p) ==
    /\ pc[p] = "cas"
    /\ head = pos[p]
    /\ head' = head + 1
    /\ accepted' = Append(accepted, item[p])
    /\ Goto(p, "store")
    /\ UNCHANGED <<buffer, tail, drop_count, pos, item, fresh, received>>

\* compare_exchange_weak may also fail spuriously.
CasFailure(p) ==
    /\ pc[p] = "cas"
    /\ Goto(p, "head")
    /\ UNCHANGED <<ring, pos, item, hist>>

MutStoreNextSlot(p) ==
    /\ pc[p] = "store"
    /\ buffer' = [buffer EXCEPT ![Slot(pos[p] + 1)] = item[p]]
    /\ item' = [item EXCEPT ![p] = NULL]
    /\ Goto(p, "idle")
    /\ UNCHANGED <<head, tail, drop_count, pos, hist>>

Store(p) ==
    /\ pc[p] = "store"
    /\ buffer' = [buffer EXCEPT ![Slot(pos[p])] = item[p]]
    /\ item' = [item EXCEPT ![p] = NULL]
    /\ Goto(p, "idle")
    /\ UNCHANGED <<head, tail, drop_count, pos, hist>>

Enqueue(p) == \/ LoadHead(p) \/ LoadTail(p) \/ Drop(p)
              \/ CasSuccess(p) \/ CasFailure(p) \/ Store(p)

-----------------------------------------------------------------------------
(* try_dequeue *)

DeqLoadTail(c) ==
    /\ pc[c] = "idle"
    /\ pos' = [pos EXCEPT ![c] = tail]
    /\ item' = [item EXCEPT ![c] = NULL]
    /\ Goto(c, "deq_head")
    /\ UNCHANGED <<ring, hist>>

DeqLoadHead(c) ==
    /\ pc[c] = "deq_head"
    /\ Goto(c, IF pos[c] >= head THEN "idle" ELSE "deq_slot")
    /\ UNCHANGED <<ring, pos, item, hist>>

MutDeqLoadSlotUnchecked(c) ==
    /\ pc[c] = "deq_slot"
    /\ item' = [item EXCEPT ![c] = buffer[Slot(pos[c])]]
    /\ Goto(c, "deq_clear")
    /\ UNCHANGED <<ring, pos, hist>>

\* A claimed slot that its producer has not written yet reads as empty.
DeqLoadSlot(c) ==
    /\ pc[c] = "deq_slot"
    /\ LET x == buffer[Slot(pos[c])]
       IN  /\ item' = [item EXCEPT ![c] = x]
           /\ Goto(c, IF x = NULL THEN "idle" ELSE "deq_clear")
    /\ UNCHANGED <<ring, pos, hist>>

MutDeqNoClear(c) ==
    /\ pc[c] = "deq_clear"
    /\ Goto(c, "deq_tail")
    /\ UNCHANGED <<ring, pos, item, hist>>

DeqClear(c) ==
    /\ pc[c] = "deq_clear"
    /\ buffer' = [buffer EXCEPT ![Slot(pos[c])] = NULL]
    /\ Goto(c, "deq_tail")
    /\ UNCHANGED <<head, tail, drop_count, pos, item, hist>>

DeqStoreTail(c) ==
    /\ pc[c] = "deq_tail"
    /\ tail' = pos[c] + 1
    /\ received' = Append(received, item[c])
    /\ Goto(c, "idle")
    /\ UNCHANGED <<buffer, head, drop_count, pos, item, fresh, accepted>>

Dequeue(c) == \/ DeqLoadTail(c) \/ DeqLoadHead(c) \/ DeqLoadSlot(c)
              \/ DeqClear(c) \/ DeqStoreTail(c)

ResetDropCount(c) ==
    /\ pc[c] = "idle"
    /\ drop_count' = 0
    /\ UNCHANGED <<buffer, head, tail, locals, hist>>

-----------------------------------------------------------------------------
Next == \/ \E p \in Producers : Call(p) \/ Enqueue(p)
        \/ \E c \in Consumers : Dequeue(c) \/ ResetDropCount(c)

Spec == Init /\ [][Next]_vars

(* The scheduler runs every thread that is inside a call, and the consumer  *)
(* is polled for ever (the worker calls on_tick every few milliseconds).    *)
(* The strong fairness says that a weak CAS does not fail spuriously for    *)
(* ever.                                                                    *)
Fairness == /\ \A p \in Producers : /\ WF_vars(Enqueue(p))
                                    /\ SF_vars(CasSuccess(p))
            /\ \A c \in Consumers : WF_vars(Dequeue(c))

FairSpec == Spec /\ Fairness

(* The condition under which the class works, whichever threads drain it:   *)
(* the calls of try_dequeue do not overlap.                                 *)
OneDequeuer == \A c, d \in Consumers : pc[c] # "idle" /\ pc[d] # "idle" => c = d

-----------------------------------------------------------------------------
(* Properties.  They are about a ring whose dequeues do not overlap unless  *)
(* they say so.                                                             *)

TypeOK ==
    /\ buffer \in [Slots -> Items \cup {NULL}]
    /\ head \in Nat /\ tail \in Nat /\ drop_count \in Nat
    /\ pc \in [Threads -> {"idle", "head", "tail", "drop", "cas", "store",
                           "deq_head", "deq_slot", "deq_clear", "deq_tail"}]
    /\ pos \in [Threads -> Nat]
    /\ item \in [Threads -> Items \cup {NULL}]
    /\ fresh \subseteq Items
    /\ accepted \in Seq(Items)
    /\ received \in Seq(Items)

(* A producer that has won its slot by the CAS and not written it yet finds *)
(* it empty, and no other producer is about to write the same slot: the     *)
(* blind store after the CAS never overwrites an undelivered item.          *)
NoOverwrite ==
    \A p \in Producers : pc[p] = "store" =>
        /\ buffer[Slot(pos[p])] = NULL
        /\ \A q \in Producers \ {p} :
               pc[q] = "store" => Slot(pos[q]) # Slot(pos[p])

(* What the consumer took is a prefix of what the producers claimed: no     *)
(* accepted item is lost, delivered twice or overtaken, although producers  *)
(* publish their slots in any order.                                        *)
FIFO == /\ Len(received) <= Len(accepted)
        /\ \A i \in 1 .. Len(received) : received[i] = accepted[i]

(* Every accepted item is still owned by exactly one party: it is in the    *)
(* ring, in the hands of the producer that claimed its slot, or in those of *)
(* the consumer that cleared it; everything before tail_ was delivered.     *)
Conservation ==
    \A i \in tail + 1 .. head :
        \/ buffer[Slot(i - 1)] = accepted[i]
        \/ \E p \in Producers : pc[p] = "store" /\ pos[p] = i - 1 /\ item[p] = accepted[i]
        \/ \E c \in Consumers : pc[c] = "deq_tail" /\ pos[c] = i - 1 /\ item[c] = accepted[i]

(* The ring implements the lossy channel: a claim is a put, the store of    *)
(* tail_ a take.  The refused item is the newest, and an accepted one stays:*)
(* not the drop-oldest policy that the repository's documents describe (see *)
(* BoundedChannel).                                                         *)
Channel == INSTANCE BoundedChannel WITH sent <- accepted, rcvd <- received

ImplementsChannel == Channel!Spec

(* The strengthening that makes the properties above inductive.  head_ and  *)
(* tail_ count the claims and the deliveries; a CAS that can still succeed  *)
(* finds room; the claimed positions tail .. head - 1 hold their item or a  *)
(* hole with an owner, and the other positions of the window hold nothing.  *)
CountersInv == /\ tail <= head
               /\ head <= tail + Capacity
               /\ Len(accepted) = head
               /\ Len(received) = tail

ProducerInv ==
    \A p \in Producers :
        /\ pc[p] \in {"idle", "head", "tail", "drop", "cas", "store"}
        /\ pc[p] # "idle" => item[p] \in Items
        /\ pc[p] \in {"tail", "cas"} => pos[p] <= head
        /\ (pc[p] = "cas" /\ pos[p] = head) => head < tail + Capacity
        /\ pc[p] = "store" => /\ tail <= pos[p] /\ pos[p] < head
                              /\ item[p] = accepted[pos[p] + 1]
                              /\ buffer[Slot(pos[p])] = NULL
                              /\ \A q \in Producers \ {p} :
                                     pc[q] = "store" => pos[q] # pos[p]

ConsumerInv ==
    \A c \in Consumers :
        /\ pc[c] \in {"idle", "deq_head", "deq_slot", "deq_clear", "deq_tail"}
        /\ pc[c] # "idle" => pos[c] = tail
        /\ pc[c] \in {"deq_slot", "deq_clear", "deq_tail"} => tail < head
        /\ pc[c] \in {"deq_clear", "deq_tail"} => item[c] = accepted[tail + 1]
        /\ pc[c] = "deq_clear" => buffer[Slot(tail)] = accepted[tail + 1]
        /\ pc[c] = "deq_tail" =>
               /\ buffer[Slot(tail)] = NULL
               /\ \A p \in Producers : pc[p] = "store" => pos[p] # tail

ClaimedInv ==
    \A i \in tail .. head - 1 :
        \/ buffer[Slot(i)] = accepted[i + 1]
        \/ /\ buffer[Slot(i)] = NULL
           /\ \/ \E p \in Producers : pc[p] = "store" /\ pos[p] = i
              \/ \E c \in Consumers : pc[c] = "deq_tail" /\ pos[c] = i

FreeInv == \A i \in head .. tail + Capacity - 1 : buffer[Slot(i)] = NULL

IInv == /\ TypeOK /\ CountersInv /\ ProducerInv /\ ConsumerInv
        /\ ClaimedInv /\ FreeInv /\ FIFO

(* try_enqueue refuses an item only when the ring is full at that moment.   *)
DropOnlyWhenFull ==
    [][\A p \in Producers : (pc[p] = "tail" /\ pc'[p] = "drop")
                                => head - tail >= Capacity]_vars

(* What can be behind a refusal, whatever the threads do: a full ring, or a *)
(* consumer that has passed the head_ this producer read.                   *)
RefusalExplained ==
    [][\A p \in Producers : (pc[p] = "tail" /\ pc'[p] = "drop")
                                => head - tail >= Capacity \/ pos[p] < tail]_vars

(* Every accepted item is delivered in the end: the hole that a slow        *)
(* producer leaves in the ring delays the items behind it and no more, and  *)
(* overflow costs only items that were never accepted.  That is the code's  *)
(* policy (safe_queue.h:32-35); "drop-oldest: oldest log silently           *)
(* discarded" (docs/CPP-API.md:143 and four more places) says the contrary. *)
Delivery == \A n \in 1 .. Capacity + 1 :
                (Len(accepted) >= n) ~> (Len(received) >= n)
=============================================================================
