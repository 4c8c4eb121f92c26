------------------------------- MODULE SpscQueue -------------------------------
(***************************************************************************)
(* spsc_queue<T, Capacity> of src/xray-sock/safe_queue.h: the ring that     *)
(* carries REPL commands from the network thread to Xray::update.  Its      *)
(* slots are plain strings, copied in and out, so that besides the order of *)
(* the commands the absence of data races on the slots matters.             *)
(*                                                                          *)
(* One action per access of an atomic or of a slot, sequentially            *)
(* consistent: each index is stored with release by the one thread that     *)
(* advances it and loaded with acquire by the other.                        *)
(***************************************************************************)
EXTENDS Ring, Sequences

CONSTANTS Items,       \* the commands
          NULL         \* a slot never written

ASSUME NullAssumption == NULL \notin Items

VARIABLES
    buffer, head, tail,
    ppc, h, arg,        \* the producer's next access, its h and its argument
    cpc, t, out,        \* the consumer's next access, its t and its result
    calls,              \* history: commands whose try_enqueue has begun
    accepted,           \* history: commands in the order of the head_ stores
    received            \* history: commands in the order of the tail_ stores

pvars == <<ppc, h, arg>>
cvars == <<cpc, t, out>>
vars  == <<buffer, head, tail, pvars, cvars, calls, accepted, received>>

Init == /\ buffer = [i \in 0 .. Capacity - 1 |-> NULL]
        /\ head = 0 /\ tail = 0
        /\ ppc = "idle" /\ h = 0 /\ arg = NULL
        /\ cpc = "idle" /\ t = 0 /\ out = NULL
        /\ calls = {}
        /\ accepted = <<>> /\ received = <<>>

-----------------------------------------------------------------------------
(* try_enqueue *)

Call == /\ ppc = "idle"
        /\ \E x \in Items \ calls : arg' = x /\ calls' = calls \cup {x}
        /\ ppc' = "head"
        /\ UNCHANGED <<buffer, head, tail, h, cvars, accepted, received>>

EnqLoadHead == /\ ppc = "head"
               /\ h' = head
               /\ ppc' = "tail"
               /\ UNCHANGED <<buffer, head, tail, arg, cvars, calls, accepted, received>>

\* A full ring refuses the new command: try_enqueue returns false.
EnqLoadTail == /\ ppc = "tail"
               /\ ppc' = IF Full(h, tail) THEN "idle" ELSE "write"
               /\ UNCHANGED <<buffer, head, tail, h, arg, cvars, calls, accepted, received>>

EnqWrite == /\ ppc = "write"
            /\ buffer' = [buffer EXCEPT ![Slot(h)] = arg]
            /\ ppc' = "publish"
            /\ UNCHANGED <<head, tail, h, arg, cvars, calls, accepted, received>>

EnqStoreHead == /\ ppc = "publish"
                /\ head' = h + 1
                /\ accepted' = Append(accepted, arg)
                /\ ppc' = "idle"
                /\ UNCHANGED <<buffer, tail, h, arg, cvars, calls, received>>

-----------------------------------------------------------------------------
(* try_dequeue *)

DeqLoadTail == /\ cpc = "idle"
               /\ t' = tail
               /\ cpc' = "head"
               /\ UNCHANGED <<buffer, head, tail, pvars, out, calls, accepted, received>>

MutDeqKeepsLast == /\ cpc = "head"
                   /\ cpc' = IF t + 1 >= head THEN "idle" ELSE "copy"
                   /\ UNCHANGED <<buffer, head, tail, pvars, t, out, calls, accepted, received>>

DeqLoadHead == /\ cpc = "head"
               /\ cpc' = IF t >= head THEN "idle" ELSE "copy"
               /\ UNCHANGED <<buffer, head, tail, pvars, t, out, calls, accepted, received>>

DeqCopy == /\ cpc = "copy"
           /\ out' = buffer[Slot(t)]
           /\ cpc' = "release"
           /\ UNCHANGED <<buffer, head, tail, pvars, t, calls, accepted, received>>

DeqStoreTail == /\ cpc = "release"
                /\ tail' = t + 1
                /\ received' = Append(received, out)
                /\ cpc' = "idle"
                /\ UNCHANGED <<buffer, head, pvars, t, out, calls, accepted>>

Enqueue == EnqLoadHead \/ EnqLoadTail \/ EnqWrite \/ EnqStoreHead
Dequeue == DeqLoadTail \/ DeqLoadHead \/ DeqCopy \/ DeqStoreTail

Next == Call \/ Enqueue \/ Dequeue

Spec == Init /\ [][Next]_vars

(* A thread inside a call goes on; update() polls the ring every frame.     *)
FairSpec == Spec /\ WF_vars(Enqueue) /\ WF_vars(Dequeue)

-----------------------------------------------------------------------------
TypeOK == /\ buffer \in [Slots -> Items \cup {NULL}]
          /\ head \in Nat /\ tail \in Nat
          /\ ppc \in {"idle", "head", "tail", "write", "publish"}
          /\ cpc \in {"idle", "head", "copy", "release"}
          /\ h \in Nat /\ t \in Nat
          /\ arg \in Items \cup {NULL} /\ out \in Items \cup {NULL}
          /\ calls \subseteq Items
          /\ accepted \in Seq(Items) /\ received \in Seq(Items)

(* The string assignment of the producer and the string copy of the         *)
(* consumer never touch the same slot at the same time.                     *)
NoDataRace == ~(ppc = "write" /\ cpc = "copy" /\ Slot(h) = Slot(t))

(* update() sees the accepted commands once each, in the order sent.        *)
FIFO == /\ Len(received) <= Len(accepted)
        /\ \A i \in 1 .. Len(received) : received[i] = accepted[i]

(* The ring implements the lossy channel: the store of head_ puts, the      *)
(* store of tail_ takes.                                                    *)
Channel == INSTANCE BoundedChannel WITH sent <- accepted, rcvd <- received

ImplementsChannel == Channel!Spec

(* Every command put in the ring reaches update(): the refinement with its  *)
(* fairness.                                                                *)
ImplementsFairChannel == Channel!FairSpec

(* A command is refused only when Capacity commands wait for update().      *)
DropOnlyWhenFull ==
    [][ppc = "tail" /\ ppc' = "idle" => head - tail >= Capacity]_vars

(* The strengthening that makes the properties inductive.                   *)
CountersInv == /\ tail <= head /\ head <= tail + Capacity
               /\ Len(accepted) = head
               /\ Len(received) = tail

ProducerInv == /\ ppc # "idle" => arg \in Items
               /\ ppc \in {"tail", "write", "publish"} => h = head
               /\ ppc \in {"write", "publish"} => head < tail + Capacity
               /\ ppc = "publish" => buffer[Slot(head)] = arg

ConsumerInv == /\ cpc # "idle" => t = tail
               /\ cpc \in {"copy", "release"} => tail < head
               /\ cpc = "release" => out = accepted[tail + 1]

StoredInv == \A i \in tail .. head - 1 : buffer[Slot(i)] = accepted[i + 1]

IInv == /\ TypeOK /\ CountersInv /\ ProducerInv /\ ConsumerInv
        /\ StoredInv /\ FIFO
=============================================================================
