---------------------------- MODULE BoundedChannel ----------------------------
(***************************************************************************)
(* What every ring buffer of safe_queue.h promises its callers: a lossy    *)
(* but otherwise perfect channel.  An item that is put is taken exactly    *)
(* once, in the order of the puts, and at most Capacity items are inside.  *)
(* A put that the ring refuses is a stuttering step here.                  *)
(*                                                                         *)
(* A full channel refuses the NEWEST item and keeps all it has, because    *)
(* both try_enqueue return false (safe_queue.h:32 and 86).  The documents  *)
(* of the repository describe another policy for the log ring: a full ring *)
(* would drop its oldest item (docs/CPP-API.md:143, docs/LOGGING.md:56 and *)
(* 81, docs/ARCHITECTURE.md:112, docs/NETWORK-PROTOCOL.md:127).  Under     *)
(* that policy an item that was put need not be taken, and no ring of this *)
(* code would implement this channel.                                      *)
(***************************************************************************)
EXTENDS Naturals, Sequences

CONSTANTS Items, Capacity

VARIABLES sent, rcvd

cvars == <<sent, rcvd>>

TypeOK == /\ sent \in Seq(Items)
          /\ rcvd \in Seq(Items)

Init == sent = <<>> /\ rcvd = <<>>

Put(x) == /\ Len(sent) - Len(rcvd) < Capacity
          /\ sent' = Append(sent, x)
          /\ UNCHANGED rcvd

Take == /\ Len(rcvd) < Len(sent)
        /\ rcvd' = Append(rcvd, sent[Len(rcvd) + 1])
        /\ UNCHANGED sent

Next == Take \/ \E x \in Items : Put(x)

Spec == Init /\ [][Next]_cvars

FairSpec == Spec /\ WF_cvars(Take)

-----------------------------------------------------------------------------
(* The taken items are the first items put, none lost, repeated or swapped. *)
InOrder == /\ Len(rcvd) <= Len(sent)
           /\ \A i \in 1 .. Len(rcvd) : rcvd[i] = sent[i]

(* No more than Capacity items are in the channel. *)
Bounded == Len(sent) - Len(rcvd) <= Capacity
=============================================================================
