--------------------------------- MODULE Ring ---------------------------------
(***************************************************************************)
(* What the ring buffers of src/xray-sock/safe_queue.h share: positions    *)
(* counted by 64-bit indices that start at 0, the slot a position falls     *)
(* into, and the unsigned test that decides "full".  The indices never     *)
(* wrap within a run of the program; the subtraction head_ - tail_ does    *)
(* when it is given a head_ that is older than tail_, and keeps its width. *)
(***************************************************************************)
EXTENDS Naturals

CONSTANTS Capacity,
          SizeT        \* 2^w for a size_t of w bits

ASSUME CapacityAssumption == Capacity \in Nat \ {0}
ASSUME SizeTAssumption == SizeT \in Nat /\ SizeT > Capacity

Slots == 0 .. Capacity - 1

Slot(i) == i % Capacity

USub(a, b) == IF a >= b THEN a - b ELSE SizeT - (b - a)

MutFullOffByOne(h, t)  == USub(h, t) > Capacity
MutFullKeepsAGap(h, t) == USub(h, t) + 1 >= Capacity
Full(h, t)             == USub(h, t) >= Capacity
=============================================================================
