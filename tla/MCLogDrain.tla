------------------------------ MODULE MCLogDrain ------------------------------
(* Small instances of the drain loop over the MPSC ring.                    *)
EXTENDS LogDrain, TLC

Symmetry == Permutations(Items) \cup Permutations(Producers)
=============================================================================
