------------------------------ MODULE MCMpscQueue ------------------------------
(* Small instances of the MPSC ring: items are interchangeable, and so are  *)
(* the producers (symmetry is used in the safety runs only).                *)
EXTENDS MpscQueue, TLC

Symmetry == Permutations(Items) \cup Permutations(Producers)
=============================================================================
