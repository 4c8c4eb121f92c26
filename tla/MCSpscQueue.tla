------------------------------ MODULE MCSpscQueue ------------------------------
(* Small instances of the SPSC ring: the commands are interchangeable.      *)
EXTENDS SpscQueue, TLC

Symmetry == Permutations(Items)
=============================================================================
