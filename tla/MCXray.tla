-------------------------------- MODULE MCXray --------------------------------
(* Two log directories and three file names: enough for a retention of one   *)
(* to delete a log, for sessions to share a name, and for one of them to     *)
(* fall back on the other directory.                                         *)
EXTENDS Xray, TLC

CONSTANTS D, P, n1, n2, n3, xb

NameSymmetry == Permutations(Names)
=============================================================================
