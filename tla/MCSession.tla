------------------------------- MODULE MCSession -------------------------------
(* A small session in which either client may come first, leave at any time  *)
(* and send any part of its lines: one evaluates three scripts, of which two *)
(* may wait together and the command ring may refuse the third; the other    *)
(* asks for the bindings.                                                    *)
EXTENDS Session

CONSTANTS c1, c2, e1, e2, e3, l1

MCStream == c1 :> <<e1, NL, e2, NL, e3, NL>> @@ c2 :> <<l1, NL>>

MCKind   == e1 :> "repl_eval" @@ e2 :> "repl_eval" @@ e3 :> "repl_eval" @@ l1 :> "list_bindings"
=============================================================================
