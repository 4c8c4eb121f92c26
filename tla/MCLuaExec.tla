------------------------------- MODULE MCLuaExec -------------------------------
(* A small application: a bool, an array of two ints, a text buffer and,     *)
(* behind it, a struct of an int and a text.                                 *)
EXTENDS LuaExec

CONSTANTS a, g, hp, name

Scalar(elem, base)      == [kind |-> "scalar", elem |-> elem, base |-> base, len |-> 1, members |-> <<>>]
Array(elem, base, len)  == [kind |-> "array", elem |-> elem, base |-> base, len |-> len, members |-> <<>>]
Buffer(base, len)       == [kind |-> "string", elem |-> "char", base |-> base, len |-> len, members |-> <<>>]
Struct(base, members)   == [kind |-> "struct", elem |-> "char", base |-> base, len |-> 1, members |-> members]
Member(n, elem, off, l) == [name |-> n, elem |-> elem, offset |-> off, len |-> l]

MCObjects == {Scalar("bool", 1), Array("float", 2, 2), Buffer(4, 2),
              Struct(6, <<Member(hp, "int", 0, 1), Member(name, "char", 1, 1)>>)}
MCTexts   == {<<>>, <<a, a>>}
=============================================================================
