------------------------------ MODULE LuaBinding ------------------------------
(***************************************************************************)
(* The application's variables as Lua reaches them: Xray::bind_*, the       *)
(* userdata of lua_state::bind_* and their metatables                       *)
(* (src/xb-xray/inspector.cpp and lua_state.hpp).                           *)
(*                                                                          *)
(* Memory is a row of cells, one per scalar, array element, struct member   *)
(* or character.  A cell remembers the type it was last written as: reading *)
(* it as another type finds bits that are no number of that type.  Numbers  *)
(* are small enough for float and double to hold them; what differs between *)
(* the number types is the width of int and which letter C++ reads by.      *)
(*                                                                          *)
(* Lua values are tagged tuples: <<"nil">>, <<"number", n>>,                *)
(* <<"boolean", b>>, <<"string", s>> with s a sequence of characters, and   *)
(* <<"userdata", o>>.                                                       *)
(***************************************************************************)
EXTENDS Integers, Sequences, FiniteSets

CONSTANTS Names,       \* the globals the application binds
          Objects,     \* what it binds: records [kind, elem, base, len, members]
          Numbers,     \* the Lua integers scripts use
          Texts,       \* the Lua strings scripts use
          Chars, NUL,
          IntWidth,    \* an int is a number of -IntWidth .. IntWidth - 1
          MaxSeen      \* steps of one iteration: bounds the model only

ASSUME CharAssumption  == NUL \notin Chars /\ Chars # {} /\ Texts \subseteq Seq(Chars)
ASSUME WidthAssumption == IntWidth \in Nat \ {0} /\ MaxSeen \in Nat /\ Numbers \subseteq Int

VARIABLES mem,       \* the application's memory
          globals,   \* what Lua's global names hold
          iter,      \* the iteration a script is in
          strayed    \* history: a script used one kind's metamethod on another kind

NoIter == [of |-> {}, ctl |-> <<"nil">>, seen |-> <<>>, ended |-> TRUE]

-----------------------------------------------------------------------------
(* struct_field.hpp: the letter of a type, and a field of a struct.         *)
Letter == [int |-> "i", float |-> "f", double |-> "d", bool |-> "b", char |-> "s"]

Field(m) == [name |-> m.name, offset |-> m.offset, type |-> Letter[m.elem],
             str_len |-> IF m.elem = "char" THEN m.len ELSE 0]

(* bind_impl and bind_array_impl only know the size: the first type of that *)
(* size wins.                                                               *)
SizeOf      == [int |-> 4, float |-> 4, double |-> 8, bool |-> 1, char |-> 1]
ScalarOrder == <<"int", "float", "double", "bool">>
ArrayOrder  == <<"float", "int">>

FirstOfSize(order, size) ==
    order[CHOOSE i \in DOMAIN order : /\ SizeOf[order[i]] = size
                                      /\ \A j \in 1 .. i - 1 : SizeOf[order[j]] # size]

ScalarType(o) == Letter[FirstOfSize(ScalarOrder, SizeOf[o.elem])]
ArrayType(o)  == Letter[FirstOfSize(ArrayOrder, SizeOf[o.elem])]

-----------------------------------------------------------------------------
(* Where a script's o[key] lies: at most one place, with the letter C++     *)
(* reads and writes it by and, for characters, the room there is.  o[key]   *)
(* reaches the metamethods of o's own kind; Misread has the others.         *)
Place(type, at, room) == [type |-> type, at |-> at, room |-> room]
Cells(p)              == p.at .. p.at + p.room - 1

ScalarPlaces(o, key) == {Place(ScalarType(o), o.base, 1)}

\* Mutant: the index is compared with the length as if it counted from zero.
MutArrayPlaces(o, key) ==
    {Place(ArrayType(o), o.base + i - 1, 1) : i \in {i \in 1 .. o.len + 1 : key = <<"number", i>>}}

ArrayPlaces(o, key) ==
    {Place(ArrayType(o), o.base + i - 1, 1) : i \in {i \in 1 .. o.len : key = <<"number", i>>}}

StringPlaces(o, key) == {Place("s", o.base, o.len)}

StructPlaces(o, key) ==
    {Place(f.type, o.base + f.offset, f.str_len) :
        f \in {f \in {Field(o.members[i]) : i \in DOMAIN o.members} : key = <<"string", f.name>>}}

Places(o, key) == CASE o.kind = "scalar" -> ScalarPlaces(o, key)
                    [] o.kind = "array"  -> ArrayPlaces(o, key)
                    [] o.kind = "string" -> StringPlaces(o, key)
                    [] o.kind = "struct" -> StructPlaces(o, key)

\* An array refuses a key that is no index; a struct answers an unknown field with nil.
BadKey(o, key) == o.kind = "array" /\ Places(o, key) = {}

-----------------------------------------------------------------------------
(* From Lua to C++: luaL_checkinteger and its kin refuse some values, and   *)
(* the casts that follow change others.  Texts are no numerals; a number    *)
(* stored as text is one character.                                         *)
Accepts(type, v) == CASE type = "b"                -> TRUE
                      [] type = "s"                -> v[1] \in {"string", "number"}
                      [] type \in {"i", "f", "d"} -> v[1] = "number"

Text(v) == IF v[1] = "number" THEN <<CHOOSE c \in Chars : TRUE>> ELSE v[2]

WrapInt(n) == ((n + IntWidth) % (2 * IntWidth)) - IntWidth

Cast(type, v) == CASE type = "i" -> WrapInt(v[2])
                   [] type = "b" -> v \notin {<<"nil">>, <<"boolean", FALSE>>}
                   [] type \in {"f", "d"} -> v[2]

\* Mutant: a text as long as the buffer is copied whole.
MutCopied(text, room) == IF Len(text) > room THEN room - 1 ELSE Len(text)

Copied(text, room) == IF Len(text) >= room THEN room - 1 ELSE Len(text)

\* memcpy and the terminator; the cells behind it keep what they held.
StoreText(p, text) ==
    LET n == Copied(text, p.room)
    IN  [a \in DOMAIN mem |-> IF a \in p.at .. p.at + n - 1 THEN <<"s", text[a - p.at + 1]>>
                              ELSE IF a = p.at + n THEN <<"s", NUL>> ELSE mem[a]]

Store(p, v) == IF p.type = "s" THEN StoreText(p, Text(v))
               ELSE [mem EXCEPT ![p.at] = <<p.type, Cast(p.type, v)>>]

(* From C++ to Lua: what a read may find.                                   *)
ReadText(p) ==
    LET n == Cardinality({k \in 0 .. p.room - 1 : \A i \in 0 .. k : mem[p.at + i] # <<"s", NUL>>})
    IN  [k \in 1 .. n |-> mem[p.at + k - 1][2]]

Fetch(p) == CASE p.type = "s" /\ \A a \in Cells(p) : mem[a][1] = "s" -> {<<"string", ReadText(p)>>}
              [] p.type = "s" /\ \E a \in Cells(p) : mem[a][1] # "s" -> {<<"string", t>> : t \in Texts}
              [] p.type # "s" /\ mem[p.at][1] # p.type -> {<<"number", n>> : n \in Numbers}
              [] p.type = "b" /\ mem[p.at][1] = "b" -> {<<"boolean", mem[p.at][2]>>}
              [] p.type \in {"i", "f", "d"} /\ mem[p.at][1] = p.type -> {<<"number", mem[p.at][2]>>}

-----------------------------------------------------------------------------
(* What the application does.                                               *)
Bind(name, o) == /\ globals' = [globals EXCEPT ![name] = <<"userdata", o>>]
                 /\ UNCHANGED <<mem, iter, strayed>>

\* It assigns its own variables through their declared types.
Variables(o) == CASE o.kind = "scalar" -> {Place(Letter[o.elem], o.base, 1)}
                  [] o.kind = "array"  -> {Place(Letter[o.elem], o.base + i, 1) : i \in 0 .. o.len - 1}
                  [] o.kind = "string" -> {Place("s", o.base, o.len)}
                  [] o.kind = "struct" -> {Place(Field(o.members[i]).type, o.base + o.members[i].offset,
                                                 o.members[i].len) : i \in DOMAIN o.members}

Values == {<<"nil">>} \cup {<<"boolean", b>> : b \in BOOLEAN}
          \cup {<<"number", n>> : n \in Numbers} \cup {<<"string", t>> : t \in Texts}

Typed(p) == CASE p.type = "s" -> "string" [] p.type = "b" -> "boolean" [] OTHER -> "number"

Assign(o) == /\ \E p \in Variables(o), v \in Values : v[1] = Typed(p) /\ mem' = Store(p, v)
             /\ UNCHANGED <<globals, iter, strayed>>

-----------------------------------------------------------------------------
(* What a script does with the value o of a bound global.  An operation     *)
(* that raises an error changes nothing.                                    *)
Index(o, key) == IF Places(o, key) = {} THEN {<<"nil">>} ELSE UNION {Fetch(p) : p \in Places(o, key)}

NewIndexFails(o, key, v) == BadKey(o, key) \/ \E p \in Places(o, key) : ~Accepts(p.type, v)

NewIndex(o, key, v) == /\ ~NewIndexFails(o, key, v)
                       /\ mem' = IF Places(o, key) = {} THEN mem
                                 ELSE Store(CHOOSE p \in Places(o, key) : TRUE, v)
                       /\ UNCHANGED <<globals, iter, strayed>>

(* No metamethod asks whose userdata it is given, and getmetatable hands     *)
(* scripts those of every kind.  All four blocks begin with the variable's   *)
(* address; what lies behind it is taken for a letter, a length or a table   *)
(* of fields, so the place may be anywhere.                                 *)
Kinds == {"scalar", "array", "string", "struct"}

LettersBehind(o) == CASE o.kind = "scalar" -> {ScalarType(o)}
                      [] o.kind = "array"  -> {ArrayType(o)}
                      [] OTHER             -> {"i", "f", "d", "b"}

Misread(as, o, key, v) ==
    CASE as = "scalar" -> {Place(t, o.base, 1) : t \in LettersBehind(o)}
      [] as = "array" /\ o.kind # "string" /\ key[1] = "number" /\ key[2] >= 1 ->
            {Place(t, o.base + key[2] - 1, 1) : t \in LettersBehind(o) \cap {"i", "f"}}
      [] as = "string" /\ Accepts("s", v) -> {Place("s", o.base, Len(Text(v)) + 1)}
      [] OTHER -> {}

NewIndexAs(as, o, key, v) == /\ \E p \in Misread(as, o, key, v) :
                                    p.at \in DOMAIN mem /\ Accepts(p.type, v) /\ mem' = Store(p, v)
                             /\ strayed' = TRUE
                             /\ UNCHANGED <<globals, iter>>

\* name = v: Lua's own global changes, no metamethod is asked.
SetGlobal(name, v) == /\ globals' = [globals EXCEPT ![name] = v]
                      /\ UNCHANGED <<mem, iter, strayed>>

-----------------------------------------------------------------------------
(* for k, v in pairs(o): the iterator is given the control variable, which  *)
(* is the key it returned last, and turns it into an index.                 *)
ToInteger(v) == IF v[1] = "number" THEN v[2] ELSE 0

Pairs(o) == /\ o.kind \in {"array", "struct"}
            /\ iter' = [of |-> {o}, ctl |-> <<"number", 0>>, seen |-> <<>>, ended |-> FALSE]
            /\ UNCHANGED <<mem, globals, strayed>>

\* Mutant: the iterator stops one element early.
MutKeyAfter(o, i) == IF o.kind = "array" THEN IF i + 1 >= o.len THEN {} ELSE {<<"number", i + 1>>}
                  ELSE IF i >= Len(o.members) THEN {} ELSE {<<"string", o.members[i + 1].name>>}

\* Mutant: the iterator stops one element late.
MutLateKey(o, i) == IF o.kind = "array" THEN IF i > o.len THEN {} ELSE {<<"number", i + 1>>}
                  ELSE IF i >= Len(o.members) THEN {} ELSE {<<"string", o.members[i + 1].name>>}

KeyAfter(o, i) == IF o.kind = "array" THEN IF i >= o.len THEN {} ELSE {<<"number", i + 1>>}
                  ELSE IF i >= Len(o.members) THEN {} ELSE {<<"string", o.members[i + 1].name>>}

Advance == /\ ~iter.ended /\ Len(iter.seen) < MaxSeen
           /\ \E o \in iter.of :
                  LET keys == KeyAfter(o, ToInteger(iter.ctl))
                  IN  \/ keys = {} /\ iter' = [iter EXCEPT !.ended = TRUE]
                      \/ \E k \in keys : iter' = [iter EXCEPT !.ctl = k, !.seen = Append(@, k)]
           /\ UNCHANGED <<mem, globals, strayed>>

-----------------------------------------------------------------------------
(* What the application binds: variables of types that bind_* and field()   *)
(* know, buffers with room for a terminator (bind_string refuses length 0,  *)
(* and field() takes the length from the array's type; a struct_field        *)
(* written by hand with type 's' and str_len 0 is left out), and no two      *)
(* variables in one place.                                                  *)
AllVariables == UNION {Variables(o) : o \in Objects}
Buffers      == {p \in AllVariables : p.type = "s"}
Scalars      == {"int", "float", "double", "bool"}

Bindable(o) ==
    /\ o.base \in Int /\ o.len \in Nat \ {0}
    /\ \/ o.kind = "scalar" /\ o.elem \in Scalars
       \/ o.kind = "array"  /\ o.elem \in {"int", "float"}
       \/ o.kind = "string"
       \/ /\ o.kind = "struct"
          /\ Len(o.members) \in Nat /\ DOMAIN o.members = 1 .. Len(o.members)
          /\ \A i \in DOMAIN o.members :
                 LET m == o.members[i]
                 IN  m.offset \in Nat /\ m.len \in Nat \ {0} /\ m.elem \in Scalars \cup {"char"}

ASSUME LayoutAssumption ==
    /\ \A o \in Objects : Bindable(o)
    /\ \A p, q \in AllVariables : p # q => Cells(p) \cap Cells(q) = {}

(* Types the binding gets right: bound through the letter they were declared *)
(* with.  A variable is bound well if every object that reaches it is: one   *)
(* bound a second time, as an element of a larger thing, is written by the   *)
(* letters of both.                                                         *)
Faithful(o) == CASE o.kind = "scalar" -> ScalarType(o) = Letter[o.elem]
                 [] o.kind = "array"  -> ArrayType(o) = Letter[o.elem]
                 [] OTHER             -> TRUE

WellBound == {p \in AllVariables : \A o \in Objects : p \in Variables(o) => Faithful(o)}

CellOK(p) == IF p.type = "s" THEN \A a \in Cells(p) : mem[a][1] = "s" /\ mem[a][2] \in Chars \cup {NUL}
             ELSE mem[p.at][1] = p.type

BindingTypeOK ==
    /\ DOMAIN globals = Names
    /\ strayed \in BOOLEAN /\ (~strayed => \A p \in WellBound : CellOK(p))
    /\ iter.of \subseteq Objects /\ Len(iter.seen) <= MaxSeen

(* Every character buffer is ended by a NUL within its own length, whatever *)
(* scripts and the application write to it and to its neighbours, as long    *)
(* as no script has used one kind's metamethod on another kind's userdata,   *)
(* which the unchecked casts let it do.                                     *)
Terminated == ~strayed => \A p \in Buffers : \E a \in Cells(p) : mem[a] = <<"s", NUL>>

(* One assignment changes one variable: one array element, one field, one   *)
(* buffer, and never its neighbour in memory, with the same exception.       *)
OneVariable ==
    [][~strayed' => \E o \in Objects : \E p \in Variables(o) :
                       {a \in DOMAIN mem : mem'[a] # mem[a]} \subseteq Cells(p)]_mem

(* A loop over an array, by its kind's own iterator, meets every index once  *)
(* and in order, though the body assigns to the array or to the global it    *)
(* came from.                                                               *)
ArrayInOrder ==
    \A o \in iter.of : o.kind = "array" =>
        /\ iter.seen = [i \in 1 .. Len(iter.seen) |-> <<"number", i>>]
        /\ iter.ended => Len(iter.seen) = o.len

(* Every key a loop hands to its body is one the variable answers to: the   *)
(* iterators, which count, and __index, which compares numbers and names,   *)
(* agree, whatever the control variable is turned into on the way.          *)
KeysAreFound == \A o \in iter.of : \A i \in DOMAIN iter.seen : Places(o, iter.seen[i]) # {}
=============================================================================
