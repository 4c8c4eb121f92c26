----------------------------- MODULE LuaExecProofs -----------------------------
(***************************************************************************)
(* For any variables an application binds, any scripts and any assignments, *)
(* of any length: every character buffer stays terminated and a step changes *)
(* one variable, until a script uses one kind's metamethod on another kind;  *)
(* exec leaves nothing behind, and a loop meets an array in order, whatever  *)
(* scripts do.                                                              *)
(*                                                                          *)
(* A write reaches memory through a place computed from the script's key or  *)
(* from the application's own variables.  Such a place lies in exactly one   *)
(* variable, and has the letter "s" only if it is that variable's whole      *)
(* buffer (Lies, and the lemmas WhereKeysLead and WhereVariablesLie); so a   *)
(* text ends inside its own buffer and touches no other (StoreKeeps).        *)
(***************************************************************************)
EXTENDS LuaExec, FiniteSetTheorems, TLAPS

(* The type names the letters come from.                                    *)
LEMMA Letters ==
    /\ \A t \in Scalars : Letter[t] \in {"i", "f", "d", "b"}
    /\ Letter["char"] = "s"
  BY DEF Letter, Scalars

LEMMA LettersBySize ==
    ASSUME NEW o \in Objects
    PROVE  /\ o.kind = "scalar" => ScalarType(o) \in {"i", "f", "d", "b"}
           /\ o.kind = "array"  => ArrayType(o) \in {"i", "f", "d", "b"}
<1>1. Bindable(o)
  BY LayoutAssumption
<1>2. ASSUME o.kind = "scalar" PROVE ScalarType(o) \in {"i", "f", "d", "b"}
  <2>1. o.elem \in Scalars
    BY <1>1, <1>2 DEF Bindable
  <2>2. \E i \in DOMAIN ScalarOrder : /\ SizeOf[ScalarOrder[i]] = SizeOf[o.elem]
                                      /\ \A j \in 1 .. i - 1 : SizeOf[ScalarOrder[j]] # SizeOf[o.elem]
    <3>1. CASE o.elem \in {"int", "float"}
      <4>1. SizeOf[ScalarOrder[1]] = SizeOf[o.elem] /\ 1 \in DOMAIN ScalarOrder
        BY <3>1 DEF SizeOf, ScalarOrder
      <4> QED BY <4>1
    <3>2. CASE o.elem = "double"
      BY <3>2 DEF SizeOf, ScalarOrder
    <3>3. CASE o.elem = "bool"
      BY <3>3 DEF SizeOf, ScalarOrder
    <3> QED BY <2>1, <3>1, <3>2, <3>3 DEF Scalars
  <2>3. FirstOfSize(ScalarOrder, SizeOf[o.elem]) \in Scalars
    BY <2>2 DEF FirstOfSize, ScalarOrder, Scalars
  <2> QED BY <2>3, Letters DEF ScalarType
<1>3. ASSUME o.kind = "array" PROVE ArrayType(o) \in {"i", "f", "d", "b"}
  <2>1. o.elem \in {"int", "float"}
    BY <1>1, <1>3 DEF Bindable
  <2>2. /\ SizeOf[ArrayOrder[1]] = SizeOf[o.elem] /\ 1 \in DOMAIN ArrayOrder
        /\ \A j \in 1 .. 1 - 1 : SizeOf[ArrayOrder[j]] # SizeOf[o.elem]
    BY <2>1 DEF SizeOf, ArrayOrder
  <2>3. FirstOfSize(ArrayOrder, SizeOf[o.elem]) \in Scalars
    BY <2>2 DEF FirstOfSize, ArrayOrder, Scalars
  <2> QED BY <2>3, Letters DEF ArrayType
<1> QED BY <1>2, <1>3

-----------------------------------------------------------------------------
(* A place lies in a variable: it is the first cell of one that is no        *)
(* buffer, or all of one that is, and has its letter if that is bound well.  *)
Lies(p) == \E q \in AllVariables :
               /\ p.type \in {"i", "f", "d", "b", "s"}
               /\ p.at = q.at /\ p.at \in Cells(q)
               /\ p.type = "s" <=> q.type = "s"
               /\ p.type = "s" => p.room \in Nat \ {0} /\ p.room = q.room
               /\ q \in WellBound => p.type = q.type

LEMMA VariablesAreSound ==
    ASSUME NEW q \in AllVariables
    PROVE  /\ q.at \in Int /\ q.room \in Nat \ {0} /\ q.at \in Cells(q)
           /\ q.type \in {"i", "f", "d", "b", "s"}
<1>1. PICK o \in Objects : q \in Variables(o)
  BY DEF AllVariables
<1>2. Bindable(o)
  BY LayoutAssumption
<1>3. q.at \in Int /\ q.room \in Nat \ {0} /\ q.type \in {"i", "f", "d", "b", "s"}
  <2>1. CASE o.kind = "scalar"
    BY <1>1, <1>2, <2>1, Letters DEF Variables, Bindable, Place
  <2>2. CASE o.kind = "array"
    BY <1>1, <1>2, <2>2, Letters DEF Variables, Bindable, Place, Scalars
  <2>3. CASE o.kind = "string"
    BY <1>1, <1>2, <2>3, Letters DEF Variables, Bindable, Place
  <2>4. CASE o.kind = "struct"
    <3>1. PICK i \in DOMAIN o.members :
              q = Place(Field(o.members[i]).type, o.base + o.members[i].offset, o.members[i].len)
      BY <1>1, <2>4 DEF Variables
    <3>2. /\ o.members[i].offset \in Nat /\ o.members[i].len \in Nat \ {0}
          /\ o.members[i].elem \in Scalars \cup {"char"}
      BY <1>2, <2>4 DEF Bindable
    <3>3. Letter[o.members[i].elem] \in {"i", "f", "d", "b", "s"}
      BY <3>2, Letters
    <3> QED BY <1>2, <3>1, <3>2, <3>3 DEF Place, Bindable, Field
  <2> QED BY <1>2, <2>1, <2>2, <2>3, <2>4 DEF Bindable
<1> QED BY <1>3 DEF Cells

(* The application's own assignments.                                       *)
LEMMA WhereVariablesLie ==
    ASSUME NEW q \in AllVariables PROVE Lies(q)
  BY VariablesAreSound DEF Lies

(* The metamethods, for any key.                                            *)
LEMMA WhereKeysLead ==
    ASSUME NEW o \in Objects, NEW key, NEW p \in Places(o, key) PROVE Lies(p)
<1>1. Bindable(o) /\ Variables(o) \subseteq AllVariables
  BY LayoutAssumption DEF AllVariables
<1>2. CASE o.kind = "scalar"
  <2> DEFINE q == Place(Letter[o.elem], o.base, 1)
  <2>1. q \in AllVariables
    BY <1>1, <1>2 DEF Variables
  <2>2. p = Place(ScalarType(o), o.base, 1)
    BY <1>2 DEF Places, ScalarPlaces
  <2>3. q.type # "s"
    BY <1>1, <1>2, Letters DEF Bindable, Place
  <2> HIDE DEF q
  <2>4. q.at \in Cells(q) /\ q.at = o.base
    BY <2>1, VariablesAreSound DEF q, Place
  <2>5. q \in WellBound => p.type = q.type
    <3>1. q \in Variables(o) /\ q.type = Letter[o.elem]
      BY <1>2 DEF q, Variables, Place
    <3> QED BY <1>2, <2>2, <3>1 DEF WellBound, Faithful, Place
  <2> QED BY <2>1, <2>2, <2>3, <2>4, <2>5, <1>2, LettersBySize DEF Lies, Place
<1>3. CASE o.kind = "array"
  <2>1. PICK i \in 1 .. o.len : p = Place(ArrayType(o), o.base + i - 1, 1)
    BY <1>3 DEF Places, ArrayPlaces
  <2> DEFINE q == Place(Letter[o.elem], o.base + (i - 1), 1)
  <2>2. i - 1 \in 0 .. o.len - 1
    BY <1>1 DEF Bindable
  <2>3. q \in AllVariables
    BY <1>1, <1>3, <2>2 DEF Variables
  <2>4. q.type # "s"
    BY <1>1, <1>3, Letters DEF Bindable, Place, Scalars
  <2>5. q.at = p.at
    BY <1>1, <2>1 DEF Place, Bindable
  <2>7. q \in WellBound => p.type = q.type
    <3>1. q \in Variables(o) /\ q.type = Letter[o.elem]
      BY <1>3, <2>2 DEF Variables, Place
    <3> HIDE DEF q
    <3>2. p.type = ArrayType(o)
      BY <2>1 DEF Place
    <3> QED BY <1>3, <3>1, <3>2 DEF WellBound, Faithful
  <2> HIDE DEF q
  <2>6. p.type \in {"i", "f", "d", "b"}
    BY <1>3, <2>1, LettersBySize DEF Place
  <2> QED BY <2>3, <2>4, <2>5, <2>6, <2>7, VariablesAreSound DEF Lies
<1>4. CASE o.kind = "string"
  <2>1. p \in AllVariables
    BY <1>1, <1>4 DEF Places, StringPlaces, Variables
  <2> QED BY <2>1, WhereVariablesLie
<1>5. CASE o.kind = "struct"
  <2>1. PICK i \in DOMAIN o.members :
            p = Place(Field(o.members[i]).type, o.base + Field(o.members[i]).offset,
                      Field(o.members[i]).str_len)
    BY <1>5 DEF Places, StructPlaces
  <2> DEFINE q == Place(Field(o.members[i]).type, o.base + o.members[i].offset, o.members[i].len)
  <2>2. q \in AllVariables
    BY <1>1, <1>5 DEF Variables
  <2>3. /\ o.members[i].elem \in Scalars \cup {"char"}
        /\ o.members[i].len \in Nat \ {0}
    BY <1>1, <1>5 DEF Bindable
  <2>4. p.type = q.type /\ p.at = q.at
    BY <2>1 DEF Place, Field
  <2>5. p.type = "s" => p.room = q.room
    <3>1. o.members[i].elem # "char" => Letter[o.members[i].elem] # "s"
      BY <2>3, Letters
    <3>2. p.type = Letter[o.members[i].elem]
      BY <2>1 DEF Place, Field
    <3> QED BY <2>1, <3>1, <3>2 DEF Place, Field
  <2>6. q.at \in Cells(q) /\ q.room \in Nat \ {0} /\ q.type \in {"i", "f", "d", "b", "s"}
    BY <2>2, VariablesAreSound
  <2> HIDE DEF q
  <2> QED BY <2>2, <2>4, <2>5, <2>6 DEF Lies
<1> QED BY <1>1, <1>2, <1>3, <1>4, <1>5 DEF Bindable

-----------------------------------------------------------------------------
(* Memory: a cell for every cell of a variable, holding what that variable  *)
(* is declared to hold if it is bound well, and a NUL in every buffer.       *)
AllCells == UNION {Cells(p) : p \in AllVariables}
Holds(p) == IF p.type = "s" THEN \A a \in Cells(p) : mem[a] \in {"s"} \X (Chars \cup {NUL})
            ELSE mem[p.at][1] = p.type
MemInv   == /\ mem = [a \in AllCells |-> mem[a]]
            /\ \A p \in WellBound : Holds(p)
            /\ \A p \in Buffers : \E a \in Cells(p) : mem[a] = <<"s", NUL>>

(* What a step does to memory.                                              *)
Changes == \E o \in Objects : \E p \in Variables(o) : {a \in DOMAIN mem : mem'[a] # mem[a]} \subseteq Cells(p)
Keeps   == MemInv' /\ (Changes \/ UNCHANGED mem)

(* Buffers are always bound well: one letter reads and writes them.         *)
LEMMA BuffersAreWellBound == Buffers \subseteq WellBound
<1> SUFFICES ASSUME NEW p \in AllVariables, p.type = "s", NEW o \in Objects, p \in Variables(o)
             PROVE  Faithful(o)
  BY DEF Buffers, WellBound
<1>1. Bindable(o)
  BY LayoutAssumption
<1>2. o.kind # "scalar"
  BY <1>1, Letters DEF Variables, Bindable, Place
<1>3. o.kind # "array"
  BY <1>1, Letters DEF Variables, Bindable, Place, Scalars
<1> QED BY <1>2, <1>3 DEF Faithful

(* A store through a place that lies in a variable changes that variable    *)
(* only, keeps what it is declared to hold and keeps every buffer           *)
(* terminated, whatever value it stores.                                    *)
LEMMA StoreKeeps ==
    ASSUME MemInv, NEW p, Lies(p), NEW v,
           p.type = "s" => Text(v) \in Seq(Chars),
           mem' = Store(p, v)
    PROVE  Keeps
<1>1. PICK q \in AllVariables :
          /\ p.at = q.at /\ p.at \in Cells(q)
          /\ p.type = "s" <=> q.type = "s"
          /\ p.type = "s" => p.room \in Nat \ {0} /\ p.room = q.room
          /\ q \in WellBound => p.type = q.type
  BY DEF Lies
<1>2. \A b \in AllVariables : b # q => Cells(b) \cap Cells(q) = {}
  BY LayoutAssumption
<1>3. Cells(q) \subseteq AllCells /\ q.at \in Int
  BY VariablesAreSound DEF AllCells
<1>4. DOMAIN mem = AllCells
  BY DEF MemInv
<1>5. {a \in DOMAIN mem : mem'[a] # mem[a]} \subseteq Cells(q) => Changes
  BY DEF Changes, AllVariables
<1>6. \A b \in AllVariables : b.at \in Cells(b) /\ Cells(b) \subseteq AllCells
  BY VariablesAreSound DEF AllCells
<1>7. SUFFICES /\ mem' = [a \in AllCells |-> mem'[a]]
               /\ \A a \in AllCells \ Cells(q) : mem'[a] = mem[a]
               /\ q \in WellBound => Holds(q)'
               /\ q \in Buffers => \E a \in Cells(q) : mem'[a] = <<"s", NUL>>
  <2>1. {a \in DOMAIN mem : mem'[a] # mem[a]} \subseteq Cells(q)
    BY <1>4, <1>7
  <2>2. ASSUME NEW r \in WellBound PROVE Holds(r)'
    <3>1. r \in AllVariables
      BY DEF WellBound
    <3>2. CASE r # q
      <4>1. \A a \in Cells(r) : mem'[a] = mem[a]
        BY <1>2, <1>6, <1>7, <3>1, <3>2
      <4> QED BY <1>6, <3>1, <4>1 DEF Holds, MemInv, Cells
    <3> QED BY <1>7, <3>2
  <2>3. ASSUME NEW b \in Buffers PROVE \E a \in Cells(b) : mem'[a] = <<"s", NUL>>
    <3>1. b \in AllVariables
      BY DEF Buffers
    <3>2. CASE b # q
      <4>1. PICK a \in Cells(b) : mem[a] = <<"s", NUL>>
        BY DEF MemInv
      <4> QED BY <1>2, <1>6, <1>7, <3>1, <3>2, <4>1
    <3> QED BY <1>7, <3>2
  <2> QED BY <1>5, <1>7, <2>1, <2>2, <2>3 DEF Keeps, MemInv
<1>8. CASE p.type # "s"
  <2>1. mem' = [mem EXCEPT ![p.at] = <<p.type, Cast(p.type, v)>>]
    BY <1>8 DEF Store
  <2>2. q \notin Buffers
    BY <1>1, <1>8 DEF Buffers
  <2>3. q \in WellBound => Holds(q)'
    <3>1. mem'[q.at] = <<p.type, Cast(p.type, v)>>
      BY <1>1, <1>3, <1>4, <2>1
    <3> QED BY <1>1, <1>8, <3>1 DEF Holds
  <2> QED BY <1>1, <1>4, <2>1, <2>2, <2>3
<1>9. CASE p.type = "s"
  <2> DEFINE n == Copied(Text(v), p.room)
  <2>1. n \in 0 .. p.room - 1 /\ n <= Len(Text(v))
    BY <1>1, <1>9 DEF Copied
  <2>2. mem' = [a \in DOMAIN mem |-> IF a \in p.at .. p.at + n - 1 THEN <<"s", Text(v)[a - p.at + 1]>>
                                    ELSE IF a = p.at + n THEN <<"s", NUL>> ELSE mem[a]]
    BY <1>9 DEF Store, StoreText
  <2> HIDE DEF n
  <2>3. p.at .. p.at + n \subseteq Cells(q)
    BY <1>1, <1>3, <1>9, <2>1 DEF Cells
  <2>4. /\ p.at .. p.at + n - 1 \subseteq p.at .. p.at + n /\ p.at + n \in p.at .. p.at + n
        /\ p.at + n \notin p.at .. p.at + n - 1
    BY <1>1, <1>3, <2>1
  <2>5. mem'[p.at + n] = <<"s", NUL>>
    BY <1>3, <1>4, <2>2, <2>3, <2>4
  <2>6. ASSUME NEW a \in Cells(q) PROVE mem'[a] \in {"s"} \X (Chars \cup {NUL})
    <3>1. q \in WellBound /\ q.type = "s"
      BY <1>1, <1>9, BuffersAreWellBound DEF Buffers
    <3>2. mem[a] \in {"s"} \X (Chars \cup {NUL})
      BY <3>1 DEF MemInv, Holds
    <3>3. CASE a \in p.at .. p.at + n - 1
      <4>1. a - p.at + 1 \in 1 .. Len(Text(v))
        BY <1>1, <1>3, <1>9, <2>1, <3>3
      <4>2. Text(v)[a - p.at + 1] \in Chars
        BY <1>9, <4>1
      <4>3. mem'[a] = <<"s", Text(v)[a - p.at + 1]>>
        BY <1>3, <1>4, <2>2, <3>3
      <4> QED BY <4>2, <4>3
    <3>4. CASE a \notin p.at .. p.at + n - 1
      BY <1>3, <1>4, <2>2, <3>2, <3>4
    <3> QED BY <3>3, <3>4
  <2>7. mem' = [a \in AllCells |-> mem'[a]]
    BY <1>4, <2>2
  <2>8. \A a \in AllCells \ Cells(q) : mem'[a] = mem[a]
    BY <1>4, <2>2, <2>3, <2>4
  <2>9. q.type = "s"
    BY <1>1, <1>9
  <2>10. Holds(q)'
    BY <2>6, <2>9 DEF Holds, Cells
  <2> QED BY <2>3, <2>4, <2>5, <2>7, <2>8, <2>10
<1> QED BY <1>8, <1>9

(* A buffer is read up to its first NUL: what is read is characters.        *)
LEMMA ReadTextTyped ==
    ASSUME MemInv, NEW p, p.type = "s", Lies(p) PROVE ReadText(p) \in Seq(Chars)
<1>1. PICK q \in AllVariables : q.type = "s" /\ p.at = q.at /\ p.room = q.room /\ p.room \in Nat \ {0}
  BY DEF Lies
<1>2. Holds(q) /\ q.at \in Int
  BY <1>1, BuffersAreWellBound, VariablesAreSound DEF MemInv, Buffers
<1> DEFINE T == {k \in 0 .. p.room - 1 : \A i \in 0 .. k : mem[p.at + i] # <<"s", NUL>>}
           n == Cardinality(T)
<1>3. IsFiniteSet(0 .. p.room - 1)
  BY <1>1, FS_Interval
<1>4. IsFiniteSet(T)
  BY <1>3, FS_Subset
<1>5. n \in Nat
  BY <1>4, FS_CardinalityType
<1>6. ASSUME NEW k \in 1 .. n PROVE k - 1 \in T
  <2> SUFFICES ASSUME k - 1 \notin T PROVE FALSE
    OBVIOUS
  <2>1. T \subseteq 0 .. k - 2
    <3> SUFFICES ASSUME NEW j \in T, j \notin 0 .. k - 2 PROVE FALSE
      OBVIOUS
    <3>1. j \in 0 .. p.room - 1 /\ j >= k - 1 /\ k - 1 \in 0 .. p.room - 1
      BY <1>1, <1>5
    <3>2. \A i \in 0 .. k - 1 : i \in 0 .. j
      BY <1>1, <1>5, <3>1
    <3>3. \A i \in 0 .. k - 1 : mem[p.at + i] # <<"s", NUL>>
      BY <3>2
    <3> QED BY <3>1, <3>3
  <2>2. IsFiniteSet(0 .. k - 2) /\ Cardinality(0 .. k - 2) = k - 1
    <3> HIDE DEF n
    <3>1. k - 2 \in Int /\ k \in Nat /\ k >= 1
      BY <1>5
    <3>2. Cardinality(0 .. k - 2) = IF 0 > k - 2 THEN 0 ELSE k - 2 - 0 + 1
      BY <3>1, FS_Interval
    <3>3. IsFiniteSet(0 .. k - 2)
      BY <3>1, FS_Interval
    <3> QED BY <3>1, <3>2, <3>3
  <2>3. n <= k - 1
    <3> HIDE DEF T
    <3> QED BY <2>1, <2>2, FS_Subset
  <2> HIDE DEF n
  <2> QED BY <1>5, <2>3
<1>7. ASSUME NEW k \in 1 .. n PROVE mem[p.at + k - 1][2] \in Chars
  <2>0. k - 1 \in T
    BY <1>6
  <2>1. k - 1 \in 0 .. p.room - 1
    BY <2>0
  <2>2. mem[p.at + (k - 1)] # <<"s", NUL>>
    <3>1. \A i \in 0 .. k - 1 : mem[p.at + i] # <<"s", NUL>>
      BY <2>0
    <3>2. k - 1 \in 0 .. k - 1
      BY <1>1, <2>1
    <3> QED BY <3>1, <3>2
  <2> HIDE DEF n, T
  <2>3. p.at + (k - 1) = p.at + k - 1 /\ p.at + k - 1 \in Cells(q)
    BY <1>1, <1>2, <1>5, <2>1 DEF Cells
  <2>4. mem[p.at + k - 1] \in {"s"} \X (Chars \cup {NUL})
    BY <1>1, <1>2, <2>3 DEF Holds
  <2> QED BY <2>2, <2>3, <2>4
<1>8. ReadText(p) = [k \in 1 .. n |-> mem[p.at + k - 1][2]]
  BY DEF ReadText
<1> HIDE DEF n
<1> QED BY <1>5, <1>7, <1>8

(* What a script or the application stores as a text is characters.         *)
LEMMA TextTyped ==
    ASSUME MemInv, NEW v, v[1] \in {"string", "number"},
           \/ v \in Values
           \/ \E o \in Objects : \E key : v \in Index(o, key)
    PROVE  Text(v) \in Seq(Chars)
<1>1. CASE v[1] = "number"
  <2>1. (CHOOSE c \in Chars : TRUE) \in Chars
    BY CharAssumption
  <2> QED BY <1>1, <2>1 DEF Text
<1>2. CASE v[1] = "string" /\ v \in Values
  <2>1. v[2] \in Texts
    BY <1>2 DEF Values
  <2> QED BY <1>2, <2>1, CharAssumption DEF Text
<1>3. CASE v[1] = "string" /\ \E o \in Objects : \E key : v \in Index(o, key)
  <2>1. PICK o \in Objects : \E key : v \in Index(o, key)
    BY <1>3
  <2>2. PICK key : v \in Index(o, key)
    BY <2>1
  <2>3. PICK p \in Places(o, key) : v \in Fetch(p)
    BY <1>3, <2>2 DEF Index
  <2>4. Lies(p)
    BY WhereKeysLead
  <2>5. p.type = "s" /\ (v = <<"string", ReadText(p)>> \/ \E t \in Texts : v = <<"string", t>>)
    <3>1. p.type \in {"i", "f", "d", "b", "s"}
      BY <2>4 DEF Lies
    <3>2. CASE p.type = "s"
      <4>1. CASE \A a \in Cells(p) : mem[a][1] = "s"
        BY <2>3, <3>2, <4>1 DEF Fetch
      <4>2. CASE \E a \in Cells(p) : mem[a][1] # "s"
        BY <2>3, <3>2, <4>2 DEF Fetch
      <4> QED BY <4>1, <4>2
    <3>3. CASE p.type # "s"
      <4>1. CASE mem[p.at][1] # p.type
        BY <1>3, <2>3, <3>3, <4>1 DEF Fetch
      <4>2. CASE mem[p.at][1] = p.type /\ p.type = "b"
        BY <1>3, <2>3, <4>2 DEF Fetch
      <4>3. CASE mem[p.at][1] = p.type /\ p.type \in {"i", "f", "d"}
        BY <1>3, <2>3, <4>3 DEF Fetch
      <4> QED BY <3>1, <3>3, <4>1, <4>2, <4>3
    <3> QED BY <3>2, <3>3
  <2> QED BY <1>3, <2>4, <2>5, ReadTextTyped, CharAssumption DEF Text
<1> QED BY <1>1, <1>2, <1>3

-----------------------------------------------------------------------------
LEMMA MemInvInit == Init => MemInv
<1> SUFFICES ASSUME Init PROVE MemInv
  OBVIOUS
<1> DEFINE Owner(a) == CHOOSE p \in AllVariables : a \in Cells(p)
           First(p) == <<p.type, CASE p.type = "s" -> NUL [] p.type = "b" -> FALSE [] OTHER -> 0>>
<1>1. mem = [a \in AllCells |-> First(Owner(a))]
  BY DEF Init, AllCells
<1>0. \A p : p.type = "s" => First(p) = <<"s", NUL>>
  OBVIOUS
<1> HIDE DEF First
<1>2. ASSUME NEW b \in Buffers PROVE \E a \in Cells(b) : mem[a] = <<"s", NUL>>
  <2>1. b \in AllVariables /\ b.type = "s" /\ b.at \in Cells(b) /\ b.at \in AllCells
    BY VariablesAreSound DEF Buffers, AllCells
  <2>2. Owner(b.at) \in AllVariables /\ b.at \in Cells(Owner(b.at))
    BY <2>1
  <2>3. Owner(b.at) = b
    BY <2>1, <2>2, LayoutAssumption
  <2> HIDE DEF Owner
  <2>4. mem[b.at] = First(b)
    BY <1>1, <2>1, <2>3
  <2> QED BY <1>0, <2>1, <2>4
<1>4. ASSUME NEW r \in WellBound PROVE Holds(r)
  <2>1. r \in AllVariables /\ r.at \in Cells(r)
    BY VariablesAreSound DEF WellBound
  <2>2. ASSUME NEW a \in Cells(r) PROVE mem[a] = First(r)
    <3>1. a \in AllCells
      BY <2>1 DEF AllCells
    <3>2. Owner(a) \in AllVariables /\ a \in Cells(Owner(a))
      BY <2>1
    <3>3. Owner(a) = r
      BY <2>1, <3>2, LayoutAssumption
    <3> HIDE DEF Owner
    <3> QED BY <1>1, <3>1, <3>3
  <2>3. First(r)[1] = r.type
    BY DEF First
  <2> QED BY <1>0, <2>1, <2>2, <2>3 DEF Holds
<1> HIDE DEF Owner
<1>3. mem = [a \in AllCells |-> mem[a]]
  BY <1>1
<1> QED BY <1>2, <1>3, <1>4 DEF MemInv

LEMMA AssignKeeps == ASSUME MemInv, NEW o \in Objects, Assign(o) PROVE Keeps
<1>1. PICK p \in Variables(o), v \in Values : v[1] = Typed(p) /\ mem' = Store(p, v)
  BY DEF Assign
<1>2. Lies(p)
  BY WhereVariablesLie DEF AllVariables
<1>3. p.type = "s" => Text(v) \in Seq(Chars)
  BY <1>1, TextTyped DEF Typed
<1> QED BY <1>1, <1>2, <1>3, StoreKeeps

LEMMA WriteKeeps == ASSUME MemInv, Write PROVE Keeps
<1>1. PICK n \in Names : \E o \in Bound(n), key \in Keys : \E v \in Values \cup Index(o, key) :
              \/ UNCHANGED mem
              \/ NewIndex(o, key, v)
  BY DEF Write, Raise
<1>2. PICK o \in Bound(n), key \in Keys : \E v \in Values \cup Index(o, key) :
              UNCHANGED mem \/ NewIndex(o, key, v)
  BY <1>1
<1>3. PICK v \in Values \cup Index(o, key) : UNCHANGED mem \/ NewIndex(o, key, v)
  BY <1>2
<1>4. o \in Objects
  BY DEF Bound
<1>5. ASSUME UNCHANGED mem PROVE Keeps
  BY <1>5 DEF Keeps, MemInv, Holds, Cells
<1>6. ASSUME NewIndex(o, key, v), Places(o, key) # {} PROVE Keeps
  <2> DEFINE p == CHOOSE p \in Places(o, key) : TRUE
  <2>1. p \in Places(o, key)
    BY <1>6
  <2>2. mem' = Store(p, v) /\ Accepts(p.type, v)
    BY <1>6, <2>1 DEF NewIndex, NewIndexFails
  <2> HIDE DEF p
  <2>3. Lies(p)
    BY <1>4, <2>1, WhereKeysLead
  <2>4. p.type = "s" => v[1] \in {"string", "number"}
    BY <2>2 DEF Accepts
  <2>5. p.type = "s" => Text(v) \in Seq(Chars)
    BY <1>4, <2>4, TextTyped
  <2> QED BY <2>2, <2>3, <2>5, StoreKeeps
<1> QED BY <1>3, <1>5, <1>6 DEF NewIndex

LEMMA MemInvNext == MemInv /\ [Next]_vars => Keeps \/ strayed'
<1> SUFFICES ASSUME MemInv, [Next]_vars, ~strayed' PROVE Keeps
  OBVIOUS
<1>1. ASSUME UNCHANGED mem PROVE Keeps
  BY <1>1 DEF Keeps, MemInv, Holds, Cells
<1>2. CASE Script
  <2>1. CASE Signal
    <3>1. UNCHANGED mem \/ \E o \in Objects : Assign(o)
      BY <2>1 DEF Signal
    <3> QED BY <1>1, <3>1, AssignKeeps
  <2>2. CASE Loop
    BY <1>1, <2>2 DEF Loop, Pairs, Advance
  <2>3. CASE Overwrite
    BY <1>1, <2>3 DEF Overwrite, SetGlobal
  <2>4. CASE Compute \/ Error \/ Pcall \/ PcallReturns \/ ReadBadKey \/ Output \/ Return
    BY <1>1, <2>4 DEF Compute, Error, Raise, Pcall, PcallReturns, ReadBadKey, Output, Return
  <2>5. ~Stray
    BY DEF Stray, NewIndexAs
  <2> QED BY <1>2, <2>1, <2>2, <2>3, <2>4, <2>5, WriteKeeps DEF Script
<1>3. CASE Begin \/ Hook \/ Format \/ Collect \/ SetCallback \/ UNCHANGED vars
  BY <1>1, <1>3 DEF Begin, Hook, Format, Collect, SetCallback, vars
<1>4. CASE Rebind
  BY <1>1, <1>4 DEF Rebind, Bind
<1>5. CASE OwnAssignment
  BY <1>5, AssignKeeps DEF OwnAssignment
<1> QED BY <1>2, <1>3, <1>4, <1>5 DEF Next

(* Straying is for good, and only Stray does it.                            *)
LEMMA StraysForGood == [Next]_vars => /\ strayed => strayed'
                                      /\ strayed \in BOOLEAN => strayed' \in BOOLEAN
<1> SUFFICES ASSUME [Next]_vars PROVE UNCHANGED strayed \/ strayed' = TRUE
  OBVIOUS
<1>1. CASE Script
  <2>1. CASE Stray
    BY <2>1 DEF Stray, NewIndexAs
  <2>2. CASE Write
    BY <2>2 DEF Write, NewIndex, Raise
  <2>3. CASE Loop \/ Overwrite
    BY <2>3 DEF Loop, Pairs, Advance, Overwrite, SetGlobal
  <2>4. CASE Signal
    BY <2>4 DEF Signal, Assign
  <2>5. CASE Compute \/ Error \/ Pcall \/ PcallReturns \/ ReadBadKey \/ Output \/ Return
    BY <2>5 DEF Compute, Error, Raise, Pcall, PcallReturns, ReadBadKey, Output, Return
  <2> QED BY <1>1, <2>1, <2>2, <2>3, <2>4, <2>5 DEF Script
<1>2. CASE Begin \/ Hook \/ Format \/ Collect \/ SetCallback \/ UNCHANGED vars
  BY <1>2 DEF Begin, Hook, Format, Collect, SetCallback, vars
<1>3. CASE Rebind \/ OwnAssignment
  BY <1>3 DEF Rebind, Bind, OwnAssignment, Assign
<1> QED BY <1>1, <1>2, <1>3 DEF Next

Sound == strayed \in BOOLEAN /\ (~strayed => MemInv)

LEMMA SoundInit == Init => Sound
  BY MemInvInit DEF Init, Sound

LEMMA SoundNext == Sound /\ [Next]_vars => Sound' /\ (~strayed' => Keeps)
<1> SUFFICES ASSUME Sound, [Next]_vars PROVE Sound' /\ (~strayed' => Keeps)
  OBVIOUS
<1>1. strayed' \in BOOLEAN /\ (~strayed' => ~strayed)
  BY StraysForGood DEF Sound
<1>2. ~strayed' => Keeps
  BY <1>1, MemInvNext DEF Sound
<1> QED BY <1>1, <1>2 DEF Sound, Keeps

(* Until a script uses one kind's metamethod on another kind's userdata,     *)
(* every character buffer the application binds is ended by a NUL within its *)
(* own length, however long the texts that scripts and the application       *)
(* store, and whatever lies next to it.                                     *)
THEOREM BuffersStayTerminated == Spec => []Terminated
<1>1. Sound => Terminated
  BY DEF Sound, MemInv, Terminated
<1>2. Sound /\ [Next]_vars => Sound'
  BY SoundNext
<1> QED BY SoundInit, <1>1, <1>2, PTL DEF Spec

(* Until then, one assignment, by a script or by the application, changes    *)
(* one variable and never its neighbour in memory.                          *)
THEOREM WritesStayInside == Spec => OneVariable
<1>1. Sound /\ [Next]_vars => Sound'
  BY SoundNext
<1>2. Sound /\ [Next]_vars => [~strayed' => Changes]_mem
  BY SoundNext DEF Keeps
<1> QED BY SoundInit, <1>1, <1>2, PTL DEF Spec, OneVariable, Changes

-----------------------------------------------------------------------------
(* exec: while a script runs nothing is left on the stack, and what the      *)
(* buffer holds is the running script's own.                                *)
ExecInv == /\ print_buf \subseteq {execs}
           /\ phase = "running" => stack = 0
           /\ phase = "collect" => hook = Off /\ pcalls = 0
           /\ ExecClean

LEMMA ReturnErrorCleans ==
    ASSUME ReturnError, stack = 0, print_buf' \subseteq {execs'} PROVE ExecInv'
  BY DEF ReturnError, ExecInv, ExecClean, Off

LEMMA RaiseCleans ==
    ASSUME ExecInv, phase = "running", NEW message, Raise(message) PROVE ExecInv'
<1>1. stack = 0 /\ print_buf' \subseteq {execs'}
  BY DEF ExecInv, Raise
<1>2. CASE ReturnError
  BY <1>1, <1>2, ReturnErrorCleans
<1>3. CASE pcalls > 0 /\ UNCHANGED <<phase, stack>>
  BY <1>1, <1>3 DEF ExecInv, ExecClean
<1>4. CASE phase' = "lost"
  BY <1>1, <1>4 DEF ExecInv, ExecClean
<1> QED BY <1>2, <1>3, <1>4 DEF Raise

LEMMA ExecInvNext == ExecInv /\ [Next]_vars => ExecInv'
<1> SUFFICES ASSUME ExecInv, [Next]_vars PROVE ExecInv'
  OBVIOUS
<1>1. CASE Begin
  <2>1. print_buf' = {} /\ phase = "idle"
    BY <1>1 DEF Begin, ClearPrints
  <2>2. CASE ReturnError
    BY <2>1, <2>2, ReturnErrorCleans DEF ExecInv, ExecClean
  <2>3. CASE phase' = "running" /\ UNCHANGED stack
    BY <2>1, <2>3 DEF ExecInv, ExecClean
  <2> QED BY <1>1, <2>2, <2>3 DEF Begin
<1>2. CASE Hook
  <2>1. phase = "running" /\ UNCHANGED <<print_buf, execs>>
    BY <1>2 DEF Hook
  <2>2. CASE ReturnError
    BY <2>1, <2>2, ReturnErrorCleans DEF ExecInv
  <2>3. CASE UNCHANGED <<phase, stack>>
    BY <2>1, <2>3 DEF ExecInv, ExecClean
  <2> QED BY <1>2, <2>2, <2>3 DEF Hook
<1>3. CASE Script
  <2>1. phase = "running" /\ stack = 0
    BY <1>3 DEF ExecInv, Script, Step, Compute, Error, Pcall, PcallReturns, Write, ReadBadKey,
                Overwrite, Loop, Output, Signal, Return, Stray
  <2>2. CASE \E message : Raise(message)
    BY <2>1, <2>2, RaiseCleans
  <2>3. CASE Return
    BY <2>3 DEF Return, ExecInv, ExecClean, Off
  <2>4. CASE UNCHANGED <<phase, stack, execs>> /\ print_buf' \in {print_buf, print_buf \cup {execs}}
    BY <2>1, <2>4 DEF ExecInv, ExecClean
  <2>5. CASE phase' = "lost" /\ UNCHANGED <<stack, execs, print_buf>>
    BY <2>1, <2>5 DEF ExecInv, ExecClean
  <2>6. (\E message : Raise(message)) \/ (phase' = "lost" /\ UNCHANGED <<stack, execs, print_buf>>)
          \/ UNCHANGED <<phase, stack, execs, print_buf>>
          \/ (UNCHANGED <<phase, stack, execs>> /\ print_buf' = print_buf \cup {execs}) \/ Return
    <3>1. CASE Write
      BY <3>1 DEF Write, Quietly
    <3>2. CASE Error \/ ReadBadKey
      BY <3>2 DEF Error, ReadBadKey
    <3>3. CASE Compute \/ Overwrite \/ Loop
      BY <3>3 DEF Compute, Overwrite, Loop, Quietly
    <3>4. CASE Pcall \/ PcallReturns \/ Output \/ Signal \/ Return
      BY <3>4 DEF Pcall, PcallReturns, Output, Signal
    <3>5. CASE Stray
      BY <3>5 DEF Stray, Quietly
    <3> QED BY <1>3, <3>1, <3>2, <3>3, <3>4, <3>5 DEF Script
  <2> QED BY <2>2, <2>3, <2>4, <2>5, <2>6
<1>4. CASE Format
  BY <1>4 DEF Format, ExecInv, ExecClean
<1>5. CASE Collect
  <2>1. result'[2] \subseteq {execs}
    BY <1>5 DEF Collect, ExecInv
  <2> QED BY <1>5, <2>1 DEF Collect, ExecInv, ExecClean
<1>6. CASE Rebind \/ OwnAssignment
  BY <1>6 DEF Rebind, OwnAssignment, exec, ExecInv, ExecClean
<1>7. CASE SetCallback
  BY <1>7 DEF SetCallback, exec, ExecInv, ExecClean
<1>8. CASE UNCHANGED vars
  BY <1>8 DEF vars, exec, ExecInv, ExecClean
<1> QED BY <1>1, <1>2, <1>3, <1>4, <1>5, <1>6, <1>7, <1>8 DEF Next

(* However exec ends it leaves nothing behind, and its result holds no      *)
(* output of another script.                                                *)
THEOREM ExecLeavesNothing == Spec => []ExecClean
<1>1. Init => ExecInv
  BY DEF Init, ExecInv, ExecClean, NoResult
<1>2. ExecInv => ExecClean
  BY DEF ExecInv
<1> QED BY <1>1, <1>2, ExecInvNext, PTL DEF Spec

-----------------------------------------------------------------------------
(* Loops over arrays: the control variable is the index returned last.      *)
UpTo(n)  == [i \in 1 .. n |-> <<"number", i>>]
Met(o, n) == iter.ctl = <<"number", n>> /\ iter.seen = UpTo(n) /\ (iter.ended => n = o.len)
IterInv  == /\ iter = [of |-> iter.of, ctl |-> iter.ctl, seen |-> iter.seen, ended |-> iter.ended]
            /\ iter.of \subseteq Objects
            /\ \A o, p \in iter.of : o = p
            /\ \A o \in iter.of : o.kind = "array" => \E n \in 0 .. o.len : Met(o, n)

LEMMA UpToGrows == ASSUME NEW n \in Nat PROVE /\ Len(UpTo(n)) = n
                                              /\ Append(UpTo(n), <<"number", n + 1>>) = UpTo(n + 1)
<1>1. UpTo(n) \in Seq({"number"} \X Int) /\ Len(UpTo(n)) = n
  BY DEF UpTo
<1>2. Append(UpTo(n), <<"number", n + 1>>) = [i \in 1 .. n + 1 |-> IF i = n + 1 THEN <<"number", n + 1>> ELSE UpTo(n)[i]]
  BY <1>1
<1> QED BY <1>1, <1>2 DEF UpTo

LEMMA PairsKeepsOrder == ASSUME NEW o \in Objects, Pairs(o) PROVE IterInv'
<1>1. iter' = [of |-> {o}, ctl |-> <<"number", 0>>, seen |-> <<>>, ended |-> FALSE]
  BY DEF Pairs
<1>2. o.len \in Nat
  BY LayoutAssumption DEF Bindable
<1>3. Met(o, 0)'
  BY <1>1 DEF Met, UpTo
<1> QED BY <1>1, <1>2, <1>3 DEF IterInv

LEMMA AdvanceKeepsOrder == ASSUME IterInv, Advance PROVE IterInv'
<1>1. PICK o \in iter.of :
          \/ KeyAfter(o, ToInteger(iter.ctl)) = {} /\ iter' = [iter EXCEPT !.ended = TRUE]
          \/ \E k \in KeyAfter(o, ToInteger(iter.ctl)) :
                 iter' = [iter EXCEPT !.ctl = k, !.seen = Append(@, k)]
  BY DEF Advance
<1>2. iter'.of = iter.of /\ iter.of = {o} /\ o \in Objects
  BY <1>1 DEF IterInv
<1>3. iter' = [of |-> iter'.of, ctl |-> iter'.ctl, seen |-> iter'.seen, ended |-> iter'.ended]
  BY <1>1 DEF IterInv
<1>4. ASSUME o.kind = "array" PROVE \E n \in 0 .. o.len : Met(o, n)'
  <2>1. PICK n \in 0 .. o.len : Met(o, n)
    BY <1>2, <1>4 DEF IterInv
  <2>2. o.len \in Nat
    BY <1>2, LayoutAssumption DEF Bindable
  <2>3. KeyAfter(o, ToInteger(iter.ctl)) = IF n >= o.len THEN {} ELSE {<<"number", n + 1>>}
    <3>1. ToInteger(iter.ctl) = n
      BY <2>1 DEF ToInteger, Met
    <3> QED BY <1>4, <3>1 DEF KeyAfter
  <2>4. CASE n >= o.len
    <3>1. n = o.len
      BY <2>1, <2>2, <2>4
    <3>2. KeyAfter(o, ToInteger(iter.ctl)) = {}
      BY <2>3, <2>4
    <3>3. iter' = [iter EXCEPT !.ended = TRUE]
      BY <1>1, <3>2, Zenon
    <3>4. iter'.ctl = iter.ctl /\ iter'.seen = iter.seen
      BY <3>3 DEF IterInv
    <3> QED BY <2>1, <3>1, <3>4 DEF Met
  <2>5. CASE ~(n >= o.len)
    <3>1. iter' = [iter EXCEPT !.ctl = <<"number", n + 1>>, !.seen = Append(@, <<"number", n + 1>>)]
      <4>1. KeyAfter(o, ToInteger(iter.ctl)) = {<<"number", n + 1>>}
        BY <2>3, <2>5
      <4> QED BY <1>1, <4>1, Zenon
    <3>2. iter'.ctl = <<"number", n + 1>> /\ iter'.seen = UpTo(n + 1) /\ iter'.ended = iter.ended
      BY <2>1, <3>1, UpToGrows DEF IterInv, Met
    <3>3. ~iter.ended
      BY <2>1, <2>2, <2>5 DEF Met
    <3>4. n + 1 \in 0 .. o.len
      BY <2>1, <2>2, <2>5
    <3> QED BY <3>2, <3>3, <3>4 DEF Met
  <2> QED BY <2>4, <2>5
<1> QED BY <1>2, <1>3, <1>4 DEF IterInv

LEMMA OnlyLoops == ASSUME [Next]_vars PROVE UNCHANGED iter \/ iter' = NoIter \/ Loop
<1>1. CASE Begin \/ Hook
  BY <1>1 DEF Begin, Hook, ReturnError
<1>2. CASE Script
  <2>1. CASE Error \/ ReadBadKey
    BY <2>1 DEF Error, ReadBadKey, Raise, ReturnError
  <2>2. CASE Write
    BY <2>2 DEF Write, NewIndex, Raise, ReturnError
  <2>3. CASE Signal
    BY <2>3 DEF Signal, Assign
  <2>4. CASE Overwrite \/ Compute \/ Pcall \/ PcallReturns \/ Output \/ Return \/ Stray
    BY <2>4 DEF Overwrite, SetGlobal, Compute, Pcall, PcallReturns, Output, Return, Stray, NewIndexAs
  <2> QED BY <1>2, <2>1, <2>2, <2>3, <2>4 DEF Script
<1>3. CASE Format \/ Collect \/ SetCallback \/ UNCHANGED vars
  BY <1>3 DEF Format, Collect, SetCallback, vars
<1>4. CASE Rebind \/ OwnAssignment
  BY <1>4 DEF Rebind, Bind, OwnAssignment, Assign
<1> QED BY <1>1, <1>2, <1>3, <1>4 DEF Next

LEMMA IterInvNext == IterInv /\ [Next]_vars => IterInv'
<1> SUFFICES ASSUME IterInv, [Next]_vars PROVE IterInv'
  OBVIOUS
<1>1. CASE UNCHANGED iter
  BY <1>1 DEF IterInv, Met
<1>2. CASE iter' = NoIter
  BY <1>2 DEF IterInv, NoIter
<1>3. CASE Loop
  BY <1>3, PairsKeepsOrder, AdvanceKeepsOrder DEF Loop, Bound
<1> QED BY <1>1, <1>2, <1>3, OnlyLoops

(* A loop over an array meets every index once and in order, however long   *)
(* the array, though the body assigns to it or to the global it came from.  *)
THEOREM ArraysAreWalkedInOrder == Spec => []ArrayInOrder
<1>1. Init => IterInv
  BY DEF Init, IterInv, NoIter
<1>2. IterInv => ArrayInOrder
  <2> SUFFICES ASSUME IterInv, NEW o \in iter.of, o.kind = "array"
               PROVE  /\ iter.seen = UpTo(Len(iter.seen))
                      /\ iter.ended => Len(iter.seen) = o.len
    BY DEF ArrayInOrder, UpTo
  <2>1. PICK n \in 0 .. o.len : Met(o, n)
    BY DEF IterInv
  <2>2. n \in Nat
    BY <2>1, LayoutAssumption DEF IterInv, Bindable
  <2> QED BY <2>1, <2>2, UpToGrows DEF Met
<1> QED BY <1>1, <1>2, IterInvNext, PTL DEF Spec

-----------------------------------------------------------------------------
(* Loops over arrays and structs: the keys the iterators count out are the  *)
(* keys of the variable.                                                    *)
KeysOf(o) == IF o.kind = "array" THEN {<<"number", i>> : i \in 1 .. o.len}
             ELSE {<<"string", o.members[i].name>> : i \in DOMAIN o.members}

KeyInv == /\ iter = [of |-> iter.of, ctl |-> iter.ctl, seen |-> iter.seen, ended |-> iter.ended]
          /\ iter.of \subseteq Objects
          /\ \A o, p \in iter.of : o = p
          /\ \A o \in iter.of : /\ o.kind \in {"array", "struct"}
                                /\ ToInteger(iter.ctl) \in Nat
                                /\ iter.seen \in Seq(KeysOf(o))

LEMMA CountedKeys ==
    ASSUME NEW o \in Objects, o.kind \in {"array", "struct"}, NEW n \in Nat, NEW k \in KeyAfter(o, n)
    PROVE  k \in KeysOf(o) /\ ToInteger(k) \in Nat
<1>1. Bindable(o)
  BY LayoutAssumption
<1>2. CASE o.kind = "array"
  <2>1. n + 1 \in 1 .. o.len /\ k = <<"number", n + 1>>
    BY <1>1, <1>2 DEF KeyAfter, Bindable
  <2> QED BY <1>2, <2>1 DEF KeysOf, ToInteger
<1>3. CASE o.kind = "struct"
  <2>1. n + 1 \in DOMAIN o.members /\ k = <<"string", o.members[n + 1].name>>
    BY <1>1, <1>3 DEF KeyAfter, Bindable
  <2> QED BY <1>3, <2>1 DEF KeysOf, ToInteger
<1> QED BY <1>2, <1>3

LEMMA KeysArePlaced ==
    ASSUME NEW o \in Objects, o.kind \in {"array", "struct"}, NEW k \in KeysOf(o)
    PROVE  Places(o, k) # {}
<1>1. CASE o.kind = "array"
  <2>1. PICK i \in 1 .. o.len : k = <<"number", i>>
    BY <1>1 DEF KeysOf
  <2>2. Place(ArrayType(o), o.base + i - 1, 1) \in ArrayPlaces(o, k)
    BY <2>1 DEF ArrayPlaces
  <2> QED BY <1>1, <2>2 DEF Places
<1>2. CASE o.kind = "struct"
  <2>1. PICK i \in DOMAIN o.members : k = <<"string", o.members[i].name>>
    BY <1>2 DEF KeysOf
  <2> DEFINE f == Field(o.members[i])
  <2>2. f.name = o.members[i].name
    BY DEF Field
  <2>3. Place(f.type, o.base + f.offset, f.str_len) \in StructPlaces(o, k)
    BY <2>1, <2>2 DEF StructPlaces
  <2> QED BY <1>2, <2>3 DEF Places
<1> QED BY <1>1, <1>2

LEMMA LoopKeepsKeys == ASSUME KeyInv, Loop PROVE KeyInv'
<1>1. CASE \E n \in Names : \E o \in Bound(n) : Pairs(o)
  <2>1. PICK o \in Objects : Pairs(o)
    BY <1>1 DEF Bound
  <2>2. iter' = [of |-> {o}, ctl |-> <<"number", 0>>, seen |-> <<>>, ended |-> FALSE]
    BY <2>1 DEF Pairs
  <2>3. ToInteger(iter'.ctl) = 0 /\ iter'.seen \in Seq(KeysOf(o))
    BY <2>2 DEF ToInteger
  <2> QED BY <2>1, <2>2, <2>3 DEF KeyInv, Pairs
<1>2. CASE Advance
  <2>1. PICK o \in iter.of :
            \/ iter' = [iter EXCEPT !.ended = TRUE]
            \/ \E k \in KeyAfter(o, ToInteger(iter.ctl)) :
                   iter' = [iter EXCEPT !.ctl = k, !.seen = Append(@, k)]
    BY <1>2 DEF Advance
  <2>2. o \in Objects /\ o.kind \in {"array", "struct"} /\ iter.of = {o}
    BY <2>1 DEF KeyInv
  <2>3. CASE iter' = [iter EXCEPT !.ended = TRUE]
    BY <2>3 DEF KeyInv
  <2>4. ASSUME NEW k \in KeyAfter(o, ToInteger(iter.ctl)),
               iter' = [iter EXCEPT !.ctl = k, !.seen = Append(@, k)]
        PROVE  KeyInv'
    <3>1. k \in KeysOf(o) /\ ToInteger(k) \in Nat
      BY <2>2, CountedKeys DEF KeyInv
    <3>2. iter'.ctl = k /\ iter'.seen = Append(iter.seen, k) /\ iter'.of = {o}
      BY <2>2, <2>4 DEF KeyInv
    <3>3. iter'.seen \in Seq(KeysOf(o))
      BY <2>2, <3>1, <3>2 DEF KeyInv
    <3> QED BY <2>2, <2>4, <3>1, <3>2, <3>3 DEF KeyInv
  <2> QED BY <2>1, <2>3, <2>4
<1> QED BY <1>1, <1>2 DEF Loop

LEMMA KeyInvNext == KeyInv /\ [Next]_vars => KeyInv'
<1> SUFFICES ASSUME KeyInv, [Next]_vars PROVE KeyInv'
  OBVIOUS
<1>1. CASE UNCHANGED iter
  BY <1>1 DEF KeyInv
<1>2. CASE iter' = NoIter
  BY <1>2 DEF KeyInv, NoIter
<1> QED BY <1>1, <1>2, LoopKeepsKeys, OnlyLoops

(* Every key a loop hands out leads to a place of the variable it walks.    *)
THEOREM LoopKeysAreFound == Spec => []KeysAreFound
<1>1. Init => KeyInv
  BY DEF Init, KeyInv, NoIter
<1>2. KeyInv => KeysAreFound
  <2> SUFFICES ASSUME KeyInv, NEW o \in iter.of, NEW i \in DOMAIN iter.seen
               PROVE  Places(o, iter.seen[i]) # {}
    BY DEF KeysAreFound
  <2>1. iter.seen[i] \in KeysOf(o)
    BY DEF KeyInv
  <2> QED BY <2>1, KeysArePlaced DEF KeyInv
<1> QED BY <1>1, <1>2, KeyInvNext, PTL DEF Spec

-----------------------------------------------------------------------------
(* Types: what is left besides memory, whose cells MemInv types.  The output *)
(* names scripts that have begun, and the stack only grows when it is empty. *)
ExecTypes == /\ phase \in {"idle", "running", "collect", "lost"}
             /\ hook \in Off .. MAX_OPS /\ pcalls \in 0 .. MaxPcalls /\ stack \in 0 .. 2
             /\ print_buf \subseteq 1 .. execs /\ execs \in 0 .. MaxExecs /\ caught \in BOOLEAN
             /\ phase = "running" => execs >= 1
ShapeInv  == DOMAIN globals = Names /\ Len(iter.seen) <= MaxSeen /\ on \subseteq Callbacks

LEMMA Bounds == /\ MAX_OPS \in Nat /\ MaxPcalls \in Nat /\ MaxExecs \in Nat
                /\ Off \in Off .. MAX_OPS /\ 0 \in Off .. MAX_OPS /\ 0 \in 0 .. MaxPcalls
<1>1. MAX_OPS \in Nat /\ MaxPcalls \in Nat /\ MaxExecs \in Nat
  BY BoundAssumption
<1> QED BY <1>1 DEF Off

LEMMA CountedTyped == ASSUME ExecTypes, Step PROVE Counted \in Off .. MAX_OPS
  BY Bounds DEF ExecTypes, Step, Counted, Off

LEMMA ReturnErrorTyped ==
    ASSUME ExecTypes, ReturnError, execs' \in 0 .. MaxExecs, print_buf' \subseteq 1 .. execs'
    PROVE  ExecTypes'
  BY Bounds DEF ExecTypes, ReturnError

LEMMA RaiseTyped == ASSUME ExecTypes, Step, NEW message, Raise(message) PROVE ExecTypes'
<1>1. execs' = execs /\ print_buf' = print_buf
  BY DEF Raise
<1>2. CASE ReturnError
  BY <1>1, <1>2, ReturnErrorTyped DEF ExecTypes
<1>3. CASE pcalls > 0 /\ pcalls' = pcalls - 1 /\ hook' = Counted /\ UNCHANGED <<phase, stack, caught>>
  BY <1>1, <1>3, CountedTyped, Bounds DEF ExecTypes
<1>4. CASE phase' = "lost" /\ UNCHANGED <<hook, pcalls, stack, caught>>
  BY <1>1, <1>4 DEF ExecTypes
<1> QED BY <1>2, <1>3, <1>4 DEF Raise

LEMMA QuietTyped == ASSUME ExecTypes, Step, Quietly PROVE ExecTypes'
  BY CountedTyped DEF ExecTypes, Quietly

LEMMA ScriptTyped == ASSUME ExecTypes, ExecInv, Script PROVE ExecTypes'
<1>1. CASE Compute \/ Overwrite \/ Loop
  BY <1>1, QuietTyped DEF Compute, Overwrite, Loop
<1>2. CASE Error \/ ReadBadKey
  BY <1>2, RaiseTyped DEF Error, ReadBadKey
<1>3. CASE Write
  <2>1. Step /\ (Raise("string") \/ Quietly)
    BY <1>3 DEF Write
  <2> QED BY <2>1, RaiseTyped, QuietTyped
<1>4. CASE Pcall
  <2>1. pcalls' = pcalls + 1 /\ pcalls' \in 0 .. MaxPcalls
    BY <1>4, Bounds DEF Pcall, ExecTypes
  <2> QED BY <1>4, <2>1, CountedTyped DEF Pcall, ExecTypes
<1>5. CASE PcallReturns
  <2>1. pcalls' \in 0 .. MaxPcalls
    BY <1>5, Bounds DEF PcallReturns, ExecTypes
  <2> QED BY <1>5, <2>1, CountedTyped DEF PcallReturns, ExecTypes
<1>6. CASE Output \/ Signal
  <2>1. /\ Step /\ print_buf' = print_buf \cup {execs} /\ hook' = Counted
        /\ UNCHANGED <<phase, pcalls, stack, execs, caught>>
    BY <1>6 DEF Output, Signal
  <2>2. execs \in 1 .. execs
    BY <2>1 DEF ExecTypes, Step
  <2>3. print_buf' \subseteq 1 .. execs'
    BY <2>1, <2>2 DEF ExecTypes
  <2> QED BY <2>1, <2>3, CountedTyped DEF ExecTypes
<1>8. CASE Stray
  <2>1. CASE Quietly
    BY <1>8, <2>1, QuietTyped DEF Stray
  <2>2. CASE phase' = "lost" /\ UNCHANGED <<hook, pcalls, stack, print_buf, execs, caught>>
    BY <2>2 DEF ExecTypes
  <2> QED BY <1>8, <2>1, <2>2 DEF Stray
<1>7. CASE Return
  <2>1. stack = 0
    BY <1>7 DEF Return, Step, ExecInv
  <2>2. stack' \in 0 .. 2
    BY <1>7, <2>1 DEF Return
  <2>3. /\ phase' = "collect" /\ hook' = Off /\ caught' = FALSE
        /\ pcalls' = pcalls /\ print_buf' = print_buf /\ execs' = execs
    BY <1>7 DEF Return
  <2> QED BY <2>2, <2>3, Bounds DEF ExecTypes
<1> QED BY <1>1, <1>2, <1>3, <1>4, <1>5, <1>6, <1>7, <1>8 DEF Script

LEMMA ExecTypesNext == ExecTypes /\ ExecInv /\ [Next]_vars => ExecTypes'
<1> SUFFICES ASSUME ExecTypes, ExecInv, [Next]_vars PROVE ExecTypes'
  OBVIOUS
<1>1. CASE Begin
  <2>1. execs' = execs + 1 /\ execs' \in 0 .. MaxExecs /\ execs' >= 1 /\ print_buf' = {}
    BY <1>1, Bounds DEF Begin, ClearPrints, ExecTypes
  <2>2. CASE ReturnError
    BY <2>1, <2>2, ReturnErrorTyped
  <2>3. CASE phase' = "running" /\ hook' = 0 /\ UNCHANGED <<pcalls, stack, caught>>
    BY <2>1, <2>3, Bounds DEF ExecTypes
  <2> QED BY <1>1, <2>2, <2>3 DEF Begin
<1>2. CASE Hook
  <2>1. execs' = execs /\ print_buf' = print_buf
    BY <1>2 DEF Hook
  <2>2. CASE ReturnError
    BY <2>1, <2>2, ReturnErrorTyped DEF ExecTypes
  <2>3. CASE /\ pcalls > 0 /\ hook' = Off /\ caught' = TRUE /\ pcalls' = pcalls - 1
             /\ UNCHANGED <<phase, stack>>
    BY <2>1, <2>3, Bounds DEF ExecTypes
  <2> QED BY <1>2, <2>2, <2>3 DEF Hook
<1>3. CASE Script
  BY <1>3, ScriptTyped
<1>4. CASE Format
  BY <1>4 DEF Format, ExecTypes
<1>5. CASE Collect
  <2>1. /\ phase' = "idle" /\ stack' = 0 /\ hook' = hook /\ caught' = caught
        /\ pcalls' = pcalls /\ print_buf' = print_buf /\ execs' = execs
    BY <1>5 DEF Collect
  <2> QED BY <2>1 DEF ExecTypes
<1>6. CASE Rebind \/ OwnAssignment \/ SetCallback
  BY <1>6 DEF Rebind, OwnAssignment, SetCallback, exec, ExecTypes
<1>7. CASE UNCHANGED vars
  BY <1>7 DEF vars, exec, ExecTypes
<1> QED BY <1>1, <1>2, <1>3, <1>4, <1>5, <1>6, <1>7 DEF Next

LEMMA LoopIsBounded == ASSUME KeyInv, Loop, Len(iter.seen) <= MaxSeen PROVE Len(iter.seen)' <= MaxSeen
<1>1. CASE \E n \in Names : \E o \in Bound(n) : Pairs(o)
  BY <1>1, WidthAssumption DEF Pairs
<1>2. CASE Advance
  <2>1. PICK o \in iter.of :
            \/ iter' = [iter EXCEPT !.ended = TRUE]
            \/ \E k \in KeyAfter(o, ToInteger(iter.ctl)) :
                   iter' = [iter EXCEPT !.ctl = k, !.seen = Append(@, k)]
    BY <1>2 DEF Advance
  <2>2. iter.seen \in Seq(KeysOf(o)) /\ Len(iter.seen) < MaxSeen
    BY <1>2, <2>1 DEF KeyInv, Advance
  <2>3. ASSUME NEW k, iter' = [iter EXCEPT !.ctl = k, !.seen = Append(@, k)]
        PROVE  Len(iter'.seen) <= MaxSeen
    <3>1. iter'.seen = Append(iter.seen, k)
      BY <2>3 DEF KeyInv
    <3>2. iter.seen \in Seq(KeysOf(o) \cup {k})
      BY <2>2
    <3>3. Len(Append(iter.seen, k)) = Len(iter.seen) + 1 /\ Len(iter.seen) \in Nat
      BY <3>2
    <3> QED BY <2>2, <3>1, <3>3, WidthAssumption
  <2>4. ASSUME iter' = [iter EXCEPT !.ended = TRUE] PROVE Len(iter'.seen) <= MaxSeen
    BY <2>4 DEF KeyInv
  <2> QED BY <2>1, <2>3, <2>4
<1> QED BY <1>1, <1>2 DEF Loop

LEMMA ShapeInvNext == ShapeInv /\ KeyInv /\ [Next]_vars => ShapeInv'
<1> SUFFICES ASSUME ShapeInv, KeyInv, [Next]_vars PROVE ShapeInv'
  OBVIOUS
<1>1. Len(iter.seen)' <= MaxSeen
  <2>1. CASE UNCHANGED iter
    BY <2>1 DEF ShapeInv
  <2>2. CASE iter' = NoIter
    BY <2>2, WidthAssumption DEF NoIter
  <2>3. CASE Loop
    BY <2>3, LoopIsBounded DEF ShapeInv
  <2> QED BY <2>1, <2>2, <2>3, OnlyLoops
<1>2. DOMAIN globals' = DOMAIN globals /\ on' \subseteq Callbacks
  <2>1. CASE Begin \/ Hook \/ Format \/ Collect \/ UNCHANGED vars
    BY <2>1 DEF Begin, Hook, Format, Collect, vars, ShapeInv
  <2>2. CASE Compute \/ Error \/ Pcall \/ PcallReturns \/ ReadBadKey \/ Output \/ Return
    BY <2>2 DEF Compute, Quietly, Error, Raise, Pcall, PcallReturns, ReadBadKey, Output, Return, ShapeInv
  <2>3. CASE Write \/ Stray
    BY <2>3 DEF Write, Quietly, Raise, NewIndex, Stray, NewIndexAs, ShapeInv
  <2>4. CASE Overwrite \/ Rebind
    BY <2>4 DEF Overwrite, SetGlobal, Quietly, Rebind, Bind, ShapeInv
  <2>5. CASE Loop
    BY <2>5 DEF Loop, Quietly, Pairs, Advance, ShapeInv
  <2>6. CASE Signal \/ OwnAssignment
    BY <2>6 DEF Signal, Assign, OwnAssignment, ShapeInv
  <2>7. CASE SetCallback
    BY <2>7 DEF SetCallback, ShapeInv
  <2> QED BY <2>1, <2>2, <2>3, <2>4, <2>5, <2>6, <2>7 DEF Next, Script
<1> QED BY <1>1, <1>2 DEF ShapeInv

(* Whatever scripts and the application do, the hook stays within its count, *)
(* and the buffer of prints names scripts that have begun; until a script    *)
(* uses one kind's metamethod on another kind's userdata, a variable that is *)
(* bound well holds values of its declared type, a buffer characters.        *)
THEOREM TypesHold == Spec => []TypeOK
<1>1. Init => ExecTypes /\ ShapeInv /\ ExecInv /\ KeyInv
  <2>1. Init => ExecTypes
    <3> SUFFICES ASSUME Init PROVE ExecTypes
      OBVIOUS
    <3>1. /\ phase = "idle" /\ hook = Off /\ pcalls = 0 /\ stack = 0
          /\ print_buf = {} /\ execs = 0 /\ caught = FALSE
      BY DEF Init
    <3>2. execs \in 0 .. MaxExecs /\ stack \in 0 .. 2
      BY <3>1, Bounds
    <3>3. hook \in Off .. MAX_OPS /\ pcalls \in 0 .. MaxPcalls
      BY <3>1, Bounds
    <3>4. print_buf \subseteq 1 .. execs /\ caught \in BOOLEAN
      BY <3>1
    <3> QED BY <3>1, <3>2, <3>3, <3>4 DEF ExecTypes
  <2>2. Init => ShapeInv
    BY WidthAssumption DEF Init, ShapeInv, NoIter
  <2>3. Init => ExecInv
    BY DEF Init, ExecInv, ExecClean, NoResult
  <2>4. Init => KeyInv
    BY DEF Init, KeyInv, NoIter
  <2> QED BY <2>1, <2>2, <2>3, <2>4
<1>2. Sound /\ ExecTypes /\ ShapeInv /\ KeyInv => TypeOK
  <2> SUFFICES ASSUME Sound, ExecTypes, ShapeInv, KeyInv PROVE TypeOK
    OBVIOUS
  <2>1. ASSUME ~strayed, NEW p \in WellBound PROVE CellOK(p)
    BY <2>1 DEF Sound, MemInv, Holds, CellOK
  <2> QED BY <2>1 DEF TypeOK, BindingTypeOK, ExecTypes, ShapeInv, KeyInv, Sound
<1>3. Sound /\ [Next]_vars => Sound'
  BY SoundNext
<1> QED BY <1>1, <1>2, <1>3, SoundInit, ExecTypesNext, ShapeInvNext, ExecInvNext, KeyInvNext, PTL DEF Spec
=============================================================================
