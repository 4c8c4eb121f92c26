------------------------------ MODULE RingProofs ------------------------------
(***************************************************************************)
(* Facts about positions and slots, for every capacity: positions less     *)
(* than Capacity apart never share a slot, positions Capacity apart do.     *)
(***************************************************************************)
EXTENDS Ring, Integers, TLAPS

LEMMA DivMod ==
  ASSUME NEW i \in Nat
  PROVE  /\ i \div Capacity \in Int
         /\ i % Capacity \in 0 .. Capacity - 1
         /\ i = Capacity * (i \div Capacity) + (i % Capacity)
BY CapacityAssumption

LEMMA MulPos ==
  ASSUME NEW k \in Int, k > 0
  PROVE  Capacity * k >= Capacity
BY CapacityAssumption

LEMMA MulNeg ==
  ASSUME NEW k \in Int, k < 0
  PROVE  Capacity * k <= -Capacity
BY CapacityAssumption

(* Two numbers with the same quotient-free part are a multiple of Capacity  *)
(* apart: the step every fact about slots rests on.                         *)
LEMMA SameSlot ==
  ASSUME NEW i \in Nat, NEW j \in Nat, Slot(i) = Slot(j)
  PROVE  \E k \in Int : j - i = Capacity * k
<1> DEFINE a == i \div Capacity
           b == j \div Capacity
<1>1. /\ a \in Int /\ b \in Int
      /\ i = Capacity * a + (i % Capacity)
      /\ j = Capacity * b + (j % Capacity)
      /\ i % Capacity \in Int
  BY DivMod, CapacityAssumption
<1>2. i % Capacity = j % Capacity
  BY DEF Slot
<1> HIDE DEF a, b
<1>3. j - i = Capacity * (b - a)
  BY <1>1, <1>2, CapacityAssumption
<1>4. b - a \in Int
  BY <1>1
<1> QED BY <1>3, <1>4

LEMMA SlotRange == ASSUME NEW i \in Nat PROVE Slot(i) \in Slots
BY DivMod DEF Slot, Slots

(* Positions less than Capacity apart have different slots. *)
LEMMA SlotDistinct ==
  ASSUME NEW i \in Nat, NEW j \in Nat, i # j, i < j + Capacity, j < i + Capacity
  PROVE  Slot(i) # Slot(j)
<1>1. SUFFICES ASSUME Slot(i) = Slot(j) PROVE FALSE
  OBVIOUS
<1>2. PICK k \in Int : j - i = Capacity * k
  BY <1>1, SameSlot
<1>3. CASE k > 0
  BY <1>2, <1>3, MulPos, CapacityAssumption
<1>4. CASE k < 0
  BY <1>2, <1>4, MulNeg, CapacityAssumption
<1>5. CASE k = 0
  BY <1>2, <1>5, CapacityAssumption
<1> QED BY <1>3, <1>4, <1>5

(* Positions Capacity apart share their slot. *)
LEMMA SlotWraps == ASSUME NEW i \in Nat PROVE Slot(i + Capacity) = Slot(i)
<1> DEFINE a == i \div Capacity
           b == (i + Capacity) \div Capacity
           r == i % Capacity
           s == (i + Capacity) % Capacity
<1>1. /\ a \in Int /\ b \in Int /\ i = Capacity * a + r
      /\ i + Capacity = Capacity * b + s
      /\ r \in 0 .. Capacity - 1 /\ s \in 0 .. Capacity - 1
  BY DivMod, CapacityAssumption
<1> SUFFICES r = s
  BY DEF Slot
<1> HIDE DEF a, b, r, s
<1>2. Capacity * (b - a - 1) = r - s
  BY <1>1, CapacityAssumption
<1>3. b - a - 1 \in Int
  BY <1>1
<1>4. CASE b - a - 1 > 0
  BY <1>1, <1>2, <1>3, <1>4, MulPos, CapacityAssumption
<1>5. CASE b - a - 1 < 0
  BY <1>1, <1>2, <1>3, <1>5, MulNeg, CapacityAssumption
<1>6. CASE b - a - 1 = 0
  BY <1>1, <1>2, <1>6, CapacityAssumption
<1> QED BY <1>1, <1>4, <1>5, <1>6

(* Capacity consecutive positions visit every slot. *)
LEMMA SlotCovered ==
  ASSUME NEW m \in Nat, NEW s \in Slots
  PROVE  \E i \in m .. m + Capacity - 1 : Slot(i) = s
<1> DEFINE a == m \div Capacity
           r == m % Capacity
           i == IF s >= r THEN m - r + s ELSE m - r + s + Capacity
<1>1. /\ a \in Int /\ r \in 0 .. Capacity - 1 /\ m = Capacity * a + r
      /\ s \in 0 .. Capacity - 1
  BY DivMod DEF Slots
<1>2. i \in m .. m + Capacity - 1
  <2> HIDE DEF a, r
  <2> QED BY <1>1, CapacityAssumption
<1> DEFINE b == i \div Capacity
           u == i % Capacity
<1>3. i \in Nat
  <2> HIDE DEF i
  <2> QED BY <1>2
<1>4. b \in Int /\ u \in 0 .. Capacity - 1 /\ i = Capacity * b + u
  <2> HIDE DEF i
  <2> QED BY <1>3, DivMod
<1>5. u = s
  <2> DEFINE q == IF s >= r THEN a ELSE a + 1
  <2>1. q \in Int /\ i = Capacity * q + s
    <3> HIDE DEF a, r
    <3> QED BY <1>1, CapacityAssumption
  <2> HIDE DEF a, r, i, b, u, q
  <2>2. Capacity * (b - q) = s - u /\ b - q \in Int
    BY <1>1, <1>4, <2>1, CapacityAssumption
  <2>3. CASE b - q > 0
    BY <1>1, <1>4, <2>2, <2>3, MulPos, CapacityAssumption
  <2>4. CASE b - q < 0
    BY <1>1, <1>4, <2>2, <2>4, MulNeg, CapacityAssumption
  <2>5. CASE b - q = 0
    BY <1>1, <1>4, <2>2, <2>5, CapacityAssumption
  <2> QED BY <1>1, <1>4, <2>2, <2>3, <2>4, <2>5
<1> HIDE DEF i
<1> QED BY <1>2, <1>5 DEF Slot
=============================================================================
