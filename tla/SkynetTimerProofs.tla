------------------------- MODULE SkynetTimerProofs -------------------------
(***************************************************************************)
(* Proofs about the timing wheel, for all shifts and any number of levels. *)
(*                                                                         *)
(* First the arithmetic of the counter: its digits in the mixed radix of   *)
(* the levels, and which of them a tick changes.  Then where add_node puts *)
(* a node, and what timer_shift has to move for every node to stay in the  *)
(* slot that will be looked in.  Then the steps.                           *)
(***************************************************************************)
EXTENDS SkynetTimer, FiniteSetTheorems, FunctionTheorems, SequenceTheorems,
        WellFoundedInduction, TLAPS

-----------------------------------------------------------------------------
(* Numbers                                                                 *)

\* A power of two counts the subsets of a set, so it is a positive number.
LEMMA PowerOfTwo ==
    ASSUME NEW k \in Nat
    PROVE  2 ^ k \in Nat /\ 2 ^ k > 0
<1>1. IsFiniteSet(1..k) /\ Cardinality(1..k) = k
  BY FS_Interval
<1>2. IsFiniteSet(SUBSET (1..k)) /\ Cardinality(SUBSET (1..k)) = 2 ^ k
  BY <1>1, FS_SUBSET
<1>3. SUBSET (1..k) # {}
  OBVIOUS
<1> QED BY <1>2, <1>3, FS_EmptySet, FS_CardinalityType

\* A nonempty set of natural numbers has a least element.
LEMMA Least ==
    ASSUME NEW T \in SUBSET Nat, T # {}
    PROVE  \E x \in T : \A y \in T : x <= y
<1>1. PICK x \in T : \A y \in T : ~ (<<y, x>> \in OpToRel(<, Nat))
  BY NatLessThanWellFounded, WFMin
<1>2. \A y \in T : ~ (y < x)
  BY <1>1 DEF OpToRel
<1> QED BY <1>2

\* Dividing twice is dividing by the product.
LEMMA DivDiv ==
    ASSUME NEW x \in Nat, NEW a \in Nat, NEW b \in Nat, a > 0, b > 0
    PROVE  x \div (a * b) = (x \div a) \div b
OBVIOUS

\* Division keeps the order.
LEMMA DivMono ==
    ASSUME NEW x \in Nat, NEW y \in Nat, NEW a \in Nat, a > 0, x <= y
    PROVE  x \div a <= y \div a
OBVIOUS

\* A quotient goes up by one when the remainder starts again at zero.
LEMMA SuccDiv ==
    ASSUME NEW q \in Nat, NEW b \in Nat, b > 0
    PROVE  /\ (q + 1) % b = 0 => (q + 1) \div b = q \div b + 1
           /\ (q + 1) % b # 0 => (q + 1) \div b = q \div b /\ (q + 1) % b = (q % b) + 1
OBVIOUS

\* The subsets of a disjoint union are pairs of subsets.
LEMMA PowMul ==
    ASSUME NEW a \in Nat, NEW b \in Nat
    PROVE  2 ^ (a + b) = 2 ^ a * 2 ^ b
<1> DEFINE A == 1..a
           B == a + 1..a + b
           C == 1..a + b
           f == [T \in SUBSET C |-> <<T \cap A, T \cap B>>]
<1>1. /\ IsFiniteSet(A) /\ Cardinality(A) = a
      /\ IsFiniteSet(B) /\ Cardinality(B) = b
      /\ IsFiniteSet(C) /\ Cardinality(C) = a + b
  <2>1. IsFiniteSet(A) /\ Cardinality(A) = a
    BY FS_Interval
  <2>2. IsFiniteSet(B) /\ Cardinality(B) = b
    <3>1. a + 1 \in Int /\ a + b \in Int
      OBVIOUS
    <3>2. /\ IsFiniteSet(B)
          /\ Cardinality(B) = IF a + 1 > a + b THEN 0 ELSE (a + b) - (a + 1) + 1
      BY <3>1, FS_Interval
    <3> HIDE DEF B
    <3> QED BY <3>2
  <2>3. IsFiniteSet(C) /\ Cardinality(C) = a + b
    <3>1. a + b \in Nat
      OBVIOUS
    <3> QED BY <3>1, FS_Interval
  <2> QED BY <2>1, <2>2, <2>3
<1>2. C = A \cup B
  <2>1. \A i : i \in C <=> i \in A \/ i \in B
    OBVIOUS
  <2> QED BY <2>1
<1>3. A \cap B = {}
  OBVIOUS
<1> HIDE DEF A, B, C
<1>4. f \in Bijection(SUBSET C, (SUBSET A) \X (SUBSET B))
  <2>1. f \in [SUBSET C -> (SUBSET A) \X (SUBSET B)]
    OBVIOUS
  <2>2. ASSUME NEW S \in SUBSET C, NEW T \in SUBSET C, f[S] = f[T] PROVE S = T
    BY <2>2, <1>2
  <2>3. ASSUME NEW p \in (SUBSET A) \X (SUBSET B) PROVE \E T \in SUBSET C : f[T] = p
    <3>1. PICK S \in SUBSET A, T \in SUBSET B : p = <<S, T>>
      OBVIOUS
    <3>2. S \cup T \in SUBSET C /\ (S \cup T) \cap A = S /\ (S \cup T) \cap B = T
      BY <1>2, <1>3
    <3>3. f[S \cup T] = p
      BY <3>1, <3>2
    <3> QED BY <3>2, <3>3
  <2> QED BY <2>1, <2>2, <2>3, Fun_IsBij
<1>5. ExistsBijection(SUBSET C, (SUBSET A) \X (SUBSET B))
  BY <1>4 DEF ExistsBijection
<1>6. IsFiniteSet(SUBSET A) /\ IsFiniteSet(SUBSET B) /\ IsFiniteSet(SUBSET C)
  BY <1>1, FS_SUBSET
<1>7. Cardinality((SUBSET A) \X (SUBSET B)) = Cardinality(SUBSET A) * Cardinality(SUBSET B)
  BY <1>6, FS_Product
<1>8. Cardinality((SUBSET A) \X (SUBSET B)) = Cardinality(SUBSET C)
  BY <1>5, <1>6, FS_Bijection
<1>9. /\ Cardinality(SUBSET A) = 2 ^ a /\ Cardinality(SUBSET B) = 2 ^ b
      /\ Cardinality(SUBSET C) = 2 ^ (a + b)
  BY <1>1, FS_SUBSET
<1> QED BY <1>7, <1>8, <1>9

\* The first two powers.
LEMMA PowOne == 2 ^ 0 = 1 /\ 2 ^ 1 = 2
<1>1. 2 ^ 0 = 1
  <2>1. IsFiniteSet({}) /\ Cardinality({}) = 0
    BY FS_EmptySet
  <2>2. Cardinality(SUBSET {}) = 2 ^ 0
    BY <2>1, FS_SUBSET
  <2>3. SUBSET {} = {{}}
    OBVIOUS
  <2> QED BY <2>2, <2>3, FS_Singleton
<1>2. 2 ^ 1 = 2
  <2>1. IsFiniteSet({0}) /\ Cardinality({0}) = 1
    BY FS_Singleton
  <2>2. Cardinality(SUBSET {0}) = 2 ^ 1
    BY <2>1, FS_SUBSET
  <2>3. SUBSET {0} = {{}} \cup {{0}}
    OBVIOUS
  <2>4. IsFiniteSet({{}}) /\ Cardinality({{}}) = 1 /\ {0} \notin {{}}
    BY FS_Singleton
  <2> QED BY <2>2, <2>3, <2>4, FS_AddElement
<1> QED BY <1>1, <1>2

-----------------------------------------------------------------------------
(* The digits of the counter                                               *)

\* The number of slots of level k, and x without its digits below level k.
Base(k)    == 2 ^ (IF k = 0 THEN NearShift ELSE LevelShift)
Quot(x, k) == x \div 2 ^ Below(k)

Time == 0..MaxTime - 1

\* The counter has a positive number of values.
LEMMA TimeBound == MaxTime \in Nat /\ MaxTime > 0 /\ Width \in Nat
<1>1. Levels * LevelShift \in Nat
  BY TimerAssumption
<1>2. Width \in Nat
  BY <1>1, TimerAssumption DEF Width
<1> QED BY <1>2, PowerOfTwo DEF MaxTime

\* The counter has at least two bits.
LEMMA MaxTimeBound == MaxTime >= 4
<1>1. NearShift - 1 \in Nat /\ Levels * LevelShift - 1 \in Nat
  <2>1. \A a, b \in Nat \ {0} : a * b \in Nat /\ a * b > 0
    OBVIOUS
  <2>2. Levels * LevelShift \in Nat /\ Levels * LevelShift > 0
    BY <2>1, TimerAssumption
  <2> QED BY <2>2, TimerAssumption
<1> DEFINE a == NearShift - 1
           b == Levels * LevelShift - 1
<1>2. Width = 1 + (1 + (a + b))
  BY TimerAssumption, <1>1 DEF Width
<1> HIDE DEF a, b
<1>3. a + b \in Nat /\ 1 + (a + b) \in Nat
  BY <1>1 DEF a, b
<1>4. MaxTime = 2 ^ 1 * (2 ^ 1 * 2 ^ (a + b))
  BY <1>2, <1>3, PowMul DEF MaxTime
<1>5. 2 ^ (a + b) \in Nat /\ 2 ^ (a + b) > 0
  BY <1>3, PowerOfTwo
<1> QED BY <1>4, <1>5, PowOne

\* A level has at least one slot.
LEMMA BaseFacts ==
    ASSUME NEW k \in Nat
    PROVE  Base(k) \in Nat /\ Base(k) > 0
BY TimerAssumption, PowerOfTwo DEF Base

\* The bits below a level are those of the levels below.
LEMMA BelowFacts ==
    ASSUME NEW k \in Nat
    PROVE  /\ Below(k) \in Nat
           /\ Below(k + 1) = Below(k) + (IF k = 0 THEN NearShift ELSE LevelShift)
<1> DEFINE L == LevelShift
<1>1. L \in Nat /\ NearShift \in Nat
  BY TimerAssumption
<1> HIDE DEF L
<1>2. CASE k = 0
  <2>1. Below(0) = 0 /\ Below(1) = NearShift + (1 - 1) * L
    BY DEF Below, L
  <2> QED BY <1>1, <1>2, <2>1
<1>3. CASE k # 0
  <2>1. Below(k) = NearShift + (k - 1) * L /\ Below(k + 1) = NearShift + (k + 1 - 1) * L
    BY <1>3 DEF Below, L
  <2>2. k - 1 \in Nat /\ (k + 1) - 1 = (k - 1) + 1
    BY <1>3
  <2>3. \A a, b \in Nat : a * b \in Nat /\ (a + 1) * b = a * b + b
    OBVIOUS
  <2>4. (k - 1) * L \in Nat /\ ((k - 1) + 1) * L = (k - 1) * L + L
    BY <1>1, <2>2, <2>3
  <2>5. k + 1 - 1 = (k - 1) + 1
    OBVIOUS
  <2>6. Below(k + 1) = NearShift + ((k - 1) * L + L)
    BY <2>1, <2>4, <2>5
  <2> QED BY <1>1, <1>3, <2>1, <2>4, <2>6 DEF L
<1> QED BY <1>2, <1>3

\* One level up is one division by the number of slots, and the digit is its
\* remainder.
LEMMA QuotStep ==
    ASSUME NEW x \in Nat, NEW k \in Nat
    PROVE  /\ Quot(x, k) \in Nat
           /\ Quot(x, k + 1) = Quot(x, k) \div Base(k)
           /\ Digit(x, k) = Quot(x, k) % Base(k)
           /\ Block(x, k) = Quot(x, k + 1)
<1> DEFINE a == 2 ^ Below(k)
           b == Base(k)
<1>1. a \in Nat /\ a > 0 /\ b \in Nat /\ b > 0
  BY BaseFacts, BelowFacts, PowerOfTwo
<1>2. 2 ^ Below(k + 1) = a * b
  <2>1. (IF k = 0 THEN NearShift ELSE LevelShift) \in Nat
    BY TimerAssumption
  <2> QED BY <2>1, BelowFacts, PowMul DEF Base
<1>3. Quot(x, k) = x \div a /\ Quot(x, k + 1) = x \div (a * b) /\ Block(x, k) = x \div (a * b)
  BY <1>2 DEF Quot, Block
<1>4. Digit(x, k) = (x \div a) % b
  BY DEF Digit, Base
<1> HIDE DEF a, b
<1>5. x \div (a * b) = (x \div a) \div b /\ x \div a \in Nat
  BY <1>1, DivDiv
<1> QED BY <1>3, <1>4, <1>5 DEF b

\* Nothing is cut off below level 0, and nothing is left above the last level.
LEMMA QuotEnds ==
    ASSUME NEW x \in Time
    PROVE  x \in Nat /\ Quot(x, 0) = x /\ Quot(x, Levels + 1) = 0
<1>1. x \in Nat /\ x < MaxTime
  BY TimeBound DEF Time
<1>2. Quot(x, 0) = x
  <2>1. 2 ^ 0 = 1
    BY PowOne
  <2>2. Quot(x, 0) = x \div 1
    BY <2>1 DEF Quot, Below
  <2> QED BY <1>1, <2>2
<1>3. Below(Levels + 1) = Width
  <2>1. Levels \in Nat /\ Levels + 1 # 0 /\ (Levels + 1) - 1 = Levels
    BY TimerAssumption
  <2> QED BY <2>1 DEF Below, Width
<1>4. Quot(x, Levels + 1) = x \div MaxTime
  BY <1>3 DEF Quot, MaxTime
<1>5. \A m \in Nat : x < m => x \div m = 0
  BY <1>1
<1> QED BY <1>1, <1>2, <1>4, <1>5, TimeBound

\* A digit is the index of a slot of its level.
LEMMA DigitBound ==
    ASSUME NEW x \in Nat, NEW k \in Nat
    PROVE  Digit(x, k) \in 0..Base(k) - 1 /\ Digit(x, k) \in Nat
<1>1. \A p, b \in Nat : b > 0 => p % b \in 0..b - 1
  OBVIOUS
<1>2. Quot(x, k) \in Nat /\ Base(k) \in Nat /\ Base(k) > 0
  BY QuotStep, BaseFacts
<1>3. Quot(x, k) % Base(k) \in 0..Base(k) - 1 /\ Quot(x, k) % Base(k) \in Nat
  BY <1>1, <1>2
<1> QED BY <1>3, QuotStep

\* Counters that agree above some level agree above every higher one.
LEMMA AgreeAbove ==
    ASSUME NEW x \in Nat, NEW y \in Nat, NEW j \in Nat, NEW k \in Nat,
           j <= k, Quot(x, j) = Quot(y, j)
    PROVE  Quot(x, k) = Quot(y, k)
<1> DEFINE T == {i \in Nat : i >= j /\ Quot(x, i) # Quot(y, i)}
<1>1. SUFFICES ASSUME T # {} PROVE FALSE
  OBVIOUS
<1>2. PICK i \in T : \A h \in T : i <= h
  <2>1. T \in SUBSET Nat
    OBVIOUS
  <2> HIDE DEF T
  <2> QED BY <1>1, <2>1, Least
<1>3. i \in Nat /\ i > j /\ i - 1 \in Nat /\ i - 1 \notin T
  BY <1>2
<1>4. Quot(x, i - 1) = Quot(y, i - 1)
  BY <1>3
<1>5. (i - 1) + 1 = i
  BY <1>3
<1>6. Quot(x, i) = Quot(y, i)
  BY <1>3, <1>4, <1>5, QuotStep
<1> QED BY <1>2, <1>6

\* A later time has no smaller quotient.
LEMMA QuotMono ==
    ASSUME NEW x \in Nat, NEW y \in Nat, NEW k \in Nat, x <= y
    PROVE  Quot(x, k) <= Quot(y, k)
BY DivMono, BelowFacts, PowerOfTwo DEF Quot

\* A quotient and a remainder determine the number, the larger remainder
\* belongs to the larger number, and numbers of one quotient are near.
LEMMA DivMod ==
    ASSUME NEW p \in Nat, NEW q \in Nat, NEW b \in Nat, b > 0, p \div b = q \div b
    PROVE  /\ p % b = q % b => p = q
           /\ p % b < q % b <=> p < q
           /\ p < q => q - p < b
<1>1. p % b = q % b => p = q
  OBVIOUS
<1>2. p % b < q % b <=> p < q
  OBVIOUS
<1>3. p < q => q - p < b
  OBVIOUS
<1> QED BY <1>1, <1>2, <1>3

\* The same for two values of the counter.
LEMMA DigitOrder ==
    ASSUME NEW x \in Nat, NEW y \in Nat, NEW k \in Nat, Block(x, k) = Block(y, k)
    PROVE  /\ Digit(x, k) = Digit(y, k) <=> Quot(x, k) = Quot(y, k)
           /\ Digit(x, k) < Digit(y, k) <=> Quot(x, k) < Quot(y, k)
           /\ Digit(x, k) < Digit(y, k) => x < y
<1> DEFINE p == Quot(x, k)
           q == Quot(y, k)
           b == Base(k)
<1>1. p \in Nat /\ q \in Nat /\ b \in Nat /\ b > 0 /\ p \div b = q \div b
  BY QuotStep, BaseFacts
<1>2. Digit(x, k) = p % b /\ Digit(y, k) = q % b
  BY QuotStep
<1>3. y <= x => q <= p
  BY QuotMono
<1> HIDE DEF p, q, b
<1>4. /\ p % b = q % b <=> p = q
      /\ p % b < q % b <=> p < q
  BY <1>1, DivMod
<1>5. p < q => x < y
  BY <1>1, <1>3
<1> QED BY <1>2, <1>4, <1>5 DEF p, q

-----------------------------------------------------------------------------
(* One tick                                                                *)

\* Level c is where the carry of a tick from t to u ends.
Carry(t, u, c) ==
    /\ \A j \in 0..c : Quot(u, j) = Quot(t, j) + 1
    /\ \A j \in c + 1..Levels + 1 : Quot(u, j) = Quot(t, j)
    /\ \A j \in 0..c - 1 : Digit(u, j) = 0
    /\ Digit(u, c) # 0

\* Up to a level below which all digits are zero the carry goes on.
LEMMA CarryGoesOn ==
    ASSUME NEW t \in Time, t + 1 \in Time, NEW c \in Nat,
           \A j \in 0..c - 1 : Digit(t + 1, j) = 0
    PROVE  \A j \in 0..c : Quot(t + 1, j) = Quot(t, j) + 1
<1> DEFINE T == {j \in 0..c : Quot(t + 1, j) # Quot(t, j) + 1}
<1>1. SUFFICES ASSUME T # {} PROVE FALSE
  OBVIOUS
<1>2. PICK j \in T : \A h \in T : j <= h
  <2>1. T \in SUBSET Nat
    OBVIOUS
  <2> HIDE DEF T
  <2> QED BY <1>1, <2>1, Least
<1>3. j # 0
  BY <1>2, QuotEnds
<1>4. j - 1 \in 0..c - 1 /\ j - 1 \in Nat /\ j - 1 \notin T /\ (j - 1) + 1 = j
  BY <1>2, <1>3
<1>5. Quot(t + 1, j - 1) = Quot(t, j - 1) + 1 /\ Digit(t + 1, j - 1) = 0
  BY <1>4
<1>6. Quot(t + 1, j) = Quot(t, j) + 1
  <2> DEFINE q == Quot(t, j - 1)
             b == Base(j - 1)
  <2>1. t \in Nat /\ t + 1 \in Nat
    BY QuotEnds
  <2>2. q \in Nat /\ b \in Nat /\ b > 0
    BY <1>4, <2>1, QuotStep, BaseFacts
  <2>3. /\ Quot(t + 1, j) = (q + 1) \div b /\ Quot(t, j) = q \div b
        /\ (q + 1) % b = 0
    BY <1>4, <1>5, <2>1, QuotStep
  <2> HIDE DEF q, b
  <2> QED BY <2>2, <2>3, SuccDiv
<1> QED BY <1>2, <1>6

\* A tick that does not wrap carries up to some level.
LEMMA CarryExists ==
    ASSUME NEW t \in Time, t + 1 \in Time
    PROVE  \E c \in 0..Levels : Carry(t, t + 1, c)
<1> DEFINE T == {j \in 0..Levels : Digit(t + 1, j) # 0}
<1>0. t \in Nat /\ t + 1 \in Nat /\ Levels \in Nat
  BY QuotEnds, TimerAssumption
<1>1. T # {}
  <2> SUFFICES ASSUME T = {} PROVE FALSE
    OBVIOUS
  <2>1. \A j \in 0..(Levels + 1) - 1 : Digit(t + 1, j) = 0
    BY <1>0
  <2>2. Quot(t + 1, Levels + 1) = Quot(t, Levels + 1) + 1
    BY <1>0, <2>1, CarryGoesOn
  <2> QED BY <2>2, QuotEnds
<1>2. PICK c \in T : \A h \in T : c <= h
  <2>1. T \in SUBSET Nat
    BY <1>0
  <2> HIDE DEF T
  <2> QED BY <1>1, <2>1, Least
<1>3. c \in 0..Levels /\ c \in Nat /\ Digit(t + 1, c) # 0
  BY <1>0, <1>2
<1>4. \A j \in 0..c - 1 : Digit(t + 1, j) = 0
  BY <1>0, <1>2
<1> HIDE DEF T
<1>5. \A j \in 0..c : Quot(t + 1, j) = Quot(t, j) + 1
  BY <1>3, <1>4, CarryGoesOn
<1>6. Quot(t + 1, c + 1) = Quot(t, c + 1)
  <2> DEFINE q == Quot(t, c)
             b == Base(c)
  <2>1. q \in Nat /\ b \in Nat /\ b > 0
    BY <1>0, <1>3, QuotStep, BaseFacts
  <2>2. /\ Quot(t + 1, c + 1) = (q + 1) \div b /\ Quot(t, c + 1) = q \div b
        /\ (q + 1) % b # 0
    BY <1>0, <1>3, <1>5, QuotStep
  <2> HIDE DEF q, b
  <2> QED BY <2>1, <2>2, SuccDiv
<1>7. \A j \in c + 1..Levels + 1 : Quot(t + 1, j) = Quot(t, j)
  BY <1>0, <1>3, <1>6, AgreeAbove
<1> QED BY <1>3, <1>4, <1>5, <1>7 DEF Carry

\* The digit at the carry goes up by one, the digits above it stay.
LEMMA CarryDigits ==
    ASSUME NEW t \in Time, t + 1 \in Time, NEW c \in 0..Levels, Carry(t, t + 1, c)
    PROVE  /\ Digit(t + 1, c) = Digit(t, c) + 1
           /\ \A j \in c + 1..Levels : Digit(t + 1, j) = Digit(t, j)
<1>1. t \in Nat /\ t + 1 \in Nat /\ Levels \in Nat /\ c \in Nat
  BY QuotEnds, TimerAssumption
<1>2. Digit(t + 1, c) = Digit(t, c) + 1
  <2> DEFINE q == Quot(t, c)
             b == Base(c)
  <2>1. q \in Nat /\ b \in Nat /\ b > 0
    BY <1>1, QuotStep, BaseFacts
  <2>2. Quot(t + 1, c) = q + 1 /\ Digit(t + 1, c) # 0
    BY <1>1 DEF Carry
  <2>3. Digit(t + 1, c) = (q + 1) % b /\ Digit(t, c) = q % b
    BY <1>1, <2>2, QuotStep
  <2> HIDE DEF q, b
  <2> QED BY <2>1, <2>2, <2>3, SuccDiv
<1>3. ASSUME NEW j \in c + 1..Levels PROVE Digit(t + 1, j) = Digit(t, j)
  <2>1. j \in Nat /\ Quot(t + 1, j) = Quot(t, j)
    BY <1>1 DEF Carry
  <2> QED BY <1>1, <2>1, QuotStep
<1> QED BY <1>2, <1>3

-----------------------------------------------------------------------------
(* Slots                                                                   *)

\* A node that expires at e is where timer_shift will find it: the condition
\* of InPlace.
Placed(e, s, t) ==
    /\ Digit(e, s[1]) = s[2]
    /\ \/ s[1] < Levels /\ Block(e, s[1]) = Block(t, s[1]) /\ s[2] > Digit(t, s[1])
       \/ s[1] = Levels /\ s[2] # Digit(t, s[1])

Due(t) == <<0, Digit(t, 0)>>

\* The slots of a level are its digits.
LEMMA SlotIs ==
    ASSUME NEW k \in 0..Levels, NEW d
    PROVE  <<k, d>> \in Slot <=> d \in 0..Base(k) - 1
<1>1. Levels \in Nat
  BY TimerAssumption
<1>2. CASE k = 0
  BY <1>1, <1>2 DEF Slot, Base
<1>3. CASE k # 0
  BY <1>1, <1>3 DEF Slot, Base
<1> QED BY <1>2, <1>3

\* A slot is a level and an index.
LEMMA SlotParts ==
    ASSUME NEW s \in Slot
    PROVE  s[1] \in 0..Levels /\ s = <<s[1], s[2]>>
BY TimerAssumption DEF Slot

\* add_node takes the lowest level whose current block holds the tick; the
\* block of the last level is the whole range of the counter.
LEMMA SlotOfLevel ==
    ASSUME NEW now \in Time, NEW x \in Time
    PROVE  \E k \in 0..Levels :
              /\ SlotOf(now, x) = <<k, Digit(x, k)>>
              /\ Block(x, k) = Block(now, k)
              /\ \A j \in 0..k - 1 : Block(x, j) # Block(now, j)
<1> DEFINE P(k) == /\ k = Levels \/ Block(x, k) = Block(now, k)
                   /\ \A j \in 0..k - 1 : Block(x, j) # Block(now, j)
           T == {k \in 0..Levels : Block(x, k) = Block(now, k)}
           k0 == CHOOSE k \in 0..Levels : P(k)
<1>1. Levels \in Nat /\ x \in Nat /\ now \in Nat
  BY QuotEnds, TimerAssumption
<1>2. Block(x, Levels) = Block(now, Levels)
  BY <1>1, QuotEnds, QuotStep
<1>3. PICK c \in T : \A h \in T : c <= h
  <2>1. T \in SUBSET Nat /\ Levels \in T
    BY <1>1, <1>2
  <2> HIDE DEF T
  <2> QED BY <2>1, Least
<1>4. c \in 0..Levels /\ P(c)
  BY <1>1, <1>3
<1>5. k0 \in 0..Levels /\ P(k0)
  BY <1>4
<1>6. SlotOf(now, x) = <<k0, Digit(x, k0)>>
  BY DEF SlotOf
<1> HIDE DEF k0
<1> QED BY <1>2, <1>5, <1>6

\* add_node finds a slot of the wheel.
LEMMA SlotOfSlot ==
    ASSUME NEW now \in Time, NEW x \in Time
    PROVE  SlotOf(now, x) \in Slot
<1>1. PICK k \in 0..Levels : SlotOf(now, x) = <<k, Digit(x, k)>>
  BY SlotOfLevel
<1>2. k \in Nat /\ x \in Nat
  BY QuotEnds, TimerAssumption
<1> QED BY <1>1, <1>2, SlotIs, DigitBound

\* The slot of near that timer_execute takes is one of the wheel.
LEMMA DueSlot ==
    ASSUME NEW t \in Time
    PROVE  Due(t) \in Slot
BY SlotIs, DigitBound, QuotEnds, TimerAssumption DEF Due

\* Below the level that add_node takes nothing agrees, so the digit there
\* differs from the counter's, unless the tick is the current one.
LEMMA SlotOfDiffers ==
    ASSUME NEW now \in Time, NEW x \in Time, NEW k \in 0..Levels,
           Block(x, k) = Block(now, k), \A j \in 0..k - 1 : Block(x, j) # Block(now, j)
    PROVE  Digit(x, k) = Digit(now, k) => k = 0 /\ x = now
<1>1. Levels \in Nat /\ x \in Nat /\ now \in Nat /\ k \in Nat
  BY QuotEnds, TimerAssumption
<1>2. SUFFICES ASSUME Quot(x, k) = Quot(now, k) PROVE k = 0 /\ x = now
  BY <1>1, DigitOrder
<1>3. CASE k = 0
  BY <1>2, <1>3, QuotEnds
<1>4. CASE k # 0
  <2>1. k - 1 \in 0..k - 1 /\ k - 1 \in Nat /\ (k - 1) + 1 = k
    BY <1>1, <1>4
  <2>2. Block(x, k - 1) = Block(now, k - 1)
    BY <1>1, <1>2, <2>1, QuotStep
  <2> QED BY <2>1, <2>2
<1> QED BY <1>3, <1>4

\* A tick ahead of the counter is put where timer_shift will find it.
LEMMA PlacedAhead ==
    ASSUME NEW now \in Time, NEW x \in Time, now < x
    PROVE  Placed(x, SlotOf(now, x), now)
<1>1. PICK k \in 0..Levels :
        /\ SlotOf(now, x) = <<k, Digit(x, k)>>
        /\ Block(x, k) = Block(now, k)
        /\ \A j \in 0..k - 1 : Block(x, j) # Block(now, j)
  BY SlotOfLevel
<1>2. Levels \in Nat /\ x \in Nat /\ now \in Nat /\ k \in Nat
  BY QuotEnds, TimerAssumption
<1>3. Digit(x, k) # Digit(now, k)
  BY <1>1, <1>2, SlotOfDiffers
<1>4. ~ (Digit(x, k) < Digit(now, k))
  BY <1>1, <1>2, DigitOrder
<1>5. Digit(x, k) \in Nat /\ Digit(now, k) \in Nat
  BY <1>2, DigitBound
<1> QED BY <1>1, <1>2, <1>3, <1>4, <1>5 DEF Placed

\* Ticks that agree above the last level but one are less than half the range
\* of the counter apart.
LEMMA NearInBlock ==
    ASSUME NEW x \in Time, NEW y \in Time, Quot(x, Levels) = Quot(y, Levels), x < y
    PROVE  2 * (y - x) < MaxTime
<1> DEFINE a == 2 ^ Below(Levels)
           b == Base(Levels)
<1>1. x \in Nat /\ y \in Nat /\ Levels \in Nat /\ Levels # 0 /\ LevelShift \in Nat /\ LevelShift # 0
  BY QuotEnds, TimerAssumption
<1>2. a \in Nat /\ a > 0
  BY <1>1, BelowFacts, PowerOfTwo
<1>3. x \div a = y \div a
  BY DEF Quot
<1>4. MaxTime = a * b
  <2>1. Width = Below(Levels) + LevelShift
    <3>1. Below(Levels + 1) = Below(Levels) + LevelShift
      BY <1>1, BelowFacts
    <3>2. (Levels + 1) - 1 = Levels /\ Levels + 1 # 0
      BY <1>1
    <3> QED BY <3>1, <3>2 DEF Below, Width
  <2>2. b = 2 ^ LevelShift
    BY <1>1 DEF Base
  <2>3. 2 ^ (Below(Levels) + LevelShift) = a * 2 ^ LevelShift
    BY <1>1, BelowFacts, PowMul
  <2> QED BY <2>1, <2>2, <2>3 DEF MaxTime
<1>5. b \in Nat /\ b >= 2
  <2>1. LevelShift - 1 \in Nat /\ LevelShift = (LevelShift - 1) + 1
    BY <1>1
  <2>2. 2 ^ LevelShift = 2 ^ (LevelShift - 1) * 2 ^ 1
    BY <2>1, PowMul
  <2>3. 2 ^ 1 = 2
    BY PowOne
  <2>4. 2 ^ (LevelShift - 1) \in Nat /\ 2 ^ (LevelShift - 1) > 0
    BY <2>1, PowerOfTwo
  <2>5. b = 2 ^ (LevelShift - 1) * 2
    BY <1>1, <2>2, <2>3 DEF Base
  <2> HIDE DEF b
  <2> QED BY <2>4, <2>5
<1> HIDE DEF a, b
<1>6. y - x < a
  BY <1>1, <1>2, <1>3, DivMod
<1>7. a * b >= 2 * a
  BY <1>2, <1>5
<1>8. a * b \in Nat
  BY <1>2, <1>5
<1> QED BY <1>1, <1>2, <1>4, <1>6, <1>7, <1>8

\* A tick behind the counter is put into the last level if it is more than
\* half the range of the counter away: that is, less than that ahead, across
\* the wrap.
LEMMA PlacedAcross ==
    ASSUME NEW now \in Time, NEW x \in Time, x < now, 2 * (now - x) > MaxTime
    PROVE  Placed(x, SlotOf(now, x), now)
<1>1. PICK k \in 0..Levels :
        /\ SlotOf(now, x) = <<k, Digit(x, k)>>
        /\ Block(x, k) = Block(now, k)
        /\ \A j \in 0..k - 1 : Block(x, j) # Block(now, j)
  BY SlotOfLevel
<1>2. Levels \in Nat /\ x \in Nat /\ now \in Nat /\ k \in Nat /\ k + 1 \in Nat
  BY QuotEnds, TimerAssumption
<1>3. Digit(x, k) # Digit(now, k)
  BY <1>1, <1>2, SlotOfDiffers
<1>4. k = Levels
  <2> SUFFICES ASSUME k # Levels PROVE FALSE
    OBVIOUS
  <2>1. k + 1 <= Levels /\ Quot(x, k + 1) = Quot(now, k + 1)
    BY <1>1, <1>2, QuotStep
  <2>2. Quot(x, Levels) = Quot(now, Levels)
    BY <1>2, <2>1, AgreeAbove
  <2> QED BY <1>2, <2>2, NearInBlock, TimeBound
<1> QED BY <1>1, <1>2, <1>3, <1>4 DEF Placed

-----------------------------------------------------------------------------
(* What a tick has to move                                                 *)

\* A node that is not in the slot of the carry stays in its place.
LEMMA StaysPlaced ==
    ASSUME NEW t \in Time, t + 1 \in Time, NEW c \in 0..Levels, Carry(t, t + 1, c),
           NEW s \in Slot, NEW e \in Time, Placed(e, s, t),
           s # <<c, Digit(t + 1, c)>>
    PROVE  Placed(e, s, t + 1)
<1> DEFINE k == s[1]
           d == s[2]
<1>1. t \in Nat /\ t + 1 \in Nat /\ Levels \in Nat /\ c \in Nat /\ e \in Nat
  BY QuotEnds, TimerAssumption
<1>2. k \in 0..Levels /\ k \in Nat /\ s = <<k, d>>
  BY <1>1, SlotParts
<1>3. /\ Digit(e, k) = d
      /\ \/ k < Levels /\ Block(e, k) = Block(t, k) /\ d > Digit(t, k)
         \/ k = Levels /\ d # Digit(t, k)
  BY DEF Placed
<1>4. d \in Nat /\ Digit(t, k) \in Nat /\ Digit(t + 1, k) \in Nat
  BY <1>1, <1>2, <1>3, DigitBound
<1> SUFFICES /\ Digit(e, k) = d
             /\ \/ k < Levels /\ Block(e, k) = Block(t + 1, k) /\ d > Digit(t + 1, k)
                \/ k = Levels /\ d # Digit(t + 1, k)
  BY DEF Placed
<1> HIDE DEF k, d
<1>5. CASE k > c
  <2>1. k \in c + 1..Levels /\ k + 1 \in c + 1..Levels + 1
    BY <1>1, <1>2, <1>5
  <2>2. Digit(t + 1, k) = Digit(t, k)
    BY <2>1, CarryDigits
  <2>3. Block(t + 1, k) = Block(t, k)
    BY <1>1, <1>2, <2>1, QuotStep DEF Carry
  <2> QED BY <1>3, <2>2, <2>3
<1>6. CASE k = c
  <2>1. Digit(t + 1, k) = Digit(t, k) + 1 /\ d # Digit(t + 1, k)
    BY <1>2, <1>6, CarryDigits
  <2>2. k + 1 \in c + 1..Levels + 1
    BY <1>1, <1>2, <1>6
  <2>3. Block(t + 1, k) = Block(t, k)
    BY <1>1, <1>2, <2>2, QuotStep DEF Carry
  <2> QED BY <1>3, <1>4, <2>1, <2>3
<1>7. CASE k < c
  <2>1. k < Levels /\ k + 1 \in 0..c /\ k + 1 \in Nat
    BY <1>1, <1>2, <1>7
  <2>2. Block(e, k) = Block(t, k) /\ Digit(t, k) < Digit(e, k)
    BY <1>1, <1>2, <1>3, <1>4, <2>1
  <2>3. t < e
    BY <1>1, <1>2, <2>2, DigitOrder
  <2>4. Quot(t + 1, k + 1) <= Quot(e, k + 1)
    BY <1>1, <2>1, <2>3, QuotMono
  <2>5. Quot(t + 1, k + 1) = Quot(t, k + 1) + 1
    BY <2>1 DEF Carry
  <2>6. Quot(e, k + 1) = Quot(t, k + 1) /\ Quot(t, k + 1) \in Nat
    BY <1>1, <1>2, <2>1, <2>2, QuotStep
  <2> QED BY <2>4, <2>5, <2>6
<1> QED BY <1>1, <1>2, <1>5, <1>6, <1>7

\* The nodes of the carry's slot agree with the new value at its level too.
LEMMA CarryNode ==
    ASSUME NEW t \in Time, t + 1 \in Time, NEW c \in 0..Levels, Carry(t, t + 1, c),
           NEW e \in Time, Placed(e, <<c, Digit(t + 1, c)>>, t)
    PROVE  Quot(e, c) = Quot(t + 1, c)
<1>1. t \in Nat /\ t + 1 \in Nat /\ Levels \in Nat /\ c \in Nat /\ e \in Nat
  BY QuotEnds, TimerAssumption
<1>2. Digit(e, c) = Digit(t + 1, c)
  BY DEF Placed
<1>3. Block(e, c) = Block(t + 1, c)
  <2>1. CASE c = Levels
    <3>1. Quot(e, Levels + 1) = 0 /\ Quot(t + 1, Levels + 1) = 0
      BY QuotEnds
    <3> QED BY <1>1, <2>1, <3>1, QuotStep
  <2>2. CASE c # Levels
    <3>1. Block(e, c) = Block(t, c)
      BY <2>2 DEF Placed
    <3>2. c + 1 \in c + 1..Levels + 1
      BY <1>1
    <3> QED BY <1>1, <3>1, <3>2, QuotStep DEF Carry
  <2> QED BY <2>1, <2>2
<1> QED BY <1>1, <1>2, <1>3, DigitOrder

\* They are due, or go to a lower level, where they are ahead of the counter:
\* its digits are zero there.
LEMMA MovesDown ==
    ASSUME NEW now \in Time, NEW e \in Time, NEW c \in 0..Levels,
           Quot(e, c) = Quot(now, c), c # 0, \A j \in 0..c - 1 : Digit(now, j) = 0
    PROVE  IF e = now THEN SlotOf(now, e) = Due(now) ELSE Placed(e, SlotOf(now, e), now)
<1>1. now \in Nat /\ Levels \in Nat /\ c \in Nat /\ e \in Nat
  BY QuotEnds, TimerAssumption
<1>2. PICK k \in 0..Levels :
        /\ SlotOf(now, e) = <<k, Digit(e, k)>>
        /\ Block(e, k) = Block(now, k)
        /\ \A j \in 0..k - 1 : Block(e, j) # Block(now, j)
  BY SlotOfLevel
<1>3. k < c
  <2>1. c - 1 \in Nat /\ (c - 1) + 1 = c
    BY <1>1
  <2>2. Block(e, c - 1) = Block(now, c - 1)
    BY <1>1, <2>1, QuotStep
  <2>3. c - 1 \notin 0..k - 1
    BY <1>2, <2>2
  <2> QED BY <1>1, <2>1, <2>3
<1>4. k \in 0..c - 1 /\ k < Levels /\ k \in Nat
  BY <1>1, <1>3
<1>5. Digit(now, k) = 0 /\ Digit(e, k) \in Nat
  BY <1>1, <1>4, DigitBound
<1>6. CASE e = now
  <2>1. 0 \notin 0..k - 1
    BY <1>2, <1>6
  <2>2. k = 0
    BY <1>4, <2>1
  <2> QED BY <1>2, <1>6, <2>2 DEF Due
<1>7. CASE e # now
  <2>1. Digit(e, k) # Digit(now, k)
    BY <1>2, <1>7, SlotOfDiffers
  <2> QED BY <1>2, <1>4, <1>5, <1>7, <2>1 DEF Placed
<1> QED BY <1>6, <1>7

\* All digits of zero are zero.
LEMMA ZeroDigits ==
    ASSUME NEW k \in Nat
    PROVE  Quot(0, k) = 0 /\ Digit(0, k) = 0
<1>1. \A b \in Nat : b > 0 => 0 \div b = 0 /\ 0 % b = 0
  OBVIOUS
<1>2. Quot(0, k) = 0
  BY <1>1, BelowFacts, PowerOfTwo DEF Quot
<1>3. Digit(0, k) = 0 % Base(k)
  BY <1>2, QuotStep
<1>4. 0 % Base(k) = 0
  BY <1>1, BaseFacts
<1> QED BY <1>2, <1>3, <1>4

\* At the wrap only the last level holds nodes, and its first slot holds the
\* ones of the first block.
LEMMA WrapNode ==
    ASSUME NEW e \in Time, NEW s \in Slot, Placed(e, s, MaxTime - 1)
    PROVE  IF s = <<Levels, 0>> THEN Quot(e, Levels) = Quot(0, Levels) ELSE Placed(e, s, 0)
<1> DEFINE t == MaxTime - 1
           k == s[1]
           d == s[2]
<1>1. t \in Time /\ t \in Nat /\ 0 \in Time /\ e \in Nat /\ e <= t
  BY TimeBound DEF Time
<1>2. Levels \in Nat /\ k \in 0..Levels /\ k \in Nat /\ s = <<k, d>>
  BY SlotParts, TimerAssumption
<1>3. /\ Digit(e, k) = d
      /\ \/ k < Levels /\ Block(e, k) = Block(t, k) /\ d > Digit(t, k)
         \/ k = Levels /\ d # Digit(t, k)
  BY DEF Placed
<1> HIDE DEF t
<1>4. k = Levels
  <2> SUFFICES ASSUME k < Levels PROVE FALSE
    BY <1>2
  <2>1. Block(t, k) = Block(e, k) /\ Digit(t, k) < Digit(e, k)
    BY <1>1, <1>2, <1>3, DigitBound
  <2>2. t < e
    BY <1>1, <1>2, <2>1, DigitOrder
  <2> QED BY <1>1, <2>2
<1>5. Digit(0, Levels) = 0 /\ Block(e, Levels) = Block(0, Levels)
  BY <1>1, <1>2, QuotEnds, QuotStep, ZeroDigits
<1>6. CASE s = <<Levels, 0>>
  <2>1. d = 0
    BY <1>2, <1>6
  <2>2. Digit(e, Levels) = Digit(0, Levels)
    BY <1>3, <1>4, <1>5, <2>1
  <2>3. Quot(e, Levels) = Quot(0, Levels)
    BY <1>1, <1>2, <1>5, <2>2, DigitOrder
  <2> QED BY <1>6, <2>3
<1>7. CASE s # <<Levels, 0>>
  <2>1. d # Digit(0, Levels)
    BY <1>2, <1>4, <1>5, <1>7
  <2> QED BY <1>3, <1>4, <1>7, <2>1 DEF Placed
<1> QED BY <1>6, <1>7

-----------------------------------------------------------------------------
(* Lists                                                                   *)

\* The rank of a position among the positions I.
Rank(I, i) == Cardinality({j \in I : j <= i})

\* Ranks count a set of positions without gaps or repetitions, in order.
LEMMA RankFacts ==
    ASSUME NEW n \in Nat, NEW I \in SUBSET (1..n)
    PROVE  /\ IsFiniteSet(I) /\ Cardinality(I) \in Nat
           /\ \A i \in I : Rank(I, i) \in 1..Cardinality(I)
           /\ \A i, j \in I : i < j => Rank(I, i) < Rank(I, j)
<1> DEFINE D(i) == {j \in I : j <= i}
<1>1. IsFiniteSet(I) /\ Cardinality(I) \in Nat
  <2>1. IsFiniteSet(1..n)
    BY FS_Interval
  <2> QED BY <2>1, FS_Subset, FS_CardinalityType
<1>2. ASSUME NEW i \in I
      PROVE  /\ IsFiniteSet(D(i)) /\ Cardinality(D(i)) \in Nat /\ D(i) \in SUBSET I
             /\ Cardinality(D(i)) <= Cardinality(I) /\ Cardinality(D(i)) # 0
  <2>1. D(i) \in SUBSET I /\ i \in D(i)
    OBVIOUS
  <2> HIDE DEF D
  <2>2. IsFiniteSet(D(i)) /\ Cardinality(D(i)) <= Cardinality(I)
    BY <1>1, <2>1, FS_Subset
  <2> QED BY <2>1, <2>2, FS_CardinalityType, FS_EmptySet
<1>3. ASSUME NEW i \in I, NEW j \in I, i < j
      PROVE  Cardinality(D(i)) < Cardinality(D(j))
  <2>0. i \in Nat /\ j \in Nat /\ \A h \in I : h \in Nat
    OBVIOUS
  <2>1. D(i) \in SUBSET D(j) /\ j \in D(j) /\ j \notin D(i)
    <3>1. ASSUME NEW h \in D(i) PROVE h \in D(j)
      BY <1>3, <2>0
    <3>2. j \in D(j)
      BY <2>0
    <3>3. j \notin D(i)
      BY <1>3, <2>0
    <3> HIDE DEF D
    <3> QED BY <3>1, <3>2, <3>3
  <2>2. D(i) # D(j)
    BY <2>1
  <2> HIDE DEF D
  <2>3. Cardinality(D(i)) <= Cardinality(D(j)) /\ Cardinality(D(i)) # Cardinality(D(j))
    BY <1>2, <2>1, <2>2, FS_Subset
  <2> QED BY <1>2, <2>3
<1>4. \A i \in I : Rank(I, i) = Cardinality(D(i))
  BY DEF Rank
<1> HIDE DEF D
<1>5. \A i \in I : Rank(I, i) \in 1..Cardinality(I)
  BY <1>1, <1>2, <1>4
<1>6. \A i, j \in I : i < j => Rank(I, i) < Rank(I, j)
  BY <1>3, <1>4
<1> QED BY <1>1, <1>5, <1>6

\* Every rank occurs: ranks are distinct, and there are as many as positions.
LEMMA RankOnto ==
    ASSUME NEW n \in Nat, NEW I \in SUBSET (1..n), NEW p \in 1..Cardinality(I)
    PROVE  \E i \in I : Rank(I, i) = p
<1> DEFINE R == [i \in I |-> Rank(I, i)]
           C == 1..Cardinality(I)
<1>1. IsFiniteSet(I) /\ Cardinality(I) \in Nat
  BY RankFacts
<1>2. IsFiniteSet(C) /\ Cardinality(C) = Cardinality(I)
  BY <1>1, FS_Interval
<1>3. R \in [I -> C]
  BY RankFacts
<1>4. \A i, j \in I : R[i] = R[j] => i = j
  <2> SUFFICES ASSUME NEW i \in I, NEW j \in I, i # j PROVE R[i] # R[j]
    OBVIOUS
  <2>1. i < j \/ j < i
    OBVIOUS
  <2>2. Rank(I, i) \in 1..Cardinality(I) /\ Rank(I, j) \in 1..Cardinality(I)
    BY RankFacts
  <2>3. Rank(I, i) < Rank(I, j) \/ Rank(I, j) < Rank(I, i)
    BY <2>1, RankFacts
  <2> QED BY <1>1, <2>2, <2>3
<1> HIDE DEF R
<1>5. R \in Injection(I, C)
  BY <1>3, <1>4, Fun_IsInj
<1> HIDE DEF C
<1>6. R \in Surjection(I, C)
  BY <1>1, <1>2, <1>5, FS_Injection
<1>7. PICK i \in I : R[i] = p
  BY <1>6 DEF Surjection, C
<1> QED BY <1>7 DEF R

\* u has the elements of l at the positions I, in their order.
Picked(u, l, I) ==
    \E f \in [DOMAIN u -> I] :
        /\ \A p \in DOMAIN u : u[p] = l[f[p]]
        /\ \A p, q \in DOMAIN u : p < q => f[p] < f[q]
        /\ \A i \in I : \E p \in DOMAIN u : f[p] = i

\* The elements at the positions I, each once and in their order.
LEMMA SubsequenceFacts ==
    ASSUME NEW S, NEW l \in Seq(S), NEW I \in SUBSET DOMAIN l
    PROVE  Subsequence(l, I) \in Seq(S) /\ Picked(Subsequence(l, I), l, I)
<1> DEFINE n == Len(l)
           m == Cardinality(I)
           f == [p \in 1..m |-> CHOOSE i \in I : Rank(I, i) = p]
           u == Subsequence(l, I)
<1>1. n \in Nat /\ I \in SUBSET (1..n) /\ \A i \in I : l[i] \in S
  BY LenProperties, ElementOfSeq
<1>2. m \in Nat /\ \A i \in I : Rank(I, i) \in 1..m
  BY <1>1, RankFacts
<1>3. \A p \in 1..m : f[p] \in I /\ Rank(I, f[p]) = p
  BY <1>1, RankOnto
<1>4. f \in [1..m -> I]
  BY <1>3
<1>5. u = [p \in 1..m |-> l[f[p]]]
  BY DEF Subsequence, Rank
<1> HIDE DEF n, m, f, u
<1>6. u \in [1..m -> S]
  BY <1>1, <1>4, <1>5
<1>7. u \in Seq(S) /\ Len(u) = m /\ DOMAIN u = 1..m
  BY <1>2, <1>6
<1>8. \A i, j \in I : i < j => Rank(I, i) < Rank(I, j)
  BY <1>1, RankFacts
<1>9. ASSUME NEW p \in 1..m, NEW q \in 1..m, p < q PROVE f[p] < f[q]
  <2>1. f[p] \in I /\ f[q] \in I /\ Rank(I, f[p]) = p /\ Rank(I, f[q]) = q
    BY <1>3
  <2>2. f[p] \in Nat /\ f[q] \in Nat
    BY <1>1, <2>1
  <2>3. f[p] # f[q] /\ ~ (f[q] < f[p])
    BY <1>2, <1>8, <1>9, <2>1
  <2> QED BY <2>2, <2>3
<1>10. ASSUME NEW i \in I PROVE \E p \in 1..m : f[p] = i
  <2>1. Rank(I, i) \in 1..m
    BY <1>2
  <2>2. f[Rank(I, i)] \in I /\ Rank(I, f[Rank(I, i)]) = Rank(I, i)
    BY <1>3, <2>1
  <2>3. ~ (f[Rank(I, i)] < i) /\ ~ (i < f[Rank(I, i)])
    BY <1>2, <1>8, <2>2
  <2>4. f[Rank(I, i)] = i
    BY <1>1, <2>2, <2>3
  <2> QED BY <2>1, <2>4
<1>11. \A p \in 1..m : u[p] = l[f[p]]
  BY <1>5
<1>12. /\ f \in [DOMAIN u -> I]
       /\ \A p \in DOMAIN u : u[p] = l[f[p]]
       /\ \A p, q \in DOMAIN u : p < q => f[p] < f[q]
       /\ \A i \in I : \E p \in DOMAIN u : f[p] = i
  BY <1>4, <1>7, <1>9, <1>10, <1>11
<1>13. \E g \in [DOMAIN u -> I] :
         /\ \A p \in DOMAIN u : u[p] = l[g[p]]
         /\ \A p, q \in DOMAIN u : p < q => g[p] < g[q]
         /\ \A i \in I : \E p \in DOMAIN u : g[p] = i
  BY <1>12
<1> HIDE DEF u
<1>14. Picked(u, l, I)
  BY <1>13 DEF Picked
<1> QED BY <1>7, <1>14 DEF u

-----------------------------------------------------------------------------
(* move_list                                                               *)

Wheel == [Slot -> Seq(Node)]

\* Where the elements of slot s come from after move_list: the first m were
\* there before, the others come from slot from, in their order.
Source(w, v, now, from, s, m, f) ==
    /\ \A i \in DOMAIN v[s] :
          IF i <= m THEN s # from /\ f[i] = i /\ i \in DOMAIN w[s] /\ v[s][i] = w[s][i]
          ELSE /\ f[i] \in DOMAIN w[from] /\ v[s][i] = w[from][f[i]]
               /\ SlotOf(now, v[s][i].expire) = s
    /\ \A i, j \in DOMAIN v[s] : i < j /\ (i <= m <=> j <= m) => f[i] < f[j]

\* Every element of a concatenation comes from one place of one of its parts.
LEMMA ConcatSource ==
    ASSUME NEW S, NEW a \in Seq(S), NEW b \in Seq(S)
    PROVE  /\ a \o b \in Seq(S)
           /\ DOMAIN (a \o b) = 1..Len(a) + Len(b)
           /\ Len(a) \in Nat /\ Len(b) \in Nat
           /\ DOMAIN a = 1..Len(a) /\ DOMAIN b = 1..Len(b)
           /\ \A i \in DOMAIN a : i \in DOMAIN (a \o b) /\ (a \o b)[i] = a[i]
           /\ \A i \in DOMAIN b : Len(a) + i \in DOMAIN (a \o b) /\ (a \o b)[Len(a) + i] = b[i]
           /\ \A i \in DOMAIN (a \o b) :
                 IF i <= Len(a) THEN i \in DOMAIN a /\ (a \o b)[i] = a[i]
                 ELSE i - Len(a) \in DOMAIN b /\ (a \o b)[i] = b[i - Len(a)]
<1>1. /\ a \o b \in Seq(S) /\ Len(a \o b) = Len(a) + Len(b)
      /\ \A i \in 1 .. Len(a) + Len(b) :
            (a \o b)[i] = IF i <= Len(a) THEN a[i] ELSE b[i - Len(a)]
  BY ConcatProperties
<1>2. /\ Len(a) \in Nat /\ Len(b) \in Nat /\ DOMAIN a = 1..Len(a) /\ DOMAIN b = 1..Len(b)
      /\ DOMAIN (a \o b) = 1..Len(a) + Len(b)
  BY <1>1, LenProperties
<1> DEFINE m == Len(a)
           n == Len(b)
           c == a \o b
<1>3. /\ m \in Nat /\ n \in Nat /\ DOMAIN a = 1..m /\ DOMAIN b = 1..n /\ DOMAIN c = 1..m + n
      /\ \A i \in 1 .. m + n : c[i] = IF i <= m THEN a[i] ELSE b[i - m]
  BY <1>1, <1>2
<1> HIDE DEF m, n, c
<1>4. \A i \in 1..m : i \in 1..m + n /\ c[i] = a[i]
  BY <1>3
<1>5. ASSUME NEW i \in 1..n PROVE m + i \in 1..m + n /\ c[m + i] = b[i]
  <2>1. m + i \in 1..m + n /\ ~ (m + i <= m) /\ (m + i) - m = i
    BY <1>3
  <2> QED BY <1>3, <2>1
<1>6. ASSUME NEW i \in 1..m + n
      PROVE  IF i <= m THEN i \in 1..m /\ c[i] = a[i] ELSE i - m \in 1..n /\ c[i] = b[i - m]
  <2>1. CASE i <= m
    BY <1>3, <2>1
  <2>2. CASE ~ (i <= m)
    BY <1>3, <2>2
  <2> QED BY <2>1, <2>2
<1> QED BY <1>1, <1>3, <1>4, <1>5, <1>6 DEF m, n, c

\* What is in a list is a node.
LEMMA NodeTyped ==
    ASSUME NEW l \in Seq(Node), NEW i \in DOMAIN l
    PROVE  l[i] \in Node /\ l[i].expire \in Time /\ l[i].session \in Session
<1>1. l[i] \in Node
  BY LenProperties, ElementOfSeq
<1> QED BY <1>1 DEF Node, Time

\* Every node has one place before and one after move_list: the old list comes
\* first, then the moved nodes in their order.
LEMMA MoveListSource ==
    ASSUME NEW w \in Wheel, NEW now \in Time, NEW from \in Slot
    PROVE  LET v == MoveList(w, now, from)
           IN  /\ v \in Wheel
               /\ \A s \in Slot : \E m \in Nat, f \in [DOMAIN v[s] -> Nat] :
                     Source(w, v, now, from, s, m, f)
               /\ \A r \in Slot : \A i \in DOMAIN w[r] :
                     \E s \in Slot : \E j \in DOMAIN v[s] : v[s][j] = w[r][i]
<1> DEFINE v == MoveList(w, now, from)
           l == w[from]
           I(s) == {i \in DOMAIN l : SlotOf(now, l[i].expire) = s}
           a(s) == IF s = from THEN <<>> ELSE w[s]
           b(s) == Subsequence(l, I(s))
<1>1. \A s \in Slot : w[s] \in Seq(Node)
  BY DEF Wheel
<1>2. l \in Seq(Node) /\ \A s : I(s) \in SUBSET DOMAIN l
  BY <1>1
<1>3. \A s \in Slot : a(s) \in Seq(Node)
  BY <1>1, EmptySeq
<1>4. v = [s \in Slot |-> a(s) \o b(s)]
  BY DEF MoveList, GoingTo
<1>5. \A s \in Slot : v[s] = a(s) \o b(s)
  BY <1>4
<1>6. \A s, i : i \in I(s) <=> i \in DOMAIN l /\ SlotOf(now, l[i].expire) = s
  OBVIOUS
<1>7. \A s \in Slot : s # from => a(s) = w[s]
  OBVIOUS
<1>8. a(from) = <<>>
  OBVIOUS
<1> HIDE DEF v, I, a
<1>9. ASSUME NEW s \in Slot
      PROVE  /\ b(s) \in Seq(Node)
             /\ \E f \in [DOMAIN b(s) -> I(s)] :
                  /\ \A p \in DOMAIN b(s) : b(s)[p] = l[f[p]]
                  /\ \A p, q \in DOMAIN b(s) : p < q => f[p] < f[q]
                  /\ \A i \in I(s) : \E p \in DOMAIN b(s) : f[p] = i
  <2> DEFINE J == I(s)
  <2>1. l \in Seq(Node) /\ J \in SUBSET DOMAIN l
    BY <1>2
  <2> HIDE DEF l, J
  <2>2. Subsequence(l, J) \in Seq(Node) /\ Picked(Subsequence(l, J), l, J)
    BY <2>1, SubsequenceFacts
  <2> QED BY <2>2 DEF J, Picked
<1> HIDE DEF b, l
<1>10. v \in Wheel
  <2>1. \A s \in Slot : a(s) \o b(s) \in Seq(Node)
    BY <1>3, <1>9, ConcatProperties
  <2> QED BY <1>4, <2>1 DEF Wheel
<1>11. ASSUME NEW s \in Slot
       PROVE  \E m \in Nat, f \in [DOMAIN v[s] -> Nat] : Source(w, v, now, from, s, m, f)
  <2>1. PICK g \in [DOMAIN b(s) -> I(s)] :
           /\ \A p \in DOMAIN b(s) : b(s)[p] = l[g[p]]
           /\ \A p, q \in DOMAIN b(s) : p < q => g[p] < g[q]
    BY <1>9
  <2> DEFINE m == Len(a(s))
             A == a(s)
             B == b(s)
             V == v[s]
             f == [i \in DOMAIN V |-> IF i <= m THEN i ELSE g[i - m]]
  <2>2. /\ m \in Nat /\ DOMAIN V = 1..m + Len(B) /\ DOMAIN B = 1..Len(B) /\ Len(B) \in Nat
        /\ \A i \in DOMAIN V :
              IF i <= m THEN i \in DOMAIN A /\ V[i] = A[i]
              ELSE i - m \in DOMAIN B /\ V[i] = B[i - m]
    BY <1>3, <1>5, <1>9, ConcatSource
  <2>3. \A p \in DOMAIN B : g[p] \in DOMAIN l /\ g[p] \in Nat /\ SlotOf(now, l[g[p]].expire) = s
    <3>1. DOMAIN l = 1..Len(l) /\ Len(l) \in Nat
      BY <1>2, LenProperties
    <3> QED BY <1>6, <2>1, <3>1
  <2>4. s = from => m = 0 /\ DOMAIN A = {}
    <3>1. Len(<<>>) = 0 /\ DOMAIN <<>> = {}
      OBVIOUS
    <3> QED BY <1>8, <3>1
  <2>5. s # from => A = w[s]
    BY <1>7
  <2>6. \A p \in DOMAIN B : B[p] = l[g[p]]
    BY <2>1
  <2>7. \A p, q \in DOMAIN B : p < q => g[p] < g[q]
    BY <2>1
  <2> HIDE DEF m, A, B, V
  <2>8. f \in [DOMAIN V -> Nat]
    BY <2>2, <2>3
  <2>9. \A i \in DOMAIN V : f[i] = IF i <= m THEN i ELSE g[i - m]
    OBVIOUS
  <2> HIDE DEF f
  <2>10. ASSUME NEW i \in DOMAIN V
         PROVE  IF i <= m THEN s # from /\ f[i] = i /\ i \in DOMAIN w[s] /\ V[i] = w[s][i]
                ELSE /\ f[i] \in DOMAIN l /\ V[i] = l[f[i]]
                     /\ SlotOf(now, V[i].expire) = s
    <3>1. CASE i <= m
      BY <2>2, <2>4, <2>5, <2>9, <3>1
    <3>2. CASE ~ (i <= m)
      <4>1. i - m \in DOMAIN B /\ V[i] = B[i - m] /\ f[i] = g[i - m]
        BY <2>2, <2>9, <3>2
      <4> QED BY <2>3, <2>6, <3>2, <4>1
    <3> QED BY <3>1, <3>2
  <2>11. ASSUME NEW i \in DOMAIN V, NEW j \in DOMAIN V, i < j, i <= m <=> j <= m
         PROVE  f[i] < f[j]
    <3>1. CASE i <= m
      BY <2>9, <2>11, <3>1
    <3>2. CASE ~ (i <= m)
      <4>1. i - m \in DOMAIN B /\ j - m \in DOMAIN B /\ f[i] = g[i - m] /\ f[j] = g[j - m]
        BY <2>2, <2>9, <2>11, <3>2
      <4>2. i - m < j - m
        BY <2>2, <2>11
      <4> QED BY <2>7, <4>1, <4>2
    <3> QED BY <3>1, <3>2
  <2>12. Source(w, v, now, from, s, m, f)
    BY <2>10, <2>11 DEF Source, V, l
  <2> QED BY <2>2, <2>8, <2>12 DEF V
<1>12. ASSUME NEW r \in Slot, NEW i \in DOMAIN w[r]
       PROVE  \E s \in Slot : \E j \in DOMAIN v[s] : v[s][j] = w[r][i]
  <2>1. CASE r # from
    <3>1. i \in DOMAIN a(r) /\ a(r)[i] = w[r][i]
      BY <1>7, <2>1
    <3>2. i \in DOMAIN (a(r) \o b(r)) /\ (a(r) \o b(r))[i] = a(r)[i]
      <4>1. a(r) \in Seq(Node) /\ b(r) \in Seq(Node)
        BY <1>3, <1>9
      <4> QED BY <3>1, <4>1, ConcatSource
    <3> QED BY <1>5, <3>1, <3>2
  <2>2. CASE r = from
    <3> DEFINE s == SlotOf(now, l[i].expire)
    <3>1. i \in DOMAIN l /\ w[r][i] = l[i]
      BY <2>2 DEF l
    <3>2. s \in Slot
      BY <1>2, <3>1, NodeTyped, SlotOfSlot
    <3>3. i \in I(s)
      BY <1>6, <3>1
    <3> HIDE DEF s
    <3>4. PICK p \in DOMAIN b(s) : b(s)[p] = l[i]
      <4>1. PICK f \in [DOMAIN b(s) -> I(s)] :
               /\ \A p \in DOMAIN b(s) : b(s)[p] = l[f[p]]
               /\ \A k \in I(s) : \E p \in DOMAIN b(s) : f[p] = k
        BY <1>9, <3>2
      <4>2. PICK p \in DOMAIN b(s) : f[p] = i
        BY <3>3, <4>1
      <4>3. b(s)[p] = l[f[p]]
        BY <4>1
      <4> QED BY <4>2, <4>3
    <3>5. /\ Len(a(s)) + p \in DOMAIN (a(s) \o b(s))
          /\ (a(s) \o b(s))[Len(a(s)) + p] = b(s)[p]
      <4>1. a(s) \in Seq(Node) /\ b(s) \in Seq(Node)
        BY <1>3, <1>9, <3>2
      <4>2. \A k \in DOMAIN b(s) :
               /\ Len(a(s)) + k \in DOMAIN (a(s) \o b(s))
               /\ (a(s) \o b(s))[Len(a(s)) + k] = b(s)[k]
        BY <4>1, ConcatSource
      <4> QED BY <4>2
    <3> QED BY <1>5, <3>1, <3>2, <3>4, <3>5
  <2> QED BY <2>1, <2>2
<1> QED BY <1>10, <1>11, <1>12 DEF v

-----------------------------------------------------------------------------
(* timer_shift                                                             *)

\* Nothing rightly placed is in the slot of the present tick.
LEMMA NotPlacedDue ==
    ASSUME NEW t \in Time, NEW e
    PROVE  ~ Placed(e, Due(t), t)
<1>1. Digit(t, 0) \in Nat /\ Levels \in Nat \ {0}
  BY QuotEnds, DigitBound, TimerAssumption
<1> QED BY <1>1 DEF Placed, Due

\* The three cases of timer_shift: the wrap, a tick inside the lowest block,
\* and a carry.
LEMMA CascadeCases ==
    ASSUME NEW w, NEW t \in Time
    PROVE  LET now == (t + 1) % MaxTime
           IN  /\ now \in Time
               /\ \/ /\ t = MaxTime - 1 /\ now = 0
                     /\ Cascade(w, now) = MoveList(w, now, <<Levels, 0>>)
                  \/ /\ now = t + 1
                     /\ \E c \in 0..Levels :
                          /\ Carry(t, t + 1, c)
                          /\ Cascade(w, now) = IF c = 0 THEN w
                                               ELSE MoveList(w, now, <<c, Digit(now, c)>>)
<1> DEFINE now == (t + 1) % MaxTime
<1>1. CASE t = MaxTime - 1
  <2>1. now = 0
    BY <1>1, TimeBound
  <2>2. Cascade(w, now) = MoveList(w, now, <<Levels, 0>>)
    BY <2>1 DEF Cascade
  <2>3. now \in Time
    BY <2>1, TimeBound DEF Time
  <2> QED BY <1>1, <2>1, <2>2, <2>3
<1>2. CASE t # MaxTime - 1
  <2>1. now = t + 1 /\ t + 1 \in Time /\ t + 1 # 0 /\ Levels \in Nat
    BY <1>2, TimeBound, TimerAssumption DEF Time
  <2>2. PICK c \in 0..Levels : Carry(t, t + 1, c)
    BY <2>1, CarryExists
  <2> DEFINE P(k) == Digit(t + 1, k) # 0 /\ \A j \in 1..k - 1 : Digit(t + 1, j) = 0
             k0 == CHOOSE k \in 1..Levels : P(k)
  <2>3. Digit(t + 1, c) # 0 /\ \A j \in 0..c - 1 : Digit(t + 1, j) = 0
    BY <2>2 DEF Carry
  <2>4. CASE c = 0
    <3>1. Cascade(w, t + 1) = w
      BY <2>1, <2>3, <2>4 DEF Cascade
    <3> QED BY <2>1, <2>2, <2>4, <3>1
  <2>5. CASE c # 0
    <3>1. 0 \in 0..c - 1 /\ c \in 1..Levels
      BY <2>1, <2>5
    <3>2. Digit(t + 1, 0) = 0
      BY <2>3, <3>1
    <3>3. Cascade(w, t + 1) = MoveList(w, t + 1, <<k0, Digit(t + 1, k0)>>)
      BY <2>1, <3>2 DEF Cascade
    <3>4. P(c)
      BY <2>3
    <3>5. k0 \in 1..Levels /\ P(k0)
      BY <3>1, <3>4
    <3>6. c \notin 1..k0 - 1 /\ k0 \notin 1..c - 1
      BY <3>4, <3>5
    <3> HIDE DEF k0
    <3>7. k0 = c
      BY <2>1, <3>1, <3>5, <3>6
    <3>8. Cascade(w, now) = IF c = 0 THEN w ELSE MoveList(w, now, <<c, Digit(now, c)>>)
      BY <2>1, <2>5, <3>3, <3>7
    <3> QED BY <2>1, <2>2, <3>8
  <2> QED BY <2>4, <2>5
<1> QED BY <1>1, <1>2

\* Where a node of the wheel is after timer_shift.
Arrived(e, s, now) == IF s = Due(now) THEN e = now ELSE Placed(e, s, now)

\* move_list keeps every node in place if the nodes of the slot belong below
\* and the others stay where they are.
LEMMA MoveListArrives ==
    ASSUME NEW w \in Wheel, NEW now \in Time, NEW c \in 0..Levels, NEW from \in Slot, c # 0,
           \A j \in 0..c - 1 : Digit(now, j) = 0,
           \A s \in Slot : \A i \in DOMAIN w[s] :
              IF s = from THEN Quot(w[s][i].expire, c) = Quot(now, c)
              ELSE Placed(w[s][i].expire, s, now)
    PROVE  LET v == MoveList(w, now, from)
           IN  \A s \in Slot : \A i \in DOMAIN v[s] : Arrived(v[s][i].expire, s, now)
<1> DEFINE v == MoveList(w, now, from)
<1> SUFFICES ASSUME NEW s \in Slot, NEW i \in DOMAIN v[s]
             PROVE  Arrived(v[s][i].expire, s, now)
  OBVIOUS
<1>1. v \in Wheel /\ \E m \in Nat, f \in [DOMAIN v[s] -> Nat] : Source(w, v, now, from, s, m, f)
  BY MoveListSource
<1>2. PICK m \in Nat, f \in [DOMAIN v[s] -> Nat] : Source(w, v, now, from, s, m, f)
  BY <1>1
<1> HIDE DEF v
<1> DEFINE e == v[s][i].expire
<1>3. e \in Time
  BY <1>1, NodeTyped DEF Wheel
<1>4. IF i <= m THEN s # from /\ i \in DOMAIN w[s] /\ v[s][i] = w[s][i]
      ELSE /\ f[i] \in DOMAIN w[from] /\ v[s][i] = w[from][f[i]]
           /\ SlotOf(now, e) = s
  BY <1>2 DEF Source
<1>5. CASE i <= m
  <2>1. Placed(e, s, now)
    BY <1>4, <1>5
  <2> QED BY <2>1, NotPlacedDue DEF Arrived
<1>6. CASE ~ (i <= m)
  <2>1. Quot(e, c) = Quot(now, c) /\ SlotOf(now, e) = s
    BY <1>4, <1>6
  <2> HIDE DEF e
  <2>2. IF e = now THEN s = Due(now) ELSE Placed(e, s, now)
    BY <1>3, <2>1, MovesDown
  <2>3. Arrived(e, s, now)
    BY <2>2, NotPlacedDue DEF Arrived
  <2> QED BY <2>3 DEF e
<1> QED BY <1>5, <1>6

\* timer_shift moves what the tick requires: the wheel, rightly placed before the
\* tick, is so after it, and what is due now is in its slot of near.
LEMMA CascadeArrives ==
    ASSUME NEW w \in Wheel, NEW t \in Time,
           \A s \in Slot : \A i \in DOMAIN w[s] : Placed(w[s][i].expire, s, t)
    PROVE  LET now == (t + 1) % MaxTime
               v   == Cascade(w, now)
           IN  \A s \in Slot : \A i \in DOMAIN v[s] : Arrived(v[s][i].expire, s, now)
<1> DEFINE now == (t + 1) % MaxTime
           v == Cascade(w, now)
<1>1. /\ now \in Time
      /\ \/ /\ t = MaxTime - 1 /\ now = 0
            /\ v = MoveList(w, now, <<Levels, 0>>)
         \/ /\ now = t + 1
            /\ \E c \in 0..Levels :
                 /\ Carry(t, t + 1, c)
                 /\ v = IF c = 0 THEN w ELSE MoveList(w, now, <<c, Digit(now, c)>>)
  BY CascadeCases
<1>2. \A s \in Slot : \A i \in DOMAIN w[s] : w[s][i].expire \in Time
  BY NodeTyped DEF Wheel
<1>3. Levels \in Nat /\ Levels # 0 /\ Levels \in 0..Levels
  BY TimerAssumption
<1> HIDE DEF now, v
<1>4. CASE t = MaxTime - 1 /\ now = 0 /\ v = MoveList(w, now, <<Levels, 0>>)
  <2>1. <<Levels, 0>> \in Slot
    BY <1>3, SlotIs, BaseFacts
  <2>2. \A j \in 0..Levels - 1 : Digit(now, j) = 0
    BY <1>4, ZeroDigits
  <2>3. \A s \in Slot : \A i \in DOMAIN w[s] :
           IF s = <<Levels, 0>> THEN Quot(w[s][i].expire, Levels) = Quot(now, Levels)
           ELSE Placed(w[s][i].expire, s, now)
    BY <1>2, <1>4, WrapNode
  <2> QED BY <1>1, <1>3, <1>4, <2>1, <2>2, <2>3, MoveListArrives DEF v, now
<1>5. CASE /\ now = t + 1
           /\ \E c \in 0..Levels :
                /\ Carry(t, t + 1, c)
                /\ v = IF c = 0 THEN w ELSE MoveList(w, now, <<c, Digit(now, c)>>)
  <2>1. PICK c \in 0..Levels :
           /\ Carry(t, t + 1, c)
           /\ v = IF c = 0 THEN w ELSE MoveList(w, now, <<c, Digit(now, c)>>)
    BY <1>5
  <2> DEFINE from == <<c, Digit(now, c)>>
  <2>2. now = t + 1 /\ t + 1 \in Time /\ c \in Nat /\ t + 1 \in Nat
    BY <1>1, <1>3, <1>5, QuotEnds
  <2>3. from \in Slot
    BY <2>2, SlotIs, DigitBound
  <2>4. ASSUME NEW s \in Slot, NEW i \in DOMAIN w[s]
        PROVE  IF s = from THEN Quot(w[s][i].expire, c) = Quot(now, c)
               ELSE Placed(w[s][i].expire, s, now)
    <3> DEFINE e == w[s][i].expire
    <3>1. e \in Time /\ Placed(e, s, t)
      BY <1>2
    <3> HIDE DEF e
    <3>2. CASE s = from
      BY <2>1, <2>2, <3>1, <3>2, CarryNode DEF e
    <3>3. CASE s # from
      BY <2>1, <2>2, <3>1, <3>3, StaysPlaced DEF e
    <3> QED BY <3>2, <3>3
  <2>5. CASE c = 0
    <3>1. v = w /\ from = Due(now)
      BY <2>1, <2>5 DEF Due
    <3> SUFFICES ASSUME NEW s \in Slot, NEW i \in DOMAIN w[s]
                 PROVE  Arrived(w[s][i].expire, s, now)
      BY <3>1 DEF v, now
    <3>2. s = from => w[s][i].expire = now
      <4>1. Quot(w[s][i].expire, 0) = w[s][i].expire /\ Quot(now, 0) = now
        BY <1>1, <1>2, QuotEnds
      <4> QED BY <2>4, <2>5, <4>1
    <3> QED BY <2>4, <3>1, <3>2 DEF Arrived
  <2>6. CASE c # 0
    <3>1. v = MoveList(w, now, from)
      BY <2>1, <2>6
    <3>2. \A j \in 0..c - 1 : Digit(now, j) = 0
      BY <2>1, <2>2 DEF Carry
    <3> HIDE DEF from
    <3> QED BY <1>1, <2>3, <2>4, <2>6, <3>1, <3>2, MoveListArrives DEF v, now
  <2> QED BY <2>5, <2>6
<1> QED BY <1>1, <1>4, <1>5

\* What timer_shift leaves is made of the lists that were there.
LEMMA CascadeSource ==
    ASSUME NEW w \in Wheel, NEW t \in Time
    PROVE  LET now == (t + 1) % MaxTime
               v   == Cascade(w, now)
           IN  /\ now \in Time
               /\ v \in Wheel
               /\ v = w \/ \E from \in Slot : v = MoveList(w, now, from)
               /\ \A s \in Slot : \A i \in DOMAIN v[s] :
                     \E r \in Slot : \E j \in DOMAIN w[r] : v[s][i] = w[r][j]
               /\ \A r \in Slot : \A j \in DOMAIN w[r] :
                     \E s \in Slot : \E i \in DOMAIN v[s] : v[s][i] = w[r][j]
<1> DEFINE now == (t + 1) % MaxTime
           v == Cascade(w, now)
<1>1. /\ now \in Time
      /\ \/ /\ t = MaxTime - 1 /\ now = 0
            /\ v = MoveList(w, now, <<Levels, 0>>)
         \/ /\ now = t + 1
            /\ \E c \in 0..Levels :
                 /\ Carry(t, t + 1, c)
                 /\ v = IF c = 0 THEN w ELSE MoveList(w, now, <<c, Digit(now, c)>>)
  BY CascadeCases
<1>2. Levels \in Nat /\ Levels \in 0..Levels
  BY TimerAssumption
<1> HIDE DEF now, v
<1>3. v = w \/ \E from \in Slot : v = MoveList(w, now, from)
  <2>1. <<Levels, 0>> \in Slot
    BY <1>2, SlotIs, BaseFacts
  <2>2. \A c \in 0..Levels : <<c, Digit(now, c)>> \in Slot
    <3>1. now \in Nat
      BY <1>1, QuotEnds
    <3>2. \A c \in 0..Levels : c \in Nat
      BY <1>2
    <3>3. \A c \in 0..Levels : Digit(now, c) \in 0..Base(c) - 1
      BY <3>1, <3>2, DigitBound
    <3> QED BY <3>3, SlotIs
  <2> QED BY <1>1, <2>1, <2>2
<1>4. CASE v = w
  BY <1>1, <1>3, <1>4 DEF v, now
<1>5. CASE \E from \in Slot : v = MoveList(w, now, from)
  <2>1. PICK from \in Slot : v = MoveList(w, now, from)
    BY <1>5
  <2>2. /\ v \in Wheel
        /\ \A s \in Slot : \E m \in Nat, f \in [DOMAIN v[s] -> Nat] :
              Source(w, v, now, from, s, m, f)
        /\ \A r \in Slot : \A i \in DOMAIN w[r] :
              \E s \in Slot : \E j \in DOMAIN v[s] : v[s][j] = w[r][i]
    <3> DEFINE u == MoveList(w, now, from)
    <3>1. /\ u \in Wheel
          /\ \A s \in Slot : \E m \in Nat, f \in [DOMAIN u[s] -> Nat] :
                Source(w, u, now, from, s, m, f)
          /\ \A r \in Slot : \A i \in DOMAIN w[r] :
                \E s \in Slot : \E j \in DOMAIN u[s] : u[s][j] = w[r][i]
      BY <1>1, MoveListSource
    <3> HIDE DEF u
    <3>2. v = u
      BY <2>1 DEF u
    <3> QED BY <3>1, <3>2
  <2>3. ASSUME NEW s \in Slot, NEW i \in DOMAIN v[s]
        PROVE  \E r \in Slot : \E j \in DOMAIN w[r] : v[s][i] = w[r][j]
    <3>1. PICK m \in Nat, f \in [DOMAIN v[s] -> Nat] : Source(w, v, now, from, s, m, f)
      BY <2>2
    <3> QED BY <3>1 DEF Source
  <2> QED BY <1>1, <1>5, <2>2, <2>3 DEF v, now
<1> QED BY <1>3, <1>4, <1>5

-----------------------------------------------------------------------------
(* The inductive invariant                                                 *)

\* No list is held outside a dispatch; the first dispatch still owes a tick.
PhaseInv == (pc = "idle" => current = <<>>) /\ (pc = "first" => diff > 0)

\* A node of the wheel expires when its timeout has run out.
DueInv ==
    \A s \in Slot : \A i \in DOMAIN wheel[s] :
        wheel[s][i].expire = (time + left[wheel[s][i].session]) % MaxTime

\* Every node of the wheel is where the coming ticks will find it.
PlaceInv ==
    \A s \in Slot : \A i \in DOMAIN wheel[s] : Placed(wheel[s][i].expire, s, time)

\* A list being dispatched has run out.
RunOut == \A i \in DOMAIN current : left[current[i].session] = 0

\* The inductive invariant.
TimerInv == TypeOK /\ PhaseInv /\ DueInv /\ PlaceInv /\ RunOut

\* The types, with the names used here.
LEMMA WheelTyped == TypeOK <=> /\ time \in Time /\ wheel \in Wheel
                               /\ pc \in {"idle", "first", "second"}
                               /\ current \in Seq(Node)
                               /\ diff \in 0..MaxDiff
                               /\ left \in [Session -> 0..MaxDelay]
                               /\ older \in [Session -> SUBSET Session]
BY DEF TypeOK, Time, Wheel

\* The empty wheel has the invariant.
LEMMA InitTimer ==
    ASSUME Init
    PROVE  TimerInv
<1>1. \A s \in Slot : wheel[s] = <<>> /\ DOMAIN wheel[s] = {}
  BY DEF Init
<1>2. DOMAIN current = {} /\ current = <<>>
  BY DEF Init
<1>3. TypeOK
  <2>1. MaxDelay \in Int /\ MaxDelay >= 0
    <3>1. MaxTime \in Nat /\ MaxTime > 1
      BY TimeBound, MaxTimeBound
    <3> QED BY <3>1 DEF MaxDelay
  <2>2. <<>> \in Seq(Node)
    BY EmptySeq
  <2>3. 0 \in 0..MaxDiff /\ 0 \in 0..MaxDelay
    BY <2>1, TimerAssumption
  <2> QED BY <2>2, <2>3 DEF Init, TypeOK
<1> QED BY <1>1, <1>2, <1>3 DEF TimerInv, PhaseInv, DueInv, PlaceInv, RunOut, Init

\* The pending sessions are those of the nodes.
LEMMA PendingNodes ==
    ASSUME TypeOK
    PROVE  /\ \A s \in Slot : \A i \in DOMAIN wheel[s] : wheel[s][i].session \in Pending
           /\ \A i \in DOMAIN current : current[i].session \in Pending
           /\ \A r \in Pending :
                 \/ \E s \in Slot : \E i \in DOMAIN wheel[s] : wheel[s][i].session = r
                 \/ \E i \in DOMAIN current : current[i].session = r
<1>1. ASSUME NEW s \in Slot, NEW i \in DOMAIN wheel[s] PROVE wheel[s][i].session \in Pending
  BY DEF Pending, Nodes
<1>2. ASSUME NEW i \in DOMAIN current PROVE current[i].session \in Pending
  BY DEF Pending, Nodes
<1>3. ASSUME NEW r \in Pending
      PROVE  \/ \E s \in Slot : \E i \in DOMAIN wheel[s] : wheel[s][i].session = r
             \/ \E i \in DOMAIN current : current[i].session = r
  BY DEF Pending, Nodes
<1> QED BY <1>1, <1>2, <1>3

-----------------------------------------------------------------------------
(* The steps                                                               *)

\* The slot of the current tick is empty whenever the lock is free: the rare
\* condition of timer_update never arises with a positive time.
LEMMA DueEmpty ==
    ASSUME TimerInv
    PROVE  wheel[<<0, Digit(time, 0)>>] = <<>>
<1> DEFINE l == wheel[Due(time)]
<1>1. time \in Time /\ wheel \in Wheel
  BY WheelTyped DEF TimerInv
<1>2. Due(time) \in Slot
  BY <1>1, DueSlot
<1>3. l \in Seq(Node)
  BY <1>1, <1>2 DEF Wheel
<1>4. \A i \in DOMAIN l : FALSE
  BY <1>1, <1>2, NotPlacedDue DEF TimerInv, PlaceInv
<1> HIDE DEF l
<1>5. l = <<>>
  <2>1. Len(l) \in Nat /\ DOMAIN l = 1..Len(l)
    BY <1>3, LenProperties
  <2>2. ~ (Len(l) \in Nat \ {0})
    BY <1>4, <2>1
  <2> QED BY <1>3, <2>2, EmptySeq
<1> QED BY <1>5 DEF l, Due

\* The tick a timeout is set for, and where it is put.
LEMMA TimeoutPlaced ==
    ASSUME NEW t \in Time, NEW delay \in 1..MaxDelay
    PROVE  LET expire == (t + delay) % MaxTime
           IN  /\ expire \in Time /\ SlotOf(t, expire) \in Slot
               /\ Placed(expire, SlotOf(t, expire), t)
               /\ delay \in 0..MaxDelay
<1> DEFINE x == (t + delay) % MaxTime
<1>1. /\ MaxTime \in Nat /\ MaxTime > 0 /\ t \in Nat /\ t < MaxTime
      /\ delay \in Nat /\ delay > 0 /\ 2 * delay < MaxTime /\ delay \in 0..MaxDelay
  <2>1. MaxTime \in Nat /\ MaxTime > 0 /\ t \in Nat /\ t < MaxTime
    BY TimeBound DEF Time
  <2>2. MaxDelay \in Int /\ 2 * MaxDelay < MaxTime
    BY <2>1 DEF MaxDelay
  <2> QED BY <2>1, <2>2
<1>2. CASE t + delay < MaxTime
  <2>1. x = t + delay /\ x \in Time /\ t < x
    BY <1>1, <1>2 DEF Time
  <2> HIDE DEF x
  <2> QED BY <1>1, <2>1, PlacedAhead, SlotOfSlot DEF x
<1>3. CASE ~ (t + delay < MaxTime)
  <2>1. x = (t + delay) - MaxTime
    <3>1. (t + delay) - MaxTime \in Nat /\ (t + delay) - MaxTime < MaxTime
      BY <1>1, <1>3
    <3>2. \A a, m \in Nat : m <= a /\ a - m < m => a % m = a - m
      OBVIOUS
    <3>3. t + delay \in Nat /\ MaxTime <= t + delay
      BY <1>1, <1>3
    <3> QED BY <1>1, <3>1, <3>2, <3>3
  <2>2. x \in Time /\ x < t /\ 2 * (t - x) > MaxTime
    BY <1>1, <1>3, <2>1 DEF Time
  <2> HIDE DEF x
  <2> QED BY <1>1, <2>2, PlacedAcross, SlotOfSlot DEF x
<1> QED BY <1>2, <1>3

\* What a list is after link.
LEMMA AppendFacts ==
    ASSUME NEW S, NEW l \in Seq(S), NEW e \in S
    PROVE  /\ Append(l, e) \in Seq(S)
           /\ Len(l) \in Nat /\ DOMAIN l = 1..Len(l)
           /\ DOMAIN Append(l, e) = 1..Len(l) + 1
           /\ \A i \in DOMAIN l : Append(l, e)[i] = l[i]
           /\ Append(l, e)[Len(l) + 1] = e
           /\ \A i \in DOMAIN Append(l, e) : i \in DOMAIN l \/ i = Len(l) + 1
<1>1. Len(l) \in Nat /\ DOMAIN l = 1..Len(l)
  BY LenProperties
<1>2. Append(l, e) \in Seq(S) /\ Len(Append(l, e)) = Len(l) + 1
  OBVIOUS
<1>3. DOMAIN Append(l, e) = 1..Len(l) + 1
  BY <1>2, LenProperties
<1>4. \A i \in 1..Len(l) : Append(l, e)[i] = l[i]
  BY <1>1
<1>5. Append(l, e)[Len(l) + 1] = e
  BY <1>1
<1> QED BY <1>1, <1>2, <1>3, <1>4, <1>5

\* What timer_add changes: one list has one node more, at its end.
LEMMA TimeoutEffect ==
    ASSUME TypeOK, NEW s \in Session, NEW delay \in 1..MaxDelay, Timeout(s, delay)
    PROVE  LET expire == (time + delay) % MaxTime
               slot   == SlotOf(time, expire)
               node   == [session |-> s, expire |-> expire]
           IN  /\ slot \in Slot /\ node \in Node
               /\ wheel' \in Wheel
               /\ wheel'[slot] = Append(wheel[slot], node)
               /\ \A r \in Slot : r # slot => wheel'[r] = wheel[r]
               /\ \A r \in Slot : \A i \in DOMAIN wheel'[r] :
                     \/ i \in DOMAIN wheel[r] /\ wheel'[r][i] = wheel[r][i]
                     \/ r = slot /\ i = Len(wheel[slot]) + 1 /\ wheel'[r][i] = node
<1> DEFINE x == (time + delay) % MaxTime
           slot == SlotOf(time, x)
           node == [session |-> s, expire |-> x]
<1>1. time \in Time /\ wheel \in Wheel
  BY WheelTyped
<1>2. x \in Time /\ slot \in Slot
  BY <1>1, TimeoutPlaced
<1>3. node \in Node
  BY <1>2 DEF Node, Time
<1>4. wheel' = [wheel EXCEPT ![slot] = Append(@, node)]
  BY DEF Timeout
<1> HIDE DEF x, slot, node
<1>5. \A r \in Slot : wheel[r] \in Seq(Node)
  BY <1>1 DEF Wheel
<1>6. /\ wheel'[slot] = Append(wheel[slot], node)
      /\ \A r \in Slot : r # slot => wheel'[r] = wheel[r]
  BY <1>1, <1>2, <1>4 DEF Wheel
<1>7. Append(wheel[slot], node) \in Seq(Node)
  BY <1>2, <1>3, <1>5, AppendFacts
<1>8. wheel' \in Wheel
  BY <1>1, <1>2, <1>4, <1>7 DEF Wheel
<1>9. ASSUME NEW r \in Slot, NEW i \in DOMAIN wheel'[r]
      PROVE  \/ i \in DOMAIN wheel[r] /\ wheel'[r][i] = wheel[r][i]
             \/ r = slot /\ i = Len(wheel[slot]) + 1 /\ wheel'[r][i] = node
  <2>1. CASE r # slot
    BY <1>6, <2>1
  <2>2. CASE r = slot
    <3>1. i \in DOMAIN Append(wheel[slot], node)
      BY <1>6, <2>2
    <3>2. \/ i \in DOMAIN wheel[slot] /\ Append(wheel[slot], node)[i] = wheel[slot][i]
          \/ i = Len(wheel[slot]) + 1 /\ Append(wheel[slot], node)[i] = node
      BY <1>2, <1>3, <1>5, <3>1, AppendFacts
    <3> QED BY <1>6, <2>2, <3>2
  <2> QED BY <2>1, <2>2
<1> QED BY <1>2, <1>3, <1>6, <1>8, <1>9 DEF x, slot, node

\* skynet_timeout puts its node where it will be found.
LEMMA TimeoutInv ==
    ASSUME TimerInv, NEW s \in Session \ Pending, NEW delay \in 1..MaxDelay, Timeout(s, delay)
    PROVE  TimerInv'
<1> DEFINE x == (time + delay) % MaxTime
           slot == SlotOf(time, x)
           node == [session |-> s, expire |-> x]
<1>1. /\ time \in Time /\ wheel \in Wheel /\ TypeOK
      /\ left \in [Session -> 0..MaxDelay] /\ older \in [Session -> SUBSET Session]
  BY WheelTyped DEF TimerInv
<1>2. /\ wheel' \in Wheel
      /\ \A r \in Slot : \A i \in DOMAIN wheel'[r] :
            \/ i \in DOMAIN wheel[r] /\ wheel'[r][i] = wheel[r][i]
            \/ r = slot /\ i = Len(wheel[slot]) + 1 /\ wheel'[r][i] = node
  BY <1>1, TimeoutEffect
<1>3. delay \in 0..MaxDelay /\ Placed(x, slot, time)
  BY <1>1, TimeoutPlaced
<1>4. /\ left' = [left EXCEPT ![s] = delay]
      /\ older' = [older EXCEPT ![s] = {r \in Pending : left[r] = delay}]
      /\ UNCHANGED <<time, pc, current, diff>>
  BY DEF Timeout
<1>5. left' \in [Session -> 0..MaxDelay] /\ left'[s] = delay
  BY <1>1, <1>3, <1>4
<1>6. \A r \in Session : r # s => left'[r] = left[r]
  BY <1>1, <1>4
<1>7. \A r \in Pending : r \in Session /\ r # s
  <2>1. \A r \in Slot : \A i \in DOMAIN wheel[r] : wheel[r][i].session \in Session
    BY <1>1, NodeTyped DEF Wheel
  <2>2. \A i \in DOMAIN current : current[i].session \in Session
    BY <1>1, NodeTyped DEF TypeOK
  <2> QED BY <1>1, <2>1, <2>2, PendingNodes
<1>8. older' \in [Session -> SUBSET Session]
  BY <1>1, <1>4, <1>7
<1>9. TypeOK'
  BY <1>1, <1>2, <1>4, <1>5, <1>8 DEF TypeOK, Wheel
<1>10. node.session = s /\ node.expire = x
  OBVIOUS
<1> HIDE DEF x, slot, node
<1>11. DueInv'
  <2> SUFFICES ASSUME NEW r \in Slot, NEW i \in DOMAIN wheel'[r]
               PROVE  wheel'[r][i].expire = (time + left'[wheel'[r][i].session]) % MaxTime
    BY <1>4 DEF DueInv
  <2>1. CASE i \in DOMAIN wheel[r] /\ wheel'[r][i] = wheel[r][i]
    <3>1. wheel[r][i].session \in Pending
      BY <1>1, <2>1, PendingNodes
    <3>2. left'[wheel[r][i].session] = left[wheel[r][i].session]
      BY <1>6, <1>7, <3>1
    <3> QED BY <2>1, <3>2 DEF TimerInv, DueInv
  <2>2. CASE wheel'[r][i] = node
    BY <1>5, <1>10, <2>2 DEF x
  <2> QED BY <1>2, <2>1, <2>2
<1>12. PlaceInv'
  <2> SUFFICES ASSUME NEW r \in Slot, NEW i \in DOMAIN wheel'[r]
               PROVE  Placed(wheel'[r][i].expire, r, time)
    BY <1>4 DEF PlaceInv
  <2>1. CASE i \in DOMAIN wheel[r] /\ wheel'[r][i] = wheel[r][i]
    BY <2>1 DEF TimerInv, PlaceInv
  <2>2. CASE r = slot /\ wheel'[r][i] = node
    BY <1>3, <1>10, <2>2
  <2> QED BY <1>2, <2>1, <2>2
<1>13. RunOut'
  <2>1. \A i \in DOMAIN current : current[i].session \in Pending
    BY <1>1, PendingNodes
  <2> QED BY <1>4, <1>6, <1>7, <2>1 DEF TimerInv, RunOut
<1>14. PhaseInv'
  BY <1>4 DEF TimerInv, PhaseInv
<1> QED BY <1>9, <1>11, <1>12, <1>13, <1>14 DEF TimerInv

\* What timer_shift and the look at the new tick change: the list of the new
\* tick, if there is one, is taken out of the wheel.
LEMMA ShiftEffect ==
    ASSUME TypeOK, Shift(wheel)
    PROVE  LET now == (time + 1) % MaxTime
               v   == Cascade(wheel, now)
           IN  /\ now \in Time /\ time' = now
               /\ v \in Wheel
               /\ wheel' \in Wheel
               /\ \A s \in Slot : wheel'[s] = IF s = Due(now) THEN <<>> ELSE v[s]
               /\ current' = v[Due(now)] /\ current' \in Seq(Node)
               /\ pc' \in {"idle", "second"} /\ (pc' = "idle" => current' = <<>>)
               /\ diff' = diff - 1
               /\ left' = [s \in Session |-> IF left[s] > 0 THEN left[s] - 1 ELSE 0]
<1> DEFINE now == (time + 1) % MaxTime
           v == Cascade(wheel, now)
<1>1. time \in Time /\ wheel \in Wheel
  BY WheelTyped
<1>2. now \in Time /\ v \in Wheel
  BY <1>1, CascadeSource
<1>3. Due(now) \in Slot
  BY <1>2, DueSlot
<1>4. /\ time' = now /\ diff' = diff - 1
      /\ left' = [s \in Session |-> IF left[s] > 0 THEN left[s] - 1 ELSE 0]
      /\ IF v[Due(now)] # <<>>
         THEN wheel' = [v EXCEPT ![Due(now)] = <<>>] /\ current' = v[Due(now)] /\ pc' = "second"
         ELSE wheel' = v /\ current' = <<>> /\ pc' = "idle"
  BY DEF Shift, Detach, Due
<1> HIDE DEF now, v
<1>5. <<>> \in Seq(Node) /\ v[Due(now)] \in Seq(Node)
  BY <1>2, <1>3, EmptySeq DEF Wheel
<1>6. CASE v[Due(now)] # <<>>
  <2>1. wheel' \in Wheel
    BY <1>2, <1>3, <1>4, <1>5, <1>6 DEF Wheel
  <2>2. \A s \in Slot : wheel'[s] = IF s = Due(now) THEN <<>> ELSE v[s]
    BY <1>2, <1>3, <1>4, <1>6 DEF Wheel
  <2> QED BY <1>2, <1>4, <1>5, <1>6, <2>1, <2>2 DEF now, v
<1>7. CASE v[Due(now)] = <<>>
  BY <1>2, <1>4, <1>5, <1>7 DEF now, v
<1> QED BY <1>6, <1>7

\* A rightly placed node does not expire at the present tick.
LEMMA PlacedNotNow ==
    ASSUME NEW t \in Time, NEW s \in Slot, NEW e, Placed(e, s, t)
    PROVE  e # t
<1>1. Levels \in Nat /\ s[1] \in 0..Levels /\ t \in Nat
  BY SlotParts, QuotEnds, TimerAssumption
<1>2. s[1] \in Nat
  BY <1>1
<1>3. Digit(t, s[1]) \in Nat
  BY <1>1, <1>2, DigitBound
<1> QED BY <1>1, <1>3 DEF Placed

\* A full turn changes nothing.
LEMMA ModTurn ==
    ASSUME NEW a \in Nat, NEW m \in Nat, m > 0
    PROVE  (a + m) % m = a % m
<1> DEFINE q == a \div m
           r == a % m
<1>1. a = m * q + r /\ r \in 0..m - 1
  BY SMTT(20)
<1>2. q \in Nat
  OBVIOUS
<1> HIDE DEF q, r
<1>3. a + m = m * (q + 1) + r
  BY <1>1, <1>2
<1>4. ASSUME NEW p \in Nat PROVE (m * p + r) % m = r
  BY <1>1
<1> QED BY <1>1, <1>2, <1>3, <1>4 DEF r

\* A tick more on the counter is a tick less to wait.
LEMMA ModStep ==
    ASSUME NEW M \in Nat, NEW t \in 0..M - 1, NEW l \in Nat, l > 0
    PROVE  (((t + 1) % M) + (l - 1)) % M = (t + l) % M
<1>1. CASE t + 1 < M
  <2>1. (t + 1) % M = t + 1
    BY <1>1
  <2>2. (t + 1) + (l - 1) = t + l
    OBVIOUS
  <2> QED BY <2>1, <2>2
<1>2. CASE t + 1 = M
  <2>1. (t + 1) % M = 0
    BY <1>2
  <2>2. t + l = (l - 1) + M
    BY <1>2
  <2>3. l - 1 \in Nat /\ M > 0
    OBVIOUS
  <2>4. ((l - 1) + M) % M = (l - 1) % M
    BY <2>3, ModTurn
  <2>5. 0 + (l - 1) = l - 1
    OBVIOUS
  <2> QED BY <2>1, <2>2, <2>4, <2>5
<1> QED BY <1>1, <1>2

\* A delay below the range that ends where it began is none.
LEMMA ModSame ==
    ASSUME NEW M \in Nat, NEW t \in 0..M - 1, NEW l \in 0..M - 1, (t + l) % M = t
    PROVE  l = 0
<1>1. CASE t + l < M
  BY <1>1
<1>2. CASE ~ (t + l < M)
  <2>1. \A a, m \in Nat : m <= a /\ a - m < m => a % m = a - m
    OBVIOUS
  <2>2. t + l \in Nat /\ M <= t + l /\ (t + l) - M < M
    BY <1>2
  <2>3. (t + l) % M = (t + l) - M
    BY <2>1, <2>2
  <2> QED BY <2>3
<1> QED BY <1>1, <1>2

\* A tick.
LEMMA ShiftInv ==
    ASSUME TimerInv, Shift(wheel), diff > 0, UNCHANGED older
    PROVE  TimerInv'
<1> DEFINE now == (time + 1) % MaxTime
           v == Cascade(wheel, now)
<1>1. /\ TypeOK /\ time \in Time /\ wheel \in Wheel
      /\ left \in [Session -> 0..MaxDelay] /\ diff \in 0..MaxDiff
  BY WheelTyped DEF TimerInv
<1>2. /\ now \in Time /\ time' = now
      /\ v \in Wheel
      /\ wheel' \in Wheel
      /\ \A s \in Slot : wheel'[s] = IF s = Due(now) THEN <<>> ELSE v[s]
      /\ current' = v[Due(now)] /\ current' \in Seq(Node)
      /\ pc' \in {"idle", "second"} /\ (pc' = "idle" => current' = <<>>)
      /\ diff' = diff - 1
      /\ left' = [s \in Session |-> IF left[s] > 0 THEN left[s] - 1 ELSE 0]
  BY <1>1, ShiftEffect
<1>3. \A s \in Slot : \A i \in DOMAIN v[s] : Arrived(v[s][i].expire, s, now)
  BY <1>1, CascadeArrives DEF TimerInv, PlaceInv
<1>4. \A s \in Slot : \A i \in DOMAIN v[s] :
         \E r \in Slot : \E j \in DOMAIN wheel[r] : v[s][i] = wheel[r][j]
  BY <1>1, CascadeSource
<1>5. MaxTime \in Nat /\ time \in 0..MaxTime - 1 /\ MaxDelay \in Int /\ MaxDelay < MaxTime
  <2>1. MaxTime \in Nat /\ MaxTime > 0
    BY TimeBound
  <2>2. MaxDelay \in Int /\ MaxDelay < MaxTime
    BY <2>1 DEF MaxDelay
  <2> QED BY <1>1, <2>1, <2>2 DEF Time
<1>6. left' \in [Session -> 0..MaxDelay]
  <2>1. \A s \in Session : (IF left[s] > 0 THEN left[s] - 1 ELSE 0) \in 0..MaxDelay
    BY <1>1, <1>5
  <2> QED BY <1>2, <2>1
<1>7. ASSUME NEW s \in Slot, NEW i \in DOMAIN v[s]
      PROVE  /\ v[s][i].session \in Session
             /\ v[s][i].expire = (now + left'[v[s][i].session]) % MaxTime
  <2>0. PICK r \in Slot : \E j \in DOMAIN wheel[r] : v[s][i] = wheel[r][j]
    BY <1>4
  <2>1. PICK j \in DOMAIN wheel[r] : v[s][i] = wheel[r][j]
    BY <2>0
  <2> DEFINE e == wheel[r][j].expire
             q == wheel[r][j].session
             l == left[q]
  <2>2. q \in Session /\ e \in Time
    BY <1>1, NodeTyped DEF Wheel
  <2>3. e = (time + l) % MaxTime /\ Placed(e, r, time)
    BY DEF TimerInv, DueInv, PlaceInv
  <2>4. e # time
    BY <1>1, <2>3, PlacedNotNow
  <2>5. l \in 0..MaxDelay /\ left'[q] = IF l > 0 THEN l - 1 ELSE 0
    BY <1>1, <1>2, <2>2
  <2> HIDE DEF e, q, l
  <2>6. l # 0
    BY <1>5, <2>3, <2>4
  <2>7. left'[q] = l - 1 /\ l \in Nat /\ l > 0
    BY <1>5, <2>5, <2>6
  <2>8. (((time + 1) % MaxTime) + (l - 1)) % MaxTime = (time + l) % MaxTime
    BY <1>5, <2>7, ModStep
  <2> QED BY <2>1, <2>2, <2>3, <2>7, <2>8 DEF e, q, now
<1> HIDE DEF now, v
<1>8. TypeOK'
  <2>1. diff' \in 0..MaxDiff
    BY <1>1, <1>2, TimerAssumption
  <2> QED BY <1>1, <1>2, <1>6, <2>1 DEF TypeOK, Time, Wheel
<1>9. ASSUME NEW s \in Slot, NEW i \in DOMAIN wheel'[s]
      PROVE  s # Due(now) /\ i \in DOMAIN v[s] /\ wheel'[s][i] = v[s][i]
  <2>1. DOMAIN <<>> = {}
    OBVIOUS
  <2> QED BY <1>2, <2>1
<1>10. DueInv'
  <2> SUFFICES ASSUME NEW s \in Slot, NEW i \in DOMAIN wheel'[s]
               PROVE  wheel'[s][i].expire = (time' + left'[wheel'[s][i].session]) % MaxTime
    BY DEF DueInv
  <2>1. i \in DOMAIN v[s] /\ wheel'[s][i] = v[s][i]
    BY <1>9
  <2>2. v[s][i].expire = (now + left'[v[s][i].session]) % MaxTime
    BY <1>7, <2>1
  <2> QED BY <1>2, <2>1, <2>2
<1>11. PlaceInv'
  BY <1>2, <1>3, <1>9 DEF PlaceInv, Arrived
<1>12. RunOut'
  <2> SUFFICES ASSUME NEW i \in DOMAIN current' PROVE left'[current'[i].session] = 0
    BY DEF RunOut
  <2> DEFINE q == current'[i].session
  <2>1. Due(now) \in Slot /\ i \in DOMAIN v[Due(now)] /\ current'[i] = v[Due(now)][i]
    BY <1>2, DueSlot
  <2>2. /\ q \in Session /\ current'[i].expire = (now + left'[q]) % MaxTime
        /\ current'[i].expire = now
    BY <1>3, <1>7, <2>1 DEF Arrived
  <2> HIDE DEF q
  <2>3. left'[q] \in 0..MaxTime - 1 /\ now \in 0..MaxTime - 1
    BY <1>2, <1>5, <1>6, <2>2 DEF Time
  <2> QED BY <1>5, <2>2, <2>3, ModSame DEF q
<1>13. PhaseInv'
  BY <1>2 DEF PhaseInv
<1> QED BY <1>8, <1>10, <1>11, <1>12, <1>13 DEF TimerInv

\* The dispatch of a node.
LEMMA DispatchStep ==
    ASSUME TimerInv, Dispatch
    PROVE  TimerInv'
<1>1. /\ current # <<>> /\ current \in Seq(Node) /\ pc # "idle" /\ current' = Tail(current)
      /\ older' = [s \in Session |->
                     IF s = Head(current).session THEN {} ELSE older[s] \ {Head(current).session}]
      /\ UNCHANGED <<time, wheel, pc, diff, left>>
      /\ older \in [Session -> SUBSET Session]
  BY DEF Dispatch, TimerInv, TypeOK
<1>2. /\ Tail(current) \in Seq(Node) /\ Len(Tail(current)) = Len(current) - 1
      /\ \A i \in 1..Len(Tail(current)) : Tail(current)[i] = current[i + 1]
  BY <1>1, HeadTailProperties
<1>3. ASSUME NEW i \in DOMAIN current'
      PROVE  i + 1 \in DOMAIN current /\ current'[i] = current[i + 1]
  <2>1. DOMAIN current' = 1..Len(Tail(current)) /\ DOMAIN current = 1..Len(current) /\ Len(current) \in Nat
    BY <1>1, <1>2, LenProperties
  <2> QED BY <1>1, <1>2, <2>1
<1>4. older' \in [Session -> SUBSET Session]
  BY <1>1
<1>5. TypeOK'
  BY <1>1, <1>2, <1>4 DEF TimerInv, TypeOK
<1>6. RunOut'
  BY <1>1, <1>3 DEF TimerInv, RunOut
<1>7. DueInv' /\ PlaceInv' /\ PhaseInv'
  BY <1>1 DEF TimerInv, DueInv, PlaceInv, PhaseInv
<1> QED BY <1>5, <1>6, <1>7 DEF TimerInv

\* Every step preserves the invariant.
LEMMA TimerStep ==
    ASSUME TimerInv, [Next]_vars
    PROVE  TimerInv'
<1>1. CASE TimerUpdate
  <2>1. Shift(wheel) /\ diff > 0 /\ UNCHANGED older
    BY <1>1, DueEmpty DEF TimerUpdate
  <2> QED BY <2>1, ShiftInv
<1>2. CASE Dispatch
  BY <1>2, DispatchStep
<1>3. CASE Relock
  <2>1. /\ pc # "idle" /\ current = <<>> /\ UNCHANGED older
        /\ IF pc = "first" THEN Shift(wheel)
           ELSE pc' = "idle" /\ UNCHANGED <<time, wheel, current, diff, left>>
    BY <1>3, DueEmpty DEF Relock
  <2>2. CASE pc = "first"
    BY <2>1, <2>2, ShiftInv DEF TimerInv, PhaseInv
  <2>3. CASE pc # "first"
    <3>1. TypeOK'
      BY <2>1, <2>3 DEF TimerInv, TypeOK
    <3> QED BY <2>1, <2>3, <3>1 DEF TimerInv, PhaseInv, DueInv, PlaceInv, RunOut
  <2> QED BY <2>2, <2>3
<1>4. CASE \E d \in 1..MaxDiff : UpdateTime(d)
  <2>1. PICK d \in 1..MaxDiff : UpdateTime(d)
    BY <1>4
  <2>2. /\ pc = "idle" /\ diff' = d /\ d \in 0..MaxDiff
        /\ UNCHANGED <<time, wheel, pc, current, left, older>>
    BY <2>1, TimerAssumption DEF UpdateTime
  <2>3. TypeOK'
    BY <2>2 DEF TimerInv, TypeOK
  <2> QED BY <2>2, <2>3 DEF TimerInv, PhaseInv, DueInv, PlaceInv, RunOut
<1>5. CASE \E s \in Session \ Pending, delay \in 1..MaxDelay : Timeout(s, delay)
  BY <1>5, TimeoutInv
<1>6. CASE UNCHANGED vars
  BY <1>6 DEF vars, TimerInv, TypeOK, PhaseInv, DueInv, PlaceInv, RunOut
<1> QED BY <1>1, <1>2, <1>3, <1>4, <1>5, <1>6 DEF Next, TimerThread

-----------------------------------------------------------------------------
(* The lists: nothing twice, nothing lost, nothing overtaken               *)

\* No node is in two places of a wheel.
Distinct(w) ==
    \A r, s \in Slot : \A i \in DOMAIN w[r], j \in DOMAIN w[s] :
        w[r][i].session = w[s][j].session => r = s /\ i = j

\* No list of a wheel has a timeout before an older one of its tick.
Ordered(w, o) ==
    \A s \in Slot : \A i, j \in DOMAIN w[s] :
        i < j => w[s][j].session \notin o[w[s][i].session]

\* Timeouts of one tick share a slot.
Together(w, o) ==
    \A r, s \in Slot : \A i \in DOMAIN w[r], j \in DOMAIN w[s] :
        w[r][i].session \in o[w[s][j].session] => r = s

\* move_list puts no node into two places.
LEMMA MoveListDistinct ==
    ASSUME NEW w \in Wheel, NEW now \in Time, NEW from \in Slot, Distinct(w)
    PROVE  Distinct(MoveList(w, now, from))
<1> DEFINE v == MoveList(w, now, from)
<1>1. /\ v \in Wheel
      /\ \A s \in Slot : \E m \in Nat, f \in [DOMAIN v[s] -> Nat] : Source(w, v, now, from, s, m, f)
  BY MoveListSource
<1> HIDE DEF v
<1> SUFFICES ASSUME NEW r \in Slot, NEW s \in Slot, NEW i \in DOMAIN v[r], NEW j \in DOMAIN v[s],
                    v[r][i].session = v[s][j].session
             PROVE  r = s /\ i = j
  BY DEF Distinct, v
<1>2. PICK m \in Nat, f \in [DOMAIN v[r] -> Nat] : Source(w, v, now, from, r, m, f)
  BY <1>1
<1>3. PICK n \in Nat, g \in [DOMAIN v[s] -> Nat] : Source(w, v, now, from, s, n, g)
  BY <1>1
<1>4. IF i <= m THEN r # from /\ i \in DOMAIN w[r] /\ v[r][i] = w[r][i]
      ELSE /\ f[i] \in DOMAIN w[from] /\ v[r][i] = w[from][f[i]]
           /\ SlotOf(now, v[r][i].expire) = r
  BY <1>2 DEF Source
<1>5. IF j <= n THEN s # from /\ j \in DOMAIN w[s] /\ v[s][j] = w[s][j]
      ELSE /\ g[j] \in DOMAIN w[from] /\ v[s][j] = w[from][g[j]]
           /\ SlotOf(now, v[s][j].expire) = s
  BY <1>3 DEF Source
<1>6. CASE i <= m /\ j <= n
  BY <1>4, <1>5, <1>6 DEF Distinct
<1>7. CASE i <= m /\ ~ (j <= n)
  BY <1>4, <1>5, <1>7 DEF Distinct
<1>8. CASE ~ (i <= m) /\ j <= n
  BY <1>4, <1>5, <1>8 DEF Distinct
<1>9. CASE ~ (i <= m) /\ ~ (j <= n)
  <2>1. f[i] = g[j] /\ v[r][i] = v[s][j]
    BY <1>4, <1>5, <1>9 DEF Distinct
  <2>2. r = s
    BY <1>4, <1>5, <1>9, <2>1
  <2>3. v[r][j] = w[from][f[i]] /\ j \in DOMAIN v[r]
    BY <1>5, <1>9, <2>1, <2>2
  <2>4. IF j <= m THEN r # from /\ j \in DOMAIN w[r] /\ v[r][j] = w[r][j]
        ELSE f[j] \in DOMAIN w[from] /\ v[r][j] = w[from][f[j]]
    BY <1>2, <2>3 DEF Source
  <2>5. ~ (j <= m)
    BY <1>4, <1>9, <2>3, <2>4 DEF Distinct
  <2>6. f[j] = f[i]
    BY <1>4, <1>9, <2>3, <2>4, <2>5 DEF Distinct
  <2>7. i \in Nat /\ j \in Nat /\ f[i] \in Nat /\ f[j] \in Nat
    <3>1. DOMAIN v[r] = 1..Len(v[r]) /\ Len(v[r]) \in Nat
      BY <1>1, LenProperties DEF Wheel
    <3> QED BY <2>3, <3>1
  <2>8. ~ (i < j) /\ ~ (j < i)
    BY <1>2, <1>9, <2>3, <2>5, <2>6, <2>7 DEF Source
  <2> QED BY <2>2, <2>7, <2>8
<1> QED BY <1>6, <1>7, <1>8, <1>9

\* move_list lets no timeout overtake an older one of its tick.
LEMMA MoveListOrdered ==
    ASSUME NEW w \in Wheel, NEW now \in Time, NEW from \in Slot, NEW o,
           Ordered(w, o), Together(w, o)
    PROVE  Ordered(MoveList(w, now, from), o)
<1> DEFINE v == MoveList(w, now, from)
<1>1. /\ v \in Wheel
      /\ \A s \in Slot : \E m \in Nat, f \in [DOMAIN v[s] -> Nat] : Source(w, v, now, from, s, m, f)
  BY MoveListSource
<1> HIDE DEF v
<1> SUFFICES ASSUME NEW s \in Slot, NEW i \in DOMAIN v[s], NEW j \in DOMAIN v[s], i < j
             PROVE  v[s][j].session \notin o[v[s][i].session]
  BY DEF Ordered, v
<1>2. PICK m \in Nat, f \in [DOMAIN v[s] -> Nat] : Source(w, v, now, from, s, m, f)
  BY <1>1
<1>3. IF i <= m THEN s # from /\ f[i] = i /\ i \in DOMAIN w[s] /\ v[s][i] = w[s][i]
      ELSE f[i] \in DOMAIN w[from] /\ v[s][i] = w[from][f[i]]
  BY <1>2 DEF Source
<1>4. IF j <= m THEN s # from /\ f[j] = j /\ j \in DOMAIN w[s] /\ v[s][j] = w[s][j]
      ELSE f[j] \in DOMAIN w[from] /\ v[s][j] = w[from][f[j]]
  BY <1>2 DEF Source
<1>5. (i <= m <=> j <= m) => f[i] < f[j]
  BY <1>2 DEF Source
<1>6. i \in Nat /\ j \in Nat
  <2>1. DOMAIN v[s] = 1..Len(v[s]) /\ Len(v[s]) \in Nat
    BY <1>1, LenProperties DEF Wheel
  <2> QED BY <2>1
<1>7. CASE j <= m
  <2>1. i <= m
    BY <1>6, <1>7
  <2> QED BY <1>3, <1>4, <1>7, <2>1 DEF Ordered
<1>8. CASE i <= m /\ ~ (j <= m)
  BY <1>3, <1>4, <1>8 DEF Together
<1>9. CASE ~ (i <= m) /\ ~ (j <= m)
  BY <1>3, <1>4, <1>5, <1>9 DEF Ordered
<1> QED BY <1>7, <1>8, <1>9

\* A tick has one place in the wheel.
LEMMA PlacedUnique ==
    ASSUME NEW t \in Time, NEW e \in Time, NEW r \in Slot, NEW s \in Slot,
           Placed(e, r, t), Placed(e, s, t)
    PROVE  r = s
<1>1. t \in Nat /\ e \in Nat /\ Levels \in Nat
  BY QuotEnds, TimerAssumption
<1>2. ASSUME NEW a \in Slot, NEW b \in Slot, Placed(e, a, t), Placed(e, b, t)
      PROVE  ~ (a[1] < b[1])
  <2> SUFFICES ASSUME a[1] < b[1] PROVE FALSE
    OBVIOUS
  <2> DEFINE j == a[1]
             k == b[1]
  <2>1. j \in 0..Levels /\ k \in 0..Levels
    BY SlotParts
  <2>2. j \in Nat /\ k \in Nat /\ j + 1 \in Nat /\ j + 1 <= k /\ j < Levels
    BY <1>1, <2>1
  <2>3. Block(e, j) = Block(t, j)
    BY <1>1, <1>2, <2>2 DEF Placed
  <2>4. Digit(e, k) # Digit(t, k)
    <3>1. Digit(t, k) \in Nat
      BY <1>1, <2>2, DigitBound
    <3> QED BY <1>2, <3>1 DEF Placed
  <2> HIDE DEF j, k
  <2>5. Quot(e, j + 1) = Quot(t, j + 1)
    BY <1>1, <2>2, <2>3, QuotStep
  <2>6. Quot(e, k) = Quot(t, k)
    BY <1>1, <2>2, <2>5, AgreeAbove
  <2> QED BY <1>1, <2>2, <2>4, <2>6, QuotStep
<1>3. ~ (r[1] < s[1]) /\ ~ (s[1] < r[1])
  BY <1>2
<1>4. r[1] \in 0..Levels /\ s[1] \in 0..Levels /\ r = <<r[1], r[2]>> /\ s = <<s[1], s[2]>>
  BY SlotParts
<1>5. r[1] = s[1]
  BY <1>1, <1>3, <1>4
<1>6. r[2] = s[2]
  BY <1>5 DEF Placed
<1> QED BY <1>4, <1>5, <1>6

\* Timeouts that wait behind one another are pending and due together.
OlderInv ==
    \A s \in Session : \A r \in older[s] : r \in Pending /\ s \in Pending /\ left[r] = left[s]

\* The inductive invariant of the lists, on top of TimerInv.
ListInv == Once /\ SetOrder /\ OlderInv /\ Ordered(wheel, older)

\* Timeouts of one tick are in one slot, by PlacedUnique.
LEMMA OlderTogether ==
    ASSUME TimerInv, OlderInv
    PROVE  Together(wheel, older)
<1> SUFFICES ASSUME NEW r \in Slot, NEW s \in Slot, NEW i \in DOMAIN wheel[r], NEW j \in DOMAIN wheel[s],
                    wheel[r][i].session \in older[wheel[s][j].session]
             PROVE  r = s
  BY DEF Together
<1>1. time \in Time /\ wheel \in Wheel
  BY WheelTyped DEF TimerInv
<1>2. /\ wheel[s][j].session \in Session
      /\ wheel[r][i].expire \in Time /\ wheel[s][j].expire \in Time
  BY <1>1, NodeTyped DEF Wheel
<1>3. left[wheel[r][i].session] = left[wheel[s][j].session]
  BY <1>2 DEF OlderInv
<1>4. wheel[r][i].expire = wheel[s][j].expire
  BY <1>3 DEF TimerInv, DueInv
<1>5. Placed(wheel[r][i].expire, r, time) /\ Placed(wheel[s][j].expire, s, time)
  BY DEF TimerInv, PlaceInv
<1> QED BY <1>1, <1>2, <1>4, <1>5, PlacedUnique

\* The pending sessions after a step are those of the nodes then.
LEMMA PendingNext ==
    /\ \A s \in Slot : \A i \in DOMAIN wheel'[s] : wheel'[s][i].session \in Pending'
    /\ \A i \in DOMAIN current' : current'[i].session \in Pending'
BY DEF Pending, Nodes

\* timer_shift loses no timeout.
LEMMA ShiftKeeps ==
    ASSUME TimerInv, Shift(wheel), current = <<>>
    PROVE  \A r \in Pending : r \in Pending'
<1> DEFINE now == (time + 1) % MaxTime
           v == Cascade(wheel, now)
<1>1. TypeOK /\ time \in Time /\ wheel \in Wheel
  BY WheelTyped DEF TimerInv
<1>2. /\ \A s \in Slot : wheel'[s] = IF s = Due(now) THEN <<>> ELSE v[s]
      /\ current' = v[Due(now)]
  BY <1>1, ShiftEffect
<1>3. \A r \in Slot : \A j \in DOMAIN wheel[r] :
         \E s \in Slot : \E i \in DOMAIN v[s] : v[s][i] = wheel[r][j]
  BY <1>1, CascadeSource
<1> HIDE DEF now, v
<1> SUFFICES ASSUME NEW p \in Pending PROVE p \in Pending'
  OBVIOUS
<1>4. PICK r \in Slot : \E j \in DOMAIN wheel[r] : wheel[r][j].session = p
  <2>1. DOMAIN current = {}
    OBVIOUS
  <2> QED BY <1>1, <2>1, PendingNodes
<1>5. PICK j \in DOMAIN wheel[r] : wheel[r][j].session = p
  BY <1>4
<1>6. PICK s \in Slot : \E i \in DOMAIN v[s] : v[s][i] = wheel[r][j]
  BY <1>3
<1>7. PICK i \in DOMAIN v[s] : v[s][i].session = p
  BY <1>5, <1>6
<1>8. CASE s = Due(now)
  <2>1. i \in DOMAIN current' /\ current'[i].session = p
    BY <1>2, <1>7, <1>8
  <2> QED BY <2>1, PendingNext
<1>9. CASE s # Due(now)
  <2>1. i \in DOMAIN wheel'[s] /\ wheel'[s][i].session = p
    BY <1>2, <1>7, <1>9
  <2> QED BY <2>1, PendingNext
<1> QED BY <1>8, <1>9

\* timer_shift does what move_list does, several times.
LEMMA CascadeLists ==
    ASSUME NEW w \in Wheel, NEW t \in Time, NEW o, Distinct(w), Ordered(w, o), Together(w, o)
    PROVE  LET v == Cascade(w, (t + 1) % MaxTime) IN Distinct(v) /\ Ordered(v, o)
<1> DEFINE now == (t + 1) % MaxTime
           v == Cascade(w, now)
<1>1. now \in Time /\ (v = w \/ \E from \in Slot : v = MoveList(w, now, from))
  BY CascadeSource
<1> HIDE DEF now, v
<1>2. CASE v = w
  BY <1>2 DEF v, now
<1>3. CASE \E from \in Slot : v = MoveList(w, now, from)
  <2>1. PICK from \in Slot : v = MoveList(w, now, from)
    BY <1>3
  <2>2. Distinct(MoveList(w, now, from)) /\ Ordered(MoveList(w, now, from), o)
    BY <1>1, MoveListDistinct, MoveListOrdered
  <2> QED BY <2>1, <2>2 DEF v, now
<1> QED BY <1>1, <1>2, <1>3

\* Once, with positions instead of nodes.
LEMMA OnceIs ==
    Once <=> /\ Distinct(wheel)
             /\ \A i, j \in DOMAIN current : current[i].session = current[j].session => i = j
             /\ \A i \in DOMAIN current, s \in Slot : \A j \in DOMAIN wheel[s] :
                   wheel[s][j].session # current[i].session
BY DEF Once, Distinct, Nodes

\* What Once says of the next state, list by list.
LEMMA OnceNext ==
    ASSUME Distinct(wheel'),
           \A i, j \in DOMAIN current' : current'[i].session = current'[j].session => i = j,
           \A i \in DOMAIN current', s \in Slot : \A j \in DOMAIN wheel'[s] :
              wheel'[s][j].session # current'[i].session
    PROVE  Once'
BY DEF Once, Distinct, Nodes

\* A tick.
LEMMA ShiftLists ==
    ASSUME TimerInv, ListInv, Shift(wheel), current = <<>>, UNCHANGED older
    PROVE  ListInv'
<1> DEFINE now == (time + 1) % MaxTime
           v == Cascade(wheel, now)
<1>1. /\ TypeOK /\ time \in Time /\ wheel \in Wheel
      /\ left \in [Session -> 0..MaxDelay] /\ older \in [Session -> SUBSET Session]
  BY WheelTyped DEF TimerInv
<1>2. /\ now \in Time
      /\ \A s \in Slot : wheel'[s] = IF s = Due(now) THEN <<>> ELSE v[s]
      /\ current' = v[Due(now)]
      /\ left' = [s \in Session |-> IF left[s] > 0 THEN left[s] - 1 ELSE 0]
  BY <1>1, ShiftEffect
<1>3. Distinct(v) /\ Ordered(v, older)
  <2>1. Distinct(wheel) /\ Ordered(wheel, older) /\ Together(wheel, older)
    BY OnceIs, OlderTogether DEF ListInv
  <2> QED BY <1>1, <2>1, CascadeLists
<1>4. Due(now) \in Slot
  BY <1>2, DueSlot
<1> HIDE DEF now, v
<1>5. ASSUME NEW s \in Slot, NEW i \in DOMAIN wheel'[s]
      PROVE  s # Due(now) /\ wheel'[s] = v[s] /\ i \in DOMAIN v[s]
  <2>1. DOMAIN <<>> = {}
    OBVIOUS
  <2> QED BY <1>2, <2>1
<1>6. Once'
  <2>1. Distinct(wheel')
    BY <1>3, <1>5 DEF Distinct
  <2>2. \A i, j \in DOMAIN current' : current'[i].session = current'[j].session => i = j
    BY <1>2, <1>3, <1>4 DEF Distinct
  <2>3. \A i \in DOMAIN current', s \in Slot : \A j \in DOMAIN wheel'[s] :
           wheel'[s][j].session # current'[i].session
    BY <1>2, <1>3, <1>4, <1>5 DEF Distinct
  <2> QED BY <2>1, <2>2, <2>3, OnceNext
<1>7. SetOrder'
  BY <1>2, <1>3, <1>4 DEF SetOrder, Ordered
<1>8. Ordered(wheel, older)'
  <2> SUFFICES ASSUME NEW s \in Slot, NEW i \in DOMAIN wheel'[s], NEW j \in DOMAIN wheel'[s], i < j
               PROVE  wheel'[s][j].session \notin older[wheel'[s][i].session]
    BY DEF Ordered
  <2> QED BY <1>3, <1>5 DEF Ordered
<1>9. OlderInv'
  <2> SUFFICES ASSUME NEW s \in Session, NEW r \in older[s]
               PROVE  r \in Pending' /\ s \in Pending' /\ left'[r] = left'[s]
    BY DEF OlderInv
  <2>1. r \in Pending /\ s \in Pending /\ left[r] = left[s] /\ r \in Session
    BY <1>1 DEF ListInv, OlderInv
  <2>2. left'[r] = left'[s]
    BY <1>2, <2>1
  <2> QED BY <2>1, <2>2, ShiftKeeps
<1> QED BY <1>6, <1>7, <1>8, <1>9 DEF ListInv

\* What is pending is a session.
LEMMA PendingTyped ==
    ASSUME TypeOK
    PROVE  \A r \in Pending : r \in Session
<1>1. \A r \in Slot : \A i \in DOMAIN wheel[r] : wheel[r][i].session \in Session
  BY NodeTyped DEF TypeOK
<1>2. \A i \in DOMAIN current : current[i].session \in Session
  BY NodeTyped DEF TypeOK
<1> QED BY <1>1, <1>2, PendingNodes

\* timer_add adds one timeout and ends none.
LEMMA TimeoutKeeps ==
    ASSUME TimerInv, NEW s \in Session, NEW delay \in 1..MaxDelay, Timeout(s, delay)
    PROVE  s \in Pending' /\ \A r \in Pending : r \in Pending'
<1> DEFINE x == (time + delay) % MaxTime
           slot == SlotOf(time, x)
           node == [session |-> s, expire |-> x]
<1>1. TypeOK /\ wheel \in Wheel
  BY WheelTyped DEF TimerInv
<1>2. /\ slot \in Slot /\ node \in Node
      /\ wheel'[slot] = Append(wheel[slot], node)
      /\ \A r \in Slot : r # slot => wheel'[r] = wheel[r]
  BY <1>1, TimeoutEffect
<1>3. current' = current /\ node.session = s
  BY DEF Timeout
<1> HIDE DEF x, slot, node
<1>4. /\ \A i \in DOMAIN wheel[slot] : i \in DOMAIN wheel'[slot] /\ wheel'[slot][i] = wheel[slot][i]
      /\ \E i \in DOMAIN wheel'[slot] : wheel'[slot][i] = node
  <2> DEFINE l == wheel[slot]
  <2>1. l \in Seq(Node)
    BY <1>1, <1>2 DEF Wheel
  <2> HIDE DEF l
  <2>2. /\ Len(l) \in Nat /\ DOMAIN l = 1..Len(l) /\ DOMAIN Append(l, node) = 1..Len(l) + 1
        /\ \A i \in DOMAIN l : Append(l, node)[i] = l[i]
        /\ Append(l, node)[Len(l) + 1] = node
    BY <1>2, <2>1, AppendFacts
  <2>3. Len(l) + 1 \in DOMAIN Append(l, node) /\ \A i \in DOMAIN l : i \in DOMAIN Append(l, node)
    BY <2>2
  <2> QED BY <1>2, <2>2, <2>3 DEF l
<1>5. s \in Pending'
  BY <1>2, <1>3, <1>4, PendingNext
<1>6. ASSUME NEW r \in Pending PROVE r \in Pending'
  <2>1. CASE \E i \in DOMAIN current : current[i].session = r
    BY <1>3, <2>1, PendingNext
  <2>2. CASE \E q \in Slot : \E i \in DOMAIN wheel[q] : wheel[q][i].session = r
    <3>1. PICK q \in Slot : \E i \in DOMAIN wheel[q] : wheel[q][i].session = r
      BY <2>2
    <3>2. PICK i \in DOMAIN wheel[q] : wheel[q][i].session = r
      BY <3>1
    <3>3. i \in DOMAIN wheel'[q] /\ wheel'[q][i].session = r
      BY <1>2, <1>4, <3>2
    <3> QED BY <3>3, PendingNext
  <2> QED BY <1>1, <2>1, <2>2, PendingNodes
<1> QED BY <1>5, <1>6

\* A new node comes to the end of its list, behind the older ones of its tick.
LEMMA TimeoutLists ==
    ASSUME TimerInv, ListInv, NEW s \in Session \ Pending, NEW delay \in 1..MaxDelay,
           Timeout(s, delay)
    PROVE  ListInv'
<1> DEFINE x == (time + delay) % MaxTime
           slot == SlotOf(time, x)
           node == [session |-> s, expire |-> x]
<1>1. /\ TypeOK /\ wheel \in Wheel
      /\ left \in [Session -> 0..MaxDelay] /\ older \in [Session -> SUBSET Session]
  BY WheelTyped DEF TimerInv
<1>2. /\ slot \in Slot
      /\ \A r \in Slot : \A i \in DOMAIN wheel'[r] :
            \/ i \in DOMAIN wheel[r] /\ wheel'[r][i] = wheel[r][i]
            \/ r = slot /\ i = Len(wheel[slot]) + 1 /\ wheel'[r][i] = node
  BY <1>1, TimeoutEffect
<1>3. /\ left' = [left EXCEPT ![s] = delay]
      /\ older' = [older EXCEPT ![s] = {r \in Pending : left[r] = delay}]
      /\ current' = current /\ node.session = s
  BY DEF Timeout
<1> HIDE DEF x, slot, node
<1>4. \A r \in Pending : r \in Session /\ r # s
  BY <1>1, PendingTyped
<1>5. /\ \A r \in Session : r # s => left'[r] = left[r] /\ older'[r] = older[r]
      /\ left'[s] = delay /\ older'[s] = {r \in Pending : left[r] = delay}
  BY <1>1, <1>3
<1>6. /\ \A r \in Slot : \A i \in DOMAIN wheel[r] : wheel[r][i].session \in Pending
      /\ \A i \in DOMAIN current : current[i].session \in Pending
  BY <1>1, PendingNodes
<1>7. /\ Distinct(wheel)
      /\ \A i, j \in DOMAIN current : current[i].session = current[j].session => i = j
      /\ \A i \in DOMAIN current, r \in Slot : \A j \in DOMAIN wheel[r] :
            wheel[r][j].session # current[i].session
  BY OnceIs DEF ListInv
<1>8. Once'
  <2>1. Distinct(wheel')
    <3> SUFFICES ASSUME NEW p \in Slot, NEW q \in Slot,
                        NEW i \in DOMAIN wheel'[p], NEW j \in DOMAIN wheel'[q],
                        wheel'[p][i].session = wheel'[q][j].session
                 PROVE  p = q /\ i = j
      BY DEF Distinct
    <3>1. \/ i \in DOMAIN wheel[p] /\ wheel'[p][i] = wheel[p][i]
          \/ p = slot /\ i = Len(wheel[slot]) + 1 /\ wheel'[p][i] = node
      BY <1>2
    <3>2. \/ j \in DOMAIN wheel[q] /\ wheel'[q][j] = wheel[q][j]
          \/ q = slot /\ j = Len(wheel[slot]) + 1 /\ wheel'[q][j] = node
      BY <1>2
    <3> QED BY <1>3, <1>4, <1>6, <1>7, <3>1, <3>2 DEF Distinct
  <2>2. \A i, j \in DOMAIN current' : current'[i].session = current'[j].session => i = j
    BY <1>3, <1>7
  <2>3. ASSUME NEW i \in DOMAIN current', NEW r \in Slot, NEW j \in DOMAIN wheel'[r]
        PROVE  wheel'[r][j].session # current'[i].session
    <3>1. current'[i].session \in Pending /\ i \in DOMAIN current /\ current' = current
      BY <1>3, <1>6
    <3> QED BY <1>2, <1>3, <1>4, <1>7, <3>1
  <2> QED BY <2>1, <2>2, <2>3, OnceNext
<1>9. SetOrder'
  <2> SUFFICES ASSUME NEW i \in DOMAIN current, NEW j \in DOMAIN current, i < j
               PROVE  current[j].session \notin older'[current[i].session]
    BY <1>3 DEF SetOrder
  <2>1. older'[current[i].session] = older[current[i].session]
    BY <1>4, <1>5, <1>6
  <2> QED BY <2>1 DEF ListInv, SetOrder
<1>10. \A r \in Pending : s \notin older[r]
  BY <1>4 DEF ListInv, OlderInv
<1>11. Ordered(wheel, older)'
  <2> SUFFICES ASSUME NEW r \in Slot, NEW i \in DOMAIN wheel'[r], NEW j \in DOMAIN wheel'[r], i < j
               PROVE  wheel'[r][j].session \notin older'[wheel'[r][i].session]
    BY DEF Ordered
  <2>1. CASE i \in DOMAIN wheel[r] /\ wheel'[r][i] = wheel[r][i]
    <3>1. wheel[r][i].session \in Pending
      BY <1>6, <2>1
    <3>2. older'[wheel'[r][i].session] = older[wheel[r][i].session]
      BY <1>4, <1>5, <2>1, <3>1
    <3>3. CASE j \in DOMAIN wheel[r] /\ wheel'[r][j] = wheel[r][j]
      BY <2>1, <3>2, <3>3 DEF ListInv, Ordered
    <3>4. CASE wheel'[r][j] = node
      BY <1>3, <1>10, <3>1, <3>2, <3>4
    <3> QED BY <1>2, <3>3, <3>4
  <2>2. CASE r = slot /\ i = Len(wheel[slot]) + 1
    <3>1. Len(wheel[slot]) \in Nat /\ DOMAIN wheel[slot] = 1..Len(wheel[slot])
      BY <1>1, <1>2, LenProperties DEF Wheel
    <3>2. j \in DOMAIN wheel[slot] \/ j = Len(wheel[slot]) + 1
      BY <1>2, <2>2
    <3> QED BY <2>2, <3>1, <3>2
  <2> QED BY <1>2, <2>1, <2>2
<1>12. OlderInv'
  <2> SUFFICES ASSUME NEW q \in Session, NEW r \in older'[q]
               PROVE  r \in Pending' /\ q \in Pending' /\ left'[r] = left'[q]
    BY DEF OlderInv
  <2>1. s \in Pending' /\ \A p \in Pending : p \in Pending'
    BY TimeoutKeeps
  <2>2. CASE q = s
    BY <1>4, <1>5, <2>1, <2>2
  <2>3. CASE q # s
    <3>1. r \in Pending /\ q \in Pending /\ left[r] = left[q]
      BY <1>5, <2>3 DEF ListInv, OlderInv
    <3> QED BY <1>4, <1>5, <2>1, <3>1
  <2> QED BY <2>2, <2>3
<1> QED BY <1>8, <1>9, <1>11, <1>12 DEF ListInv

\* dispatch_list hands its first node over; the others move up.
LEMMA DispatchEffect ==
    ASSUME TypeOK, Dispatch
    PROVE  /\ current # <<>> /\ current \in Seq(Node)
           /\ Head(current) = current[1] /\ 1 \in DOMAIN current
           /\ \A i \in DOMAIN current' : i + 1 \in DOMAIN current /\ current'[i] = current[i + 1]
           /\ \A i \in DOMAIN current : i # 1 => i - 1 \in DOMAIN current' /\ current'[i - 1] = current[i]
           /\ \A i \in DOMAIN current : i \in Nat
           /\ \A i \in DOMAIN current' : i \in Nat
           /\ UNCHANGED <<time, wheel, pc, diff, left>>
           /\ older' = [s \in Session |->
                     IF s = Head(current).session THEN {} ELSE older[s] \ {Head(current).session}]
<1>1. current # <<>> /\ current \in Seq(Node) /\ current' = Tail(current)
  BY DEF Dispatch, TypeOK
<1>2. /\ Tail(current) \in Seq(Node) /\ Len(Tail(current)) = Len(current) - 1
      /\ \A i \in 1..Len(Tail(current)) : Tail(current)[i] = current[i + 1]
  BY <1>1, HeadTailProperties
<1>3. /\ DOMAIN current' = 1..Len(current) - 1
      /\ DOMAIN current = 1..Len(current) /\ Len(current) \in Nat /\ Len(current) # 0
  BY <1>1, <1>2, LenProperties, EmptySeq
<1>4. Head(current) = current[1] /\ 1 \in DOMAIN current
  BY <1>1, <1>3
<1> DEFINE n == Len(current)
<1>5. \A i \in 1..n - 1 : current'[i] = current[i + 1]
  BY <1>1, <1>2
<1>6. /\ DOMAIN current' = 1..n - 1 /\ DOMAIN current = 1..n /\ n \in Nat
  BY <1>3
<1> HIDE DEF n
<1>7. \A i \in DOMAIN current' : i + 1 \in DOMAIN current /\ current'[i] = current[i + 1]
  BY <1>5, <1>6
<1>8. ASSUME NEW i \in DOMAIN current, i # 1
      PROVE  i - 1 \in DOMAIN current' /\ current'[i - 1] = current[i]
  <2>1. i - 1 \in 1..n - 1 /\ (i - 1) + 1 = i
    BY <1>6, <1>8
  <2> QED BY <1>5, <1>6, <2>1
<1>9. /\ \A i \in DOMAIN current : i \in Nat
      /\ \A i \in DOMAIN current' : i \in Nat
  BY <1>6
<1> QED BY <1>1, <1>4, <1>7, <1>8, <1>9 DEF Dispatch

\* Only the timeout that is handed over ends.
LEMMA DispatchKeeps ==
    ASSUME TypeOK, Dispatch
    PROVE  \A r \in Pending : r # Head(current).session => r \in Pending'
<1> SUFFICES ASSUME NEW r \in Pending, r # Head(current).session PROVE r \in Pending'
  OBVIOUS
<1>1. CASE \E s \in Slot : \E i \in DOMAIN wheel[s] : wheel[s][i].session = r
  <2>1. wheel' = wheel
    BY DEF Dispatch
  <2> QED BY <1>1, <2>1, PendingNext
<1>2. CASE \E i \in DOMAIN current : current[i].session = r
  <2>1. PICK i \in DOMAIN current : current[i].session = r
    BY <1>2
  <2>2. i - 1 \in DOMAIN current' /\ current'[i - 1] = current[i]
    BY <2>1, DispatchEffect
  <2> QED BY <2>1, <2>2, PendingNext
<1> QED BY <1>1, <1>2, PendingNodes

\* The head of the list goes; it had none older than itself.
LEMMA DispatchLists ==
    ASSUME TimerInv, ListInv, Dispatch
    PROVE  ListInv'
<1> DEFINE h == Head(current).session
<1>1. /\ TypeOK /\ wheel \in Wheel /\ older \in [Session -> SUBSET Session]
  BY WheelTyped DEF TimerInv
<1>2. /\ \A i \in DOMAIN current' : i + 1 \in DOMAIN current /\ current'[i] = current[i + 1]
      /\ \A i \in DOMAIN current' : i \in Nat
      /\ wheel' = wheel /\ left' = left
      /\ older' = [s \in Session |-> IF s = h THEN {} ELSE older[s] \ {h}]
  BY <1>1, DispatchEffect
<1> HIDE DEF h
<1>3. \A s \in Session : \A r \in older'[s] : r \in older[s] /\ r # h /\ s # h
  BY <1>2
<1>4. /\ Distinct(wheel)
      /\ \A i, j \in DOMAIN current : current[i].session = current[j].session => i = j
      /\ \A i \in DOMAIN current, r \in Slot : \A j \in DOMAIN wheel[r] :
            wheel[r][j].session # current[i].session
  BY OnceIs DEF ListInv
<1>5. Once'
  <2>1. Distinct(wheel')
    BY <1>2, <1>4
  <2>2. ASSUME NEW i \in DOMAIN current', NEW j \in DOMAIN current',
               current'[i].session = current'[j].session
        PROVE  i = j
    <3>1. i + 1 = j + 1
      BY <1>2, <1>4, <2>2
    <3> QED BY <1>2, <3>1
  <2>3. \A i \in DOMAIN current', s \in Slot : \A j \in DOMAIN wheel'[s] :
           wheel'[s][j].session # current'[i].session
    BY <1>2, <1>4
  <2> QED BY <2>1, <2>2, <2>3, OnceNext
<1>6. SetOrder'
  <2> SUFFICES ASSUME NEW i \in DOMAIN current', NEW j \in DOMAIN current', i < j
               PROVE  current'[j].session \notin older'[current'[i].session]
    BY DEF SetOrder
  <2>1. i + 1 \in DOMAIN current /\ j + 1 \in DOMAIN current /\ i + 1 < j + 1
    BY <1>2
  <2>2. current[j + 1].session \notin older[current[i + 1].session]
    BY <2>1 DEF ListInv, SetOrder
  <2>3. current[i + 1].session \in Session
    BY <1>1, <2>1, NodeTyped DEF TypeOK
  <2> QED BY <1>2, <1>3, <2>2, <2>3
<1>7. Ordered(wheel, older)'
  <2> SUFFICES ASSUME NEW s \in Slot, NEW i \in DOMAIN wheel[s], NEW j \in DOMAIN wheel[s], i < j
               PROVE  wheel[s][j].session \notin older'[wheel[s][i].session]
    BY <1>2 DEF Ordered
  <2>1. wheel[s][i].session \in Session
    BY <1>1, NodeTyped DEF Wheel
  <2>2. wheel[s][j].session \notin older[wheel[s][i].session]
    BY DEF ListInv, Ordered
  <2> QED BY <1>3, <2>1, <2>2
<1>8. OlderInv'
  <2> SUFFICES ASSUME NEW s \in Session, NEW r \in older'[s]
               PROVE  r \in Pending' /\ s \in Pending' /\ left'[r] = left'[s]
    BY DEF OlderInv
  <2>1. r \in Pending /\ s \in Pending /\ left[r] = left[s] /\ r # h /\ s # h
    BY <1>3 DEF ListInv, OlderInv
  <2> QED BY <1>1, <1>2, <2>1, DispatchKeeps DEF h
<1> QED BY <1>5, <1>6, <1>7, <1>8 DEF ListInv

\* The empty wheel.
LEMMA ListInit ==
    ASSUME Init
    PROVE  ListInv
<1>1. \A s \in Slot : DOMAIN wheel[s] = {}
  BY DEF Init
<1>2. DOMAIN current = {} /\ \A s \in Session : older[s] = {}
  BY DEF Init
<1>3. Once
  BY <1>1, <1>2, OnceIs DEF Distinct
<1> QED BY <1>1, <1>2, <1>3 DEF ListInv, SetOrder, OlderInv, Ordered

\* A step that touches no list.
LEMMA ListSame ==
    ASSUME ListInv, UNCHANGED <<wheel, current, left, older>>
    PROVE  ListInv'
<1>1. Pending' = Pending
  BY DEF Pending, Nodes
<1>2. Once' /\ SetOrder' /\ Ordered(wheel, older)'
  BY DEF ListInv, Once, SetOrder, Ordered, Nodes
<1>3. OlderInv'
  BY <1>1 DEF ListInv, OlderInv
<1> QED BY <1>2, <1>3 DEF ListInv

\* What a step of the timer thread is, the rare condition set aside.
LEMMA StepKinds ==
    ASSUME TimerInv, [Next]_vars
    PROVE  \/ Shift(wheel) /\ current = <<>> /\ UNCHANGED older
           \/ Dispatch
           \/ \E s \in Session \ Pending, delay \in 1..MaxDelay : Timeout(s, delay)
           \/ UNCHANGED <<wheel, current, left, older>>
<1>1. CASE TimerUpdate
  BY <1>1, DueEmpty DEF TimerUpdate, TimerInv, PhaseInv
<1>2. CASE Relock
  BY <1>2, DueEmpty DEF Relock
<1>3. CASE \E d \in 1..MaxDiff : UpdateTime(d)
  BY <1>3 DEF UpdateTime
<1>4. CASE UNCHANGED vars
  BY <1>4 DEF vars
<1> QED BY <1>1, <1>2, <1>3, <1>4 DEF Next, TimerThread

\* Every step preserves the invariant of the lists.
LEMMA ListStep ==
    ASSUME TimerInv, ListInv, [Next]_vars
    PROVE  ListInv'
<1>1. CASE Shift(wheel) /\ current = <<>> /\ UNCHANGED older
  BY <1>1, ShiftLists
<1>2. CASE Dispatch
  BY <1>2, DispatchLists
<1>3. CASE \E s \in Session \ Pending, delay \in 1..MaxDelay : Timeout(s, delay)
  BY <1>3, TimeoutLists
<1>4. CASE UNCHANGED <<wheel, current, left, older>>
  BY <1>4, ListSame
<1> QED BY <1>1, <1>2, <1>3, <1>4, StepKinds

-----------------------------------------------------------------------------
(* Theorems                                                                *)

\* The timing wheel keeps TimerInv, for all shifts and numbers of levels.
THEOREM TimerInductive == Spec => []TimerInv
<1>1. Init => TimerInv
  BY InitTimer
<1>2. TimerInv /\ [Next]_vars => TimerInv'
  BY TimerStep
<1> QED BY <1>1, <1>2, PTL DEF Spec

\* The counter stays within its width, every node is in a slot of the wheel,
\* and the ticks to make up for never become negative.
THEOREM TimerTypes == Spec => []TypeOK
<1>1. TimerInv => TypeOK
  BY DEF TimerInv
<1> QED BY <1>1, TimerInductive, PTL

\* Every node is in the slot that timer_shift will look in when its block
\* begins, across cascades and the wrap of the counter.
THEOREM NodesInPlace == Spec => []InPlace
<1>1. ASSUME TimerInv PROVE InPlace
  <2> SUFFICES ASSUME NEW s \in Slot, NEW n \in Nodes(wheel[s])
               PROVE  LET k == s[1] IN
                      /\ Digit(n.expire, k) = s[2]
                      /\ \/ k < Levels /\ Block(n.expire, k) = Block(time, k) /\ s[2] > Digit(time, k)
                         \/ k = Levels /\ s[2] # Digit(time, k)
    BY DEF InPlace
  <2>1. PICK i \in DOMAIN wheel[s] : n = wheel[s][i]
    BY DEF Nodes
  <2>2. Placed(n.expire, s, time)
    BY <1>1, <2>1 DEF TimerInv, PlaceInv
  <2> QED BY <2>2 DEF Placed
<1> QED BY <1>1, TimerInductive, PTL

\* A timeout is dispatched in the tick it was set for: what is dispatched has
\* no tick left, what is in the wheel has at least one.
THEOREM FiresOnTime == Spec => []OnTime
<1>1. ASSUME TimerInv PROVE OnTime
  <2>1. ASSUME NEW n \in Nodes(current) PROVE left[n.session] = 0
    BY <1>1 DEF TimerInv, RunOut, Nodes
  <2>2. ASSUME NEW s \in Slot, NEW n \in Nodes(wheel[s]) PROVE left[n.session] > 0
    <3>1. PICK i \in DOMAIN wheel[s] : n = wheel[s][i]
      BY DEF Nodes
    <3>2. time \in Time /\ wheel \in Wheel /\ left \in [Session -> 0..MaxDelay]
      BY <1>1, WheelTyped DEF TimerInv
    <3>3. n.expire = (time + left[n.session]) % MaxTime /\ Placed(n.expire, s, time)
      BY <1>1, <3>1 DEF TimerInv, DueInv, PlaceInv
    <3>4. n.expire # time /\ n.session \in Session
      BY <3>1, <3>2, <3>3, PlacedNotNow, NodeTyped DEF Wheel
    <3>5. left[n.session] \in 0..MaxDelay /\ left[n.session] # 0
      <4>1. \A m \in Nat : \A t \in 0..m - 1 : (t + 0) % m = t
        OBVIOUS
      <4> QED BY <3>2, <3>3, <3>4, <4>1, TimeBound DEF Time
    <3> QED BY <3>5, TimeBound DEF MaxDelay
  <2> QED BY <2>1, <2>2 DEF OnTime
<1> QED BY <1>1, TimerInductive, PTL

\* The lists of the wheel keep ListInv.
THEOREM ListsInductive == Spec => []ListInv
<1>1. Init => ListInv
  BY ListInit
<1>2. TimerInv /\ ListInv /\ [Next]_vars => ListInv'
  BY ListStep
<1> QED BY <1>1, <1>2, TimerInductive, PTL DEF Spec

\* A timeout is in one list, once: neither move_list nor the dispatch without
\* the lock doubles a node.
THEOREM InOneList == Spec => []Once
<1>1. ListInv => Once
  BY DEF ListInv
<1> QED BY <1>1, ListsInductive, PTL

\* Timeouts of one tick are dispatched in the order they were set, whether
\* they came to the slot by cascades or directly.
THEOREM DispatchedInOrder == Spec => []SetOrder
<1>1. ListInv => SetOrder
  BY DEF ListInv
<1> QED BY <1>1, ListsInductive, PTL

\* Nothing but its own dispatch ends a timeout: move_list, the wrap and the
\* lists taken out of the wheel lose no node.
THEOREM TimeoutsKept == Spec => NoneLost
<1>1. ASSUME TimerInv, [Next]_vars
      PROVE  [\A s \in Pending : s \in Pending' \/ (Dispatch /\ s = Head(current).session)]_vars
  <2>1. CASE Shift(wheel) /\ current = <<>> /\ UNCHANGED older
    BY <1>1, <2>1, ShiftKeeps
  <2>2. CASE Dispatch
    BY <1>1, <2>2, DispatchKeeps DEF TimerInv
  <2>3. CASE \E s \in Session \ Pending, delay \in 1..MaxDelay : Timeout(s, delay)
    BY <1>1, <2>3, TimeoutKeeps
  <2>4. CASE UNCHANGED <<wheel, current, left, older>>
    <3>1. Pending' = Pending
      BY <2>4 DEF Pending, Nodes
    <3> QED BY <3>1
  <2> QED BY <1>1, <2>1, <2>2, <2>3, <2>4, StepKinds
<1>2. TimerInv /\ [Next]_vars
        => [\A s \in Pending : s \in Pending' \/ (Dispatch /\ s = Head(current).session)]_vars
  BY <1>1
<1> QED BY <1>2, TimerInductive, PTL DEF Spec, NoneLost
=============================================================================
