---------------------------- MODULE IntegerLemmas ----------------------------
(***************************************************************************)
(* Facts about division, remainder and the conversions of CInteger that    *)
(* the proofs about the components cite, and the least number principle,   *)
(* which stands in for induction.                                          *)
(***************************************************************************)
EXTENDS CInteger, FiniteSetTheorems, WellFoundedInduction, TLAPS

\* Division with remainder, for a divisor that need not be a numeral.
LEMMA DivMod ==
    ASSUME NEW x \in Nat, NEW d \in Nat \ {0}
    PROVE  /\ x \div d \in Nat
           /\ x % d \in 0 .. d - 1
           /\ x = d * (x \div d) + (x % d)
OBVIOUS

\* A product of naturals grows with each factor.
LEMMA ProductMonotone ==
    ASSUME NEW a \in Nat, NEW b \in Nat, NEW r \in Nat, a <= b
    PROVE  /\ a * r \in Nat
           /\ b * r \in Nat
           /\ a * r <= b * r
           /\ r * a <= r * b
BY SMTT(30)

\* A quotient grows with the dividend.
LEMMA DivMonotone ==
    ASSUME NEW a \in Nat, NEW b \in Nat, NEW d \in Nat \ {0}, a <= b
    PROVE  a \div d <= b \div d
<1>1. /\ a = d * (a \div d) + (a % d)
      /\ a % d \in 0 .. d - 1
      /\ a \div d \in Nat
  BY DivMod
<1>2. /\ b = d * (b \div d) + (b % d)
      /\ b % d \in 0 .. d - 1
      /\ b \div d \in Nat
  BY DivMod
<1>3. SUFFICES ASSUME a \div d > b \div d PROVE FALSE
  BY <1>1, <1>2
<1>4. d * ((b \div d) + 1) <= d * (a \div d)
  BY <1>1, <1>2, <1>3, ProductMonotone
<1>5. QED
  BY <1>1, <1>2, <1>4

\* A quotient is below a natural where the dividend is below its product.
LEMMA DivBelow ==
    ASSUME NEW x \in Nat, NEW b \in Nat, NEW d \in Nat \ {0}
    PROVE  x \div d < b <=> x < b * d
<1>1. /\ x = d * (x \div d) + (x % d)
      /\ x % d \in 0 .. d - 1
      /\ x \div d \in Nat
  BY DivMod
<1> DEFINE q == x \div d
           r == x % d
<1> HIDE DEF q, r
<1>2. q \in Nat /\ r \in 0 .. d - 1 /\ x = d * q + r
  BY <1>1 DEF q, r
<1>3. ASSUME q < b PROVE x < b * d
  <2>1. (q + 1) * d <= b * d /\ (q + 1) * d = d * q + d
    BY <1>2, <1>3, ProductMonotone
  <2>2. QED
    BY <1>2, <2>1, ProductMonotone
<1>4. ASSUME b <= q PROVE b * d <= x
  <2>1. b * d <= q * d /\ q * d = d * q /\ d * q \in Nat /\ b * d \in Nat
    BY <1>2, <1>4, ProductMonotone
  <2>2. QED
    BY <1>2, <2>1
<1>5. q < b <=> x < b * d
  <2>1. b * d \in Nat
    BY ProductMonotone
  <2>2. QED
    BY <1>2, <1>3, <1>4, <2>1
<1>6. QED
  BY <1>5 DEF q

\* A natural below the modulus is its own remainder.
LEMMA SmallMod ==
    ASSUME NEW x \in Nat, NEW m \in Nat \ {0}, x < m
    PROVE  x % m = x
OBVIOUS

\* The conversions change no value that both types hold.
LEMMA AsIntSmall ==
    ASSUME NEW x \in 0 .. IntMax
    PROVE  AsInt(x) = x
<1>1. x % (2 * (IntMax + 1)) = x
  BY CIntegerAssumption, SmallMod
<1>2. QED
  BY <1>1, CIntegerAssumption DEF AsInt

LEMMA AsWordSmall ==
    ASSUME NEW x \in 0 .. IntMax
    PROVE  /\ AsWord(x) = x
           /\ x \in Word
BY CIntegerAssumption DEF AsWord, Word

\* Every non-empty set of naturals has a least element.  The intervals from
\* 0 to its elements are finite sets, on which inclusion is well-founded.
LEMMA LeastNumber ==
    ASSUME NEW S \in SUBSET Nat, S # {}
    PROVE  \E m \in S : \A n \in S : m <= n
<1> DEFINE T == {0 .. n : n \in S}
<1>1. T \subseteq FiniteSubsetsOf(Nat)
  <2>1. \A n \in S : IsFiniteSet(0 .. n) /\ 0 .. n \subseteq Nat
    BY FS_Interval
  <2>2. QED
    BY <2>1 DEF FiniteSubsetsOf
<1>2. T # {}
  OBVIOUS
<1>3. PICK x \in T : \A y \in T : ~ (<<y, x>> \in StrictSubsetOrdering(Nat))
  <2> HIDE DEF T
  <2>1. QED
    BY <1>1, <1>2, FS_StrictSubsetOrderingWellFounded, WFMin
<1>4. PICK m \in S : x = 0 .. m
  OBVIOUS
<1>5. ASSUME NEW n \in S PROVE m <= n
  <2>1. SUFFICES ASSUME n < m PROVE FALSE
    OBVIOUS
  <2>2. 0 .. n \subseteq 0 .. m /\ m \in 0 .. m /\ m \notin 0 .. n
    BY <2>1
  <2>3. <<0 .. n, 0 .. m>> \in StrictSubsetOrdering(Nat)
    BY <2>2 DEF StrictSubsetOrdering
  <2>4. QED
    BY <1>3, <1>4, <2>3
<1>6. QED
  BY <1>5

\* Every bounded one has a greatest element.
LEMMA GreatestNumber ==
    ASSUME NEW S \in SUBSET Nat, S # {}, \E bound \in Nat : S \subseteq 0 .. bound
    PROVE  \E m \in S : \A n \in S : n <= m
<1>0. PICK bound \in Nat : S \subseteq 0 .. bound
  OBVIOUS
<1> DEFINE T == {bound - n : n \in S}
<1>1. T \in SUBSET Nat /\ T # {}
  <2>1. \A n \in S : bound - n \in Nat
    BY <1>0
  <2>2. PICK n \in S : TRUE
    OBVIOUS
  <2>3. bound - n \in T
    BY <2>2
  <2>4. QED
    BY <2>1, <2>3
<1>2. PICK t \in T : \A u \in T : t <= u
  <2> HIDE DEF T
  <2>1. QED
    BY <1>1, LeastNumber
<1>3. PICK m \in S : t = bound - m
  OBVIOUS
<1>4. ASSUME NEW n \in S PROVE n <= m
  <2>1. bound - m <= bound - n
    BY <1>2, <1>3
  <2>2. m \in Nat /\ n \in Nat
    OBVIOUS
  <2>3. QED
    BY <2>1, <2>2
<1>5. QED
  BY <1>4
=============================================================================
