--------------------------- MODULE OwArithProofs ---------------------------
(***************************************************************************)
(* Facts about ow_align_down, proved from the definition of the modulus:   *)
(* what the proofs about the passes need to know of rounding to sectors.   *)
(***************************************************************************)
EXTENDS OwArith, TLAPS

\* v is a whole number of sectors of s bytes.
Multiple(v, s) == \E k \in Nat : v = s * k

\* Division with remainder by a positive sector size.
LEMMA ModFacts ==
  ASSUME NEW v \in Nat, NEW s \in Nat \ {0}
  PROVE  /\ v % s \in 0 .. s - 1
         /\ v \div s \in Nat
         /\ v = s * (v \div s) + (v % s)
BY SMT

\* Rounding down gives a whole number of sectors, less than one sector below.
LEMMA AlignDownFacts ==
  ASSUME NEW v \in Nat, NEW s \in Nat \ {0}
  PROVE  /\ AlignDown(v, s) \in Nat
         /\ AlignDown(v, s) <= v
         /\ v - AlignDown(v, s) < s
         /\ Multiple(AlignDown(v, s), s)
<1>1. AlignDown(v, s) = v - (v % s)
  BY DEF AlignDown
<1>2. AlignDown(v, s) = s * (v \div s)
  BY <1>1, ModFacts
<1>3. v % s \in 0 .. s - 1 /\ v \div s \in Nat
  BY ModFacts
<1>. HIDE DEF AlignDown
<1>4. AlignDown(v, s) \in Nat
  <2>1. ASSUME NEW q \in Nat PROVE s * q \in Nat
    OBVIOUS
  <2>. QED  BY <1>2, <1>3, <2>1
<1>5. Multiple(AlignDown(v, s), s)
  BY <1>2, <1>3 DEF Multiple
<1>. QED  BY <1>1, <1>3, <1>4, <1>5

\* There is only one such number.
LEMMA AlignUnique ==
  ASSUME NEW v \in Nat, NEW s \in Nat \ {0}, NEW m \in Nat,
         Multiple(m, s), m <= v, v - m < s
  PROVE  m = AlignDown(v, s)
<1>1. PICK j \in Nat : m = s * j
  BY DEF Multiple
<1>2. PICK k \in Nat : AlignDown(v, s) = s * k
  BY AlignDownFacts DEF Multiple
<1>3. /\ s * k \in Nat /\ s * k <= v /\ v - s * k < s
  BY <1>2, AlignDownFacts
<1>4. ~ (j < k)
  <2>. SUFFICES ASSUME j < k PROVE FALSE OBVIOUS
  <2>1. j + 1 <= k OBVIOUS
  <2>2. s * (j + 1) <= s * k BY <2>1
  <2>3. s * (j + 1) = s * j + s OBVIOUS
  <2>. QED BY <1>1, <1>3, <2>2, <2>3
<1>5. ~ (k < j)
  <2>. SUFFICES ASSUME k < j PROVE FALSE OBVIOUS
  <2>1. k + 1 <= j OBVIOUS
  <2>2. s * (k + 1) <= s * j BY <2>1
  <2>3. s * (k + 1) = s * k + s OBVIOUS
  <2>. QED BY <1>1, <1>3, <2>2, <2>3
<1>. QED BY <1>1, <1>2, <1>4, <1>5

\* A multiple of s is what the code tests for with "% s == 0".
LEMMA MultipleMod ==
  ASSUME NEW v \in Nat, NEW s \in Nat \ {0}
  PROVE  Multiple(v, s) <=> v % s = 0
<1>1. v % s = 0 => Multiple(v, s)
  <2>. SUFFICES ASSUME v % s = 0 PROVE Multiple(v, s)
    OBVIOUS
  <2>1. v = s * (v \div s) /\ v \div s \in Nat
    BY ModFacts
  <2>. QED  BY <2>1 DEF Multiple
<1>2. Multiple(v, s) => v % s = 0
  <2>. SUFFICES ASSUME Multiple(v, s) PROVE v % s = 0
    OBVIOUS
  <2>1. v = AlignDown(v, s)
    BY AlignUnique
  <2>2. AlignDown(v, s) = v - (v % s)
    BY DEF AlignDown
  <2>. QED  BY <2>1, <2>2, ModFacts
<1>. QED  BY <1>1, <1>2

\* Sums and differences of multiples of s are multiples of s.
LEMMA MultipleAdd ==
  ASSUME NEW s \in Nat \ {0}, NEW a \in Nat, NEW b \in Nat,
         Multiple(a, s), Multiple(b, s)
  PROVE  Multiple(a + b, s)
<1>1. PICK j \in Nat : a = s * j
  BY DEF Multiple
<1>2. PICK k \in Nat : b = s * k
  BY DEF Multiple
<1>3. a + b = s * (j + k) /\ j + k \in Nat
  BY <1>1, <1>2
<1>. QED  BY <1>3 DEF Multiple

\* The difference of two multiples of s is one.
LEMMA MultipleSub ==
  ASSUME NEW s \in Nat \ {0}, NEW a \in Nat, NEW b \in Nat,
         Multiple(a, s), Multiple(b, s), b <= a
  PROVE  Multiple(a - b, s)
<1>1. PICK j \in Nat : a = s * j
  BY DEF Multiple
<1>2. PICK k \in Nat : b = s * k
  BY DEF Multiple
<1>3. k <= j
  <2>. SUFFICES ASSUME j < k PROVE FALSE
    OBVIOUS
  <2>1. j + 1 <= k
    OBVIOUS
  <2>2. s * (j + 1) <= s * k
    BY <2>1
  <2>3. s * (j + 1) = s * j + s
    OBVIOUS
  <2>. QED  BY <1>1, <1>2, <2>2, <2>3
<1>4. a - b = s * (j - k) /\ j - k \in Nat
  BY <1>1, <1>2, <1>3
<1>. QED  BY <1>4 DEF Multiple

\* So is n copies of one.
LEMMA MultipleProduct ==
  ASSUME NEW s \in Nat \ {0}, NEW a \in Nat, NEW n \in Nat, Multiple(a, s)
  PROVE  Multiple(n * a, s)
<1>1. PICK j \in Nat : a = s * j
  BY DEF Multiple
<1>2. n * a = s * (n * j) /\ n * j \in Nat
  BY <1>1
<1>. QED  BY <1>2 DEF Multiple

\* A multiple of s that is positive is at least s.
LEMMA MultipleAtLeast ==
  ASSUME NEW s \in Nat \ {0}, NEW a \in Nat \ {0}, Multiple(a, s)
  PROVE  s <= a
<1>1. PICK j \in Nat : a = s * j
  BY DEF Multiple
<1>2. j >= 1
  BY <1>1
<1>. QED  BY <1>1, <1>2

\* Cutting a rounded piece off a range and rounding what is left loses
\* nothing: the pieces add up to the rounded range.
LEMMA AlignDownRest ==
  ASSUME NEW s \in Nat \ {0}, NEW v \in Nat, NEW c \in Nat,
         Multiple(c, s), c <= v
  PROVE  c + AlignDown(v - c, s) = AlignDown(v, s)
<1>. DEFINE r == AlignDown(v - c, s)
<1>1. v - c \in Nat
  OBVIOUS
<1>2. /\ r \in Nat /\ r <= v - c /\ (v - c) - r < s /\ Multiple(r, s)
  BY <1>1, AlignDownFacts
<1>. HIDE DEF r
<1>3. Multiple(c + r, s)
  BY <1>2, MultipleAdd
<1>. QED  BY <1>2, <1>3, AlignUnique

\* Rounding down what holds at least one sector leaves at least one.
LEMMA AlignDownPositive ==
  ASSUME NEW s \in Nat \ {0}, NEW v \in Nat, s <= v
  PROVE  AlignDown(v, s) > 0
BY AlignDownFacts

\* Rounding down keeps the order.
LEMMA AlignDownMono ==
  ASSUME NEW s \in Nat \ {0}, NEW v \in Nat, NEW w \in Nat, v <= w
  PROVE  AlignDown(v, s) <= AlignDown(w, s)
<1>. DEFINE a == AlignDown(v, s)
            b == AlignDown(w, s)
<1>1. /\ a \in Nat /\ a <= v /\ Multiple(a, s)
      /\ b \in Nat /\ w - b < s /\ Multiple(b, s)
  BY AlignDownFacts
<1>. HIDE DEF a, b
<1>2. ~(b < a)
  <2>. SUFFICES ASSUME b < a PROVE FALSE
    OBVIOUS
  <2>1. a - b \in Nat \ {0} /\ Multiple(a - b, s)
    BY <1>1, MultipleSub
  <2>2. s <= a - b
    BY <2>1, MultipleAtLeast
  <2>. QED  BY <1>1, <2>2
<1>. QED  BY <1>1, <1>2 DEF a, b

\* Rounding the sum of a whole number of sectors and another number.
LEMMA AlignDownSum ==
  ASSUME NEW s \in Nat \ {0}, NEW o \in Nat, NEW l \in Nat, Multiple(o, s)
  PROVE  o + AlignDown(l, s) = AlignDown(o + l, s)
<1>1. o + l \in Nat /\ o <= o + l /\ (o + l) - o = l
  OBVIOUS
<1>. QED  BY <1>1, AlignDownRest

\* Rounding down leaves a whole number of sectors alone.
LEMMA AlignDownWhole ==
  ASSUME NEW s \in Nat \ {0}, NEW v \in Nat, Multiple(v, s)
  PROVE  AlignDown(v, s) = v
BY AlignUnique

\* Rounding up never loses anything, and leaves whole numbers of sectors alone.
LEMMA AlignUpFacts ==
  ASSUME NEW s \in Nat, NEW v \in Nat
  PROVE  /\ AlignUp(v, s) \in Nat /\ v <= AlignUp(v, s)
         /\ s # 0 /\ Multiple(v, s) => AlignUp(v, s) = v
         /\ s # 0 /\ ~Multiple(v, s) => v < AlignUp(v, s)
         /\ v = 0 => AlignUp(v, s) = 0
<1>1. CASE s = 0
  BY <1>1 DEF AlignUp
<1>2. CASE s # 0
  <2>1. v % s \in 0 .. s - 1
    BY <1>2, ModFacts
  <2>2. Multiple(v, s) <=> v % s = 0
    BY <1>2, MultipleMod
  <2>3. v = 0 => v % s = 0
    BY <1>2
  <2>. QED  BY <1>2, <2>1, <2>2, <2>3 DEF AlignUp
<1>. QED  BY <1>1, <1>2
=============================================================================
