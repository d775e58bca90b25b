-------------------------- MODULE GrayCode_proofs ---------------------------
(***************************************************************************)
(* What makes a Gray code fit to cross a clock boundary, for every width:  *)
(* no two numbers share a code; half a ring ahead is the code with its top *)
(* two bits inverted; a step of one, caught in flight, shows the old code  *)
(* or the new one; and a code computed by gates, caught in transition,     *)
(* reads right above the carry. The provers know nothing of powers of two, *)
(* so that their first values are a hypothesis, which the modules that use *)
(* these lemmas assume and TLC evaluates.                                  *)
(*                                                                         *)
(* The inductions over the bits go by the set of the bits for which the    *)
(* claim holds: Induct and Descend below, from the least element of a set  *)
(* of numbers.                                                             *)
(***************************************************************************)
EXTENDS GrayCode, FiniteSetTheorems, WellFoundedInduction, TLAPS

Powers(W) == \A i \in 0 .. W : 2^i \in Nat \ {0} /\ 2^(i + 1) = 2 * 2^i

-----------------------------------------------------------------------------
\* Induction.
LEMMA Least ==
  ASSUME NEW T, T \subseteq Nat, T # {}
  PROVE  \E x \in T : \A y \in T : x <= y
  <1> DEFINE R == OpToRel(<, Nat)
  <1>1. IsWellFoundedOn(R, Nat)
    BY NatLessThanWellFounded
  <1>2. \A x, y \in Nat : <<y, x>> \in R <=> y < x
    BY DEF OpToRel
  <1> HIDE DEF R
  <1>3. PICK x \in T : \A y \in T : ~(<<y, x>> \in R)
    BY <1>1, WFMin
  <1>4. x \in Nat
    BY <1>3
  <1>5. ASSUME NEW y \in T PROVE x <= y
    <2>1. y \in Nat
      OBVIOUS
    <2>2. ~(<<y, x>> \in R)
      BY <1>3
    <2>3. ~(y < x)
      BY <1>2, <1>4, <2>1, <2>2, Zenon
    <2> QED BY <1>4, <2>1, <2>3
  <1> QED BY <1>3, <1>5

\* What holds of a and goes from each number to the next, up to b, holds from a to b.
LEMMA Induct ==
  ASSUME NEW a \in Nat, NEW b \in Nat, NEW S, a \in S,
         \A i \in a .. b - 1 : i \in S => i + 1 \in S
  PROVE  \A i \in a .. b : i \in S
  <1> SUFFICES ASSUME ~ \A i \in a .. b : i \in S PROVE FALSE
    OBVIOUS
  <1> DEFINE T == {i \in a .. b : i \notin S}
  <1>1. T \subseteq Nat /\ T # {}
    OBVIOUS
  <1>2. PICK x \in T : \A y \in T : x <= y
    BY <1>1, Least
  <1>3. x \in a .. b /\ x # a /\ x - 1 \in a .. b - 1
    BY <1>2
  <1>4. x - 1 \in S
    BY <1>2, <1>3
  <1>5. (x - 1) + 1 = x
    BY <1>3
  <1>6. x \in S
    BY <1>3, <1>4, <1>5
  <1> QED BY <1>2, <1>6

\* What holds of b and goes from each number to the one before, down to a, holds from a to b.
LEMMA Descend ==
  ASSUME NEW a \in Nat, NEW b \in Nat, NEW S, b \in S,
         \A i \in a .. b - 1 : i + 1 \in S => i \in S
  PROVE  \A i \in a .. b : i \in S
  <1> SUFFICES ASSUME NEW j \in a .. b, j \notin S PROVE FALSE
    OBVIOUS
  <1> DEFINE T == {i \in 0 .. b - a : b - i \in S}
  <1>1. 0 \in T
    OBVIOUS
  <1>2. ASSUME NEW i \in 0 .. (b - a) - 1, i \in T PROVE i + 1 \in T
    <2>1. b - (i + 1) \in a .. b - 1 /\ (b - (i + 1)) + 1 = b - i
      OBVIOUS
    <2> QED BY <1>2, <2>1
  <1>3. b - a \in Nat
    OBVIOUS
  <1> HIDE DEF T
  <1>4. \A i \in 0 .. b - a : i \in T
    BY <1>1, <1>2, <1>3, Induct
  <1>5. b - j \in T
    BY <1>4
  <1>6. b - (b - j) = j
    OBVIOUS
  <1> QED BY <1>5, <1>6 DEF T
-----------------------------------------------------------------------------
\* A number's bits are the parities of what is left of it.
Rest(n, i) == n \div 2^i
Bit(n, i) == Rest(n, i) % 2

LEMMA DivTwice ==
  ASSUME NEW n \in Nat, NEW d \in Nat \ {0}
  PROVE  n \div (2 * d) = (n \div d) \div 2
  <1> DEFINE q == n \div d
             h == q \div 2
  <1>1. q \in Nat /\ n = q * d + (n % d) /\ n % d \in 0 .. d - 1
    OBVIOUS
  <1>2. h \in Nat /\ (q = 2 * h \/ q = 2 * h + 1)
    BY <1>1
  <1>3. q * d = h * (2 * d) \/ q * d = h * (2 * d) + d
    BY <1>1, <1>2
  <1>4. h * (2 * d) <= n /\ n < h * (2 * d) + 2 * d
    BY <1>1, <1>2, <1>3
  <1> HIDE DEF h
  <1>5. n \div (2 * d) = h
    BY <1>2, <1>4
  <1> QED BY <1>5 DEF h

LEMMA RestFacts ==
  ASSUME NEW W \in Nat, Powers(W), NEW n \in Nat
  PROVE  /\ Rest(n, 0) = n
         /\ \A i \in 0 .. W + 1 : Rest(n, i) \in Nat
         /\ \A i \in 0 .. W : /\ Rest(n, i + 1) = Rest(n, i) \div 2
                              /\ Rest(n, i) = 2 * Rest(n, i + 1) + (Rest(n, i) % 2)
                              /\ Rest(n, i) % 2 \in {0, 1}
         /\ n < 2^W => Rest(n, W) = 0
  <1>1. Rest(n, 0) = n
    BY DEF Rest
  <1>2. ASSUME NEW i \in 0 .. W + 1 PROVE 2^i \in Nat \ {0}
    <2>1. CASE i \in 0 .. W
      BY <2>1 DEF Powers
    <2>2. CASE i = W + 1
      <3>1. 2^W \in Nat \ {0} /\ 2^(W + 1) = 2 * 2^W
        BY DEF Powers
      <3> QED BY <3>1, <2>2
    <2> QED BY <2>1, <2>2
  <1>3. ASSUME NEW d \in Nat \ {0} PROVE n \div d \in Nat /\ (n < d => n \div d = 0)
    OBVIOUS
  <1>4. \A i \in 0 .. W + 1 : Rest(n, i) \in Nat
    BY <1>2, <1>3 DEF Rest
  <1>5. ASSUME NEW i \in 0 .. W PROVE Rest(n, i + 1) = Rest(n, i) \div 2
    <2>1. 2^i \in Nat \ {0} /\ 2^(i + 1) = 2 * 2^i
      BY DEF Powers
    <2> QED BY <2>1, DivTwice DEF Rest
  <1>6. ASSUME NEW q \in Nat PROVE q = 2 * (q \div 2) + (q % 2) /\ q % 2 \in {0, 1}
    OBVIOUS
  <1>7. n < 2^W => Rest(n, W) = 0
    BY <1>2, <1>3 DEF Rest
  <1>8. ASSUME NEW i \in 0 .. W
        PROVE  Rest(n, i) = 2 * Rest(n, i + 1) + (Rest(n, i) % 2) /\ Rest(n, i) % 2 \in {0, 1}
    <2>1. Rest(n, i) \in Nat
      BY <1>4
    <2> QED BY <1>5, <1>6, <2>1
  <1> QED BY <1>1, <1>4, <1>5, <1>7, <1>8

LEMMA RestStep ==
  ASSUME NEW W \in Nat, Powers(W), NEW n \in Nat, NEW i \in 0 .. W
  PROVE  /\ Rest(n, i) \in Nat /\ Rest(n, i + 1) \in Nat
         /\ Rest(n, i) = 2 * Rest(n, i + 1) + Bit(n, i)
         /\ Bit(n, i) \in {0, 1}
  <1>1. i \in 0 .. W + 1 /\ i + 1 \in 0 .. W + 1
    OBVIOUS
  <1>2. Rest(n, i) \in Nat /\ Rest(n, i + 1) \in Nat
    BY <1>1, RestFacts
  <1> QED BY <1>2, RestFacts DEF Bit

\* The same for every bit of every value, as a fact to instantiate.
LEMMA EachRestStep ==
  ASSUME NEW W \in Nat, Powers(W), NEW i \in 0 .. W
  PROVE  \A n \in Nat : Rest(n, i) = 2 * Rest(n, i + 1) + Bit(n, i) /\ Bit(n, i) \in {0, 1}
  <1> SUFFICES ASSUME NEW n \in Nat
               PROVE  Rest(n, i) = 2 * Rest(n, i + 1) + Bit(n, i) /\ Bit(n, i) \in {0, 1}
    OBVIOUS
  <1>1. /\ Rest(n, i) \in Nat /\ Rest(n, i + 1) \in Nat
        /\ Rest(n, i) = 2 * Rest(n, i + 1) + Bit(n, i)
        /\ Bit(n, i) \in {0, 1}
    BY RestStep
  <1> QED BY <1>1

LEMMA BitsOfRest ==
  ASSUME NEW W \in Nat, NEW n, NEW i \in Nat
  PROVE  i \in Bits(W, n) <=> i < W /\ Bit(n, i) = 1
  BY DEF Bits, Bit, Rest

-----------------------------------------------------------------------------
\* No two numbers share a code: from the top bit down, each bit of the code and the bit above
\* give the bit, and each bit and the rest above it the rest.
LEMMA RestOfCode ==
  ASSUME NEW W \in Nat, Powers(W), NEW m \in Nat, NEW n \in Nat, NEW i \in 0 .. W - 1,
         GrayOf(W, m) = GrayOf(W, n), Rest(m, i + 1) = Rest(n, i + 1)
  PROVE  Rest(m, i) = Rest(n, i)
  <1>1. i \in 0 .. W /\ i \in Nat /\ i + 1 \in Nat
    OBVIOUS
  <1>2. (i \in Bits(W, m)) # (i + 1 \in Bits(W, m)) <=> (i \in Bits(W, n)) # (i + 1 \in Bits(W, n))
    BY DEF GrayOf
  <1>3. Bit(m, i + 1) = Bit(n, i + 1)
    BY DEF Bit
  <1>4. i + 1 \in Bits(W, m) <=> i + 1 \in Bits(W, n)
    BY <1>1, <1>3, BitsOfRest
  <1>5. i \in Bits(W, m) <=> i \in Bits(W, n)
    BY <1>2, <1>4
  <1>6. Bit(m, i) = 1 <=> Bit(n, i) = 1
    BY <1>1, <1>5, BitsOfRest
  <1>7. Rest(m, i) = 2 * Rest(m, i + 1) + Bit(m, i) /\ Bit(m, i) \in {0, 1}
    BY Zenon, <1>1, EachRestStep
  <1>8. Rest(n, i) = 2 * Rest(n, i + 1) + Bit(n, i) /\ Bit(n, i) \in {0, 1}
    BY Zenon, <1>1, EachRestStep
  <1>9. Bit(m, i) = Bit(n, i)
    BY <1>6, <1>7, <1>8
  <1> QED BY <1>7, <1>8, <1>9

LEMMA CodesDiffer ==
  ASSUME NEW W \in Nat, Powers(W), NEW m \in Nat, NEW n \in Nat, m < 2^W, n < 2^W,
         GrayOf(W, m) = GrayOf(W, n)
  PROVE  m = n
  <1> DEFINE S == {i \in 0 .. W : Rest(m, i) = Rest(n, i)}
  <1>1. W \in S
    BY RestFacts
  <1>2. ASSUME NEW i \in 0 .. W - 1, i + 1 \in S PROVE i \in S
    <2>1. Rest(m, i + 1) = Rest(n, i + 1)
      BY <1>2
    <2>2. Rest(m, i) = Rest(n, i)
      BY <2>1, RestOfCode
    <2> QED BY <2>2
  <1> HIDE DEF S
  <1>3. \A i \in 0 .. W : i \in S
    BY <1>1, <1>2, Descend
  <1>4. Rest(m, 0) = Rest(n, 0)
    BY <1>3 DEF S
  <1> QED BY <1>4, RestFacts


-----------------------------------------------------------------------------
\* A step of one carries through the low bits that are one: what is left above differs by one
\* as far as the carry goes, and is the same beyond.
Carry(n, i) == Rest(n + 1, i) = Rest(n, i) + 1

LEMMA CarryStep ==
  ASSUME NEW W \in Nat, Powers(W), NEW n \in Nat, NEW i \in 0 .. W,
         Carry(n, i) \/ Rest(n + 1, i) = Rest(n, i)
  PROVE  /\ Carry(n, i + 1) \/ Rest(n + 1, i + 1) = Rest(n, i + 1)
         /\ ~Carry(n, i) => ~Carry(n, i + 1) /\ Bit(n + 1, i) = Bit(n, i)
         /\ Carry(n, i) => Bit(n + 1, i) # Bit(n, i)
  <1>1. /\ Rest(n, i) \in Nat /\ Rest(n, i + 1) \in Nat
        /\ Rest(n, i) = 2 * Rest(n, i + 1) + Bit(n, i)
        /\ Bit(n, i) \in {0, 1}
    BY RestStep
  <1>2. /\ Rest(n + 1, i) \in Nat /\ Rest(n + 1, i + 1) \in Nat
        /\ Rest(n + 1, i) = 2 * Rest(n + 1, i + 1) + Bit(n + 1, i)
        /\ Bit(n + 1, i) \in {0, 1}
    <2>1. n + 1 \in Nat
      OBVIOUS
    <2> QED BY <2>1, RestStep
  <1> QED BY <1>1, <1>2 DEF Carry

LEMMA CarryOrSame ==
  ASSUME NEW W \in Nat, Powers(W), NEW n \in Nat
  PROVE  \A i \in 0 .. W : Carry(n, i) \/ Rest(n + 1, i) = Rest(n, i)
  <1> DEFINE S == {i \in 0 .. W : Carry(n, i) \/ Rest(n + 1, i) = Rest(n, i)}
  <1>1. 0 \in S
    <2>1. \A k \in Nat : Rest(k, 0) = k
      BY RestFacts
    <2>2. n + 1 \in Nat
      OBVIOUS
    <2> QED BY <2>1, <2>2 DEF Carry
  <1>2. ASSUME NEW i \in 0 .. W - 1, i \in S PROVE i + 1 \in S
    <2>1. i \in 0 .. W /\ i + 1 \in 0 .. W
      OBVIOUS
    <2>2. Carry(n, i) \/ Rest(n + 1, i) = Rest(n, i)
      BY <1>2
    <2>3. Carry(n, i + 1) \/ Rest(n + 1, i + 1) = Rest(n, i + 1)
      BY <2>1, <2>2, CarryStep
    <2> QED BY <2>1, <2>3
  <1> HIDE DEF S
  <1>3. \A i \in 0 .. W : i \in S
    BY <1>1, <1>2, Induct
  <1> QED BY <1>3 DEF S

\* The bits that a step changes.
LEMMA BitsOfStep ==
  ASSUME NEW W \in Nat, Powers(W), NEW n \in Nat, NEW i \in 0 .. W - 1
  PROVE  ((i \in Bits(W, n)) # (i \in Bits(W, n + 1))) <=> Carry(n, i)
  <1>1. i \in 0 .. W /\ i \in Nat /\ i < W
    OBVIOUS
  <1>2. Carry(n, i) \/ Rest(n + 1, i) = Rest(n, i)
    BY <1>1, CarryOrSame
  <1>3. /\ ~Carry(n, i) => Bit(n + 1, i) = Bit(n, i)
        /\ Carry(n, i) => Bit(n + 1, i) # Bit(n, i)
    BY <1>1, <1>2, CarryStep
  <1>4. Bit(n, i) \in {0, 1} /\ Bit(n + 1, i) \in {0, 1}
    BY <1>1, RestStep
  <1>5. i \in Bits(W, n) <=> Bit(n, i) = 1
    BY <1>1, BitsOfRest
  <1>6. i \in Bits(W, n + 1) <=> Bit(n + 1, i) = 1
    BY <1>1, BitsOfRest
  <1> QED BY <1>3, <1>4, <1>5, <1>6

\* The carry ends once.
LEMMA CarryEnds ==
  ASSUME NEW W \in Nat, Powers(W), NEW n \in Nat, NEW i \in 0 .. W, NEW j \in i .. W, Carry(n, j)
  PROVE  Carry(n, i)
  <1> DEFINE S == {k \in i .. j : Carry(n, k)}
  <1>1. j \in S
    OBVIOUS
  <1>2. ASSUME NEW k \in i .. j - 1, k + 1 \in S PROVE k \in S
    <2>1. k \in 0 .. W
      OBVIOUS
    <2>2. Carry(n, k) \/ Rest(n + 1, k) = Rest(n, k)
      BY <2>1, CarryOrSame
    <2>3. ~Carry(n, k) => ~Carry(n, k + 1)
      BY <2>1, <2>2, CarryStep
    <2> QED BY <1>2, <2>3
  <1>3. i \in Nat /\ j \in Nat
    OBVIOUS
  <1> HIDE DEF S
  <1>4. \A k \in i .. j : k \in S
    BY <1>1, <1>2, <1>3, Descend
  <1> QED BY <1>4 DEF S

\* The bits that a step changes in the code: one at most.
LEMMA CodeOfStep ==
  ASSUME NEW W \in Nat, Powers(W), NEW n \in Nat, NEW i \in 0 .. W - 1
  PROVE  ((i \in GrayOf(W, n)) # (i \in GrayOf(W, n + 1)))
           => Carry(n, i) /\ (i = W - 1 \/ ~Carry(n, i + 1))
  <1>1. ((i \in Bits(W, n)) # (i \in Bits(W, n + 1))) <=> Carry(n, i)
    BY BitsOfStep
  <1>2. CASE i = W - 1
    <2>1. i + 1 \notin Bits(W, n) /\ i + 1 \notin Bits(W, n + 1)
      BY <1>2 DEF Bits
    <2> QED BY <1>1, <1>2, <2>1 DEF GrayOf
  <1>3. CASE i # W - 1
    <2>1. i + 1 \in 0 .. W - 1
      BY <1>3
    <2>2. ((i + 1 \in Bits(W, n)) # (i + 1 \in Bits(W, n + 1))) <=> Carry(n, i + 1)
      BY <2>1, BitsOfStep
    <2>3. Carry(n, i + 1) => Carry(n, i)
      BY CarryEnds
    <2> QED BY <1>1, <2>2, <2>3 DEF GrayOf
  <1> QED BY <1>2, <1>3

LEMMA OneBitChanges ==
  ASSUME NEW W \in Nat, Powers(W), NEW n \in Nat, NEW i \in 0 .. W - 1, NEW j \in 0 .. W - 1,
         (i \in GrayOf(W, n)) # (i \in GrayOf(W, n + 1)),
         (j \in GrayOf(W, n)) # (j \in GrayOf(W, n + 1))
  PROVE  i = j
  <1>1. \A k \in 0 .. W - 1 : ((k \in GrayOf(W, n)) # (k \in GrayOf(W, n + 1)))
                                => Carry(n, k) /\ (k = W - 1 \/ ~Carry(n, k + 1))
    BY CodeOfStep
  <1>2. ASSUME NEW k \in 0 .. W - 1, NEW l \in 0 .. W - 1, k < l,
               (k \in GrayOf(W, n)) # (k \in GrayOf(W, n + 1)),
               (l \in GrayOf(W, n)) # (l \in GrayOf(W, n + 1))
        PROVE  FALSE
    <2>1. Carry(n, l) /\ ~Carry(n, k + 1)
      BY <1>1, <1>2
    <2>2. k + 1 \in 0 .. W /\ l \in k + 1 .. W
      BY <1>2
    <2> QED BY <2>1, <2>2, CarryEnds
  <1> QED BY <1>2

\* A word that changes in one bit at most is caught before or after the change.
ChangeOnce(a, b) == \A x, y \in (a \ b) \cup (b \ a) : x = y

LEMMA OneBitInFlight ==
  ASSUME NEW a, NEW b, ChangeOnce(a, b)
  PROVE  InFlight(a, b) = {a, b}
  <1> USE DEF ChangeOnce
  <1> DEFINE D == (a \ b) \cup (b \ a)
  <1>1. ASSUME NEW s \in SUBSET D PROVE (a \cap b) \cup s \in {a, b}
    <2>1. CASE s = {}
      <3>1. CASE D \cap a = {}
        BY <2>1, <3>1
      <3>2. CASE D \cap a # {}
        <4>1. b \ a = {}
          BY <3>2
        <4> QED BY <2>1, <4>1
      <3> QED BY <3>1, <3>2
    <2>2. CASE s # {}
      <3>1. PICK x \in D : s = {x} /\ D = {x}
        BY <2>2
      <3>2. CASE x \in a
        <4>1. (a \cap b) \cup s = a
          BY <3>1, <3>2
        <4> QED BY <4>1
      <3>3. CASE x \in b
        <4>1. (a \cap b) \cup s = b
          BY <3>1, <3>3
        <4> QED BY <4>1
      <3> QED BY <3>1, <3>2, <3>3
    <2> QED BY <2>1, <2>2
  <1>2. a \cap D \in SUBSET D /\ (a \cap b) \cup (a \cap D) = a
    OBVIOUS
  <1>3. b \cap D \in SUBSET D /\ (a \cap b) \cup (b \cap D) = b
    OBVIOUS
  <1>4. InFlight(a, b) = {(a \cap b) \cup s : s \in SUBSET D}
    BY DEF InFlight
  <1> HIDE DEF D
  <1>5. InFlight(a, b) \subseteq {a, b}
    BY <1>1, <1>4
  <1>6. a \in InFlight(a, b) /\ b \in InFlight(a, b)
    BY <1>2, <1>3, <1>4
  <1> QED BY <1>5, <1>6

\* A step of one, caught in flight, shows the old code or the new one.
LEMMA StepInFlight ==
  ASSUME NEW W \in Nat, Powers(W), NEW n \in Nat
  PROVE  InFlight(GrayOf(W, n), GrayOf(W, n + 1)) = {GrayOf(W, n), GrayOf(W, n + 1)}
  <1> DEFINE a == GrayOf(W, n)
             b == GrayOf(W, n + 1)
  <1>1. a \subseteq 0 .. W - 1 /\ b \subseteq 0 .. W - 1
    BY DEF GrayOf
  <1>2. \A i, j \in 0 .. W - 1 : (i \in a) # (i \in b) /\ (j \in a) # (j \in b) => i = j
    BY OneBitChanges
  <1> HIDE DEF a, b
  <1>3. ChangeOnce(a, b)
    BY <1>1, <1>2 DEF ChangeOnce
  <1>4. InFlight(a, b) = {a, b}
    BY <1>3, OneBitInFlight
  <1> QED BY <1>4 DEF a, b

-----------------------------------------------------------------------------
\* Adding a power of two leaves the bits below as they are.
LEMMA RestOfSum ==
  ASSUME NEW W \in Nat, Powers(W), NEW n \in Nat, NEW k \in 0 .. W
  PROVE  \A i \in 0 .. k : Rest(n + 2^k, i) = Rest(n, i) + 2^(k - i)
  <1>1. 2^k \in Nat
    BY DEF Powers
  <1> DEFINE m == n + 2^k
             S == {i \in 0 .. k : Rest(m, i) = Rest(n, i) + 2^(k - i)}
  <1>2. m \in Nat
    BY <1>1
  <1> HIDE DEF m
  <1>3. 0 \in S
    <2>1. \A v \in Nat : Rest(v, 0) = v
      BY RestFacts
    <2>2. Rest(m, 0) = m /\ Rest(n, 0) = n /\ k - 0 = k
      BY <1>2, <2>1
    <2> QED BY <2>2 DEF m
  <1>4. ASSUME NEW i \in 0 .. k - 1, i \in S PROVE i + 1 \in S
    <2>1. Rest(m, i) = Rest(n, i) + 2^(k - i)
      BY <1>4
    <2>2. k - (i + 1) \in 0 .. W /\ (k - (i + 1)) + 1 = k - i /\ i \in 0 .. W
      OBVIOUS
    <2>3. 2^(k - (i + 1)) \in Nat /\ 2^(k - i) = 2 * 2^(k - (i + 1))
      BY <2>2 DEF Powers
    <2>4. Rest(m, i + 1) = Rest(n, i + 1) + 2^(k - (i + 1))
      <3>1. /\ Rest(n, i) \in Nat /\ Rest(n, i + 1) \in Nat
            /\ Rest(n, i) = 2 * Rest(n, i + 1) + Bit(n, i) /\ Bit(n, i) \in {0, 1}
        BY <2>2, RestStep
      <3>2. /\ Rest(m, i) \in Nat /\ Rest(m, i + 1) \in Nat
            /\ Rest(m, i) = 2 * Rest(m, i + 1) + Bit(m, i) /\ Bit(m, i) \in {0, 1}
        BY <1>2, <2>2, RestStep
      <3> DEFINE h == 2^(k - (i + 1))
      <3>3. h \in Nat /\ Rest(m, i) = Rest(n, i) + 2 * h
        BY <2>1, <2>3
      <3> HIDE DEF h
      <3>4. Rest(m, i + 1) = Rest(n, i + 1) + h
        BY <3>1, <3>2, <3>3
      <3> QED BY <3>4 DEF h
    <2> QED BY <2>4
  <1> HIDE DEF S
  <1>5. \A i \in 0 .. k : i \in S
    BY <1>3, <1>4, Induct
  <1> QED BY <1>5 DEF S, m

LEMMA BitsOfSum ==
  ASSUME NEW W \in Nat, Powers(W), NEW n \in Nat, NEW k \in 0 .. W, NEW i \in 0 .. k - 1
  PROVE  Bit(n + 2^k, i) = Bit(n, i)
  <1>1. i \in 0 .. k /\ i \in 0 .. W /\ k - (i + 1) \in 0 .. W /\ (k - (i + 1)) + 1 = k - i
    OBVIOUS
  <1>2. Rest(n + 2^k, i) = Rest(n, i) + 2^(k - i)
    BY <1>1, RestOfSum
  <1>3. 2^(k - (i + 1)) \in Nat /\ 2^(k - i) = 2 * 2^(k - (i + 1))
    BY <1>1 DEF Powers
  <1>4. Rest(n, i) \in Nat
    BY <1>1, RestStep
  <1>5. ASSUME NEW r \in Nat, NEW h \in Nat PROVE (r + 2 * h) % 2 = r % 2
    OBVIOUS
  <1> QED BY <1>2, <1>3, <1>4, <1>5 DEF Bit

\* The code of a full ring is that of nothing.
LEMMA CodeWraps ==
  ASSUME NEW W \in Nat, Powers(W)
  PROVE  GrayOf(W, 2^W) = GrayOf(W, 0)
  <1>1. 2^W \in Nat /\ W \in 0 .. W /\ 0 + 2^W = 2^W
    BY DEF Powers
  <1>2. ASSUME NEW i \in 0 .. W - 1 PROVE i \in Bits(W, 2^W) <=> i \in Bits(W, 0)
    <2>1. Bit(2^W, i) = Bit(0, i)
      BY <1>1, BitsOfSum
    <2>2. i \in Nat
      OBVIOUS
    <2> QED BY <2>1, <2>2, BitsOfRest
  <1>3. Bits(W, 2^W) = Bits(W, 0)
    BY <1>2 DEF Bits
  <1> QED BY <1>3 DEF GrayOf

\* Half a ring ahead is the code with its top two bits inverted, and half a ring back as well.
LEMMA HalfRing ==
  ASSUME NEW W \in Nat, W >= 2, Powers(W), NEW n \in Nat, n < 2^(W - 1)
  PROVE  /\ FlipTopTwo(W, GrayOf(W, n)) = GrayOf(W, n + 2^(W - 1))
         /\ FlipTopTwo(W, GrayOf(W, n + 2^(W - 1))) = GrayOf(W, n)
  <1> DEFINE k == W - 1
             m == n + 2^k
  <1>1. k \in Nat /\ k \in 0 .. W /\ Powers(k) /\ 2^k \in Nat \ {0} /\ k - k = 0 /\ k \in 0 .. k
    BY DEF Powers
  <1>2. Rest(n, k) = 0
    BY <1>1, RestFacts
  <1>3. Rest(m, k) = 1
    <2>1. Rest(m, k) = Rest(n, k) + 2^(k - k)
      BY <1>1, RestOfSum
    <2>2. 2^0 = 1
      OBVIOUS
    <2> QED BY <1>1, <1>2, <2>1, <2>2
  <1>4. k \notin Bits(W, n) /\ k \in Bits(W, m)
    <2>1. Bit(n, k) = 0 /\ Bit(m, k) = 1
      BY <1>2, <1>3 DEF Bit
    <2> QED BY <1>1, <2>1, BitsOfRest
  <1>5. ASSUME NEW i \in 0 .. k - 1 PROVE i \in Bits(W, m) <=> i \in Bits(W, n)
    <2>1. Bit(m, i) = Bit(n, i)
      BY <1>1, BitsOfSum
    <2> QED BY <2>1, BitsOfRest
  <1>6. k + 1 \notin Bits(W, n) /\ k + 1 \notin Bits(W, m)
    BY DEF Bits
  <1>7. Bits(W, n) \subseteq 0 .. k /\ Bits(W, m) \subseteq 0 .. k
    BY DEF Bits
  <1> DEFINE a == GrayOf(W, n)
             b == GrayOf(W, m)
  <1>8. ASSUME NEW i \in 0 .. k PROVE (i \in a <=> i \in b) <=> i \notin {W - 1, W - 2}
    <2>1. i \in a <=> ((i \in Bits(W, n)) # (i + 1 \in Bits(W, n)))
      BY DEF GrayOf
    <2>2. i \in b <=> ((i \in Bits(W, m)) # (i + 1 \in Bits(W, m)))
      BY DEF GrayOf
    <2>3. CASE i = k
      BY <1>4, <1>6, <2>1, <2>2, <2>3
    <2>4. CASE i = k - 1
      <3>1. i + 1 = k /\ i \in 0 .. k - 1
        BY <2>4
      <3> HIDE DEF k, m, a, b
      <3>2. i \in a <=> i \notin b
        BY <1>4, <1>5, <2>1, <2>2, <3>1
      <3>3. i \in {W - 1, W - 2}
        BY <2>4 DEF k
      <3> QED BY <3>2, <3>3
    <2>5. CASE i # k /\ i # k - 1
      <3>1. i + 1 \in 0 .. k - 1 /\ i \in 0 .. k - 1 /\ i \notin {W - 1, W - 2}
        BY <2>5
      <3> HIDE DEF k, m, a, b
      <3>2. i \in a <=> i \in b
        BY <1>5, <2>1, <2>2, <3>1
      <3> QED BY <3>1, <3>2
    <2> QED BY <2>3, <2>4, <2>5
  <1>9. a \subseteq 0 .. k /\ b \subseteq 0 .. k
    BY DEF GrayOf
  <1>10. W - 1 \in 0 .. k /\ W - 2 \in 0 .. k
    OBVIOUS
  <1> HIDE DEF a, b, k, m
  <1>11. FlipTopTwo(W, a) = b
    BY <1>8, <1>9, <1>10 DEF FlipTopTwo
  <1>12. FlipTopTwo(W, b) = a
    BY <1>8, <1>9, <1>10 DEF FlipTopTwo
  <1> QED BY <1>11, <1>12 DEF a, b, k, m

-----------------------------------------------------------------------------
\* A number is the sum of the powers of its bits: reading a word back.
LEMMA BitsDiffer ==
  ASSUME NEW W \in Nat, Powers(W), NEW m \in Nat, NEW n \in Nat, m < 2^W, n < 2^W,
         Bits(W, m) = Bits(W, n)
  PROVE  m = n
  <1>1. GrayOf(W, m) = GrayOf(W, n)
    BY DEF GrayOf
  <1> QED BY <1>1, CodesDiffer

LEMMA NoBits ==
  ASSUME NEW W \in Nat, Powers(W)
  PROVE  Bits(W, 0) = {} /\ 0 < 2^W
  <1>1. ASSUME NEW i \in 0 .. W - 1 PROVE (0 \div 2^i) % 2 # 1
    <2>1. 2^i \in Nat \ {0}
      BY DEF Powers
    <2>2. ASSUME NEW d \in Nat \ {0} PROVE (0 \div d) % 2 # 1
      OBVIOUS
    <2> QED BY <2>1, <2>2
  <1>2. 2^W \in Nat \ {0}
    BY DEF Powers
  <1>3. 0 < 2^W
    BY <1>2
  <1>4. Bits(W, 0) = {}
    BY <1>1 DEF Bits
  <1> QED BY <1>3, <1>4

\* Adding the power of a bit that is zero sets it and leaves the others.
LEMMA SetBit ==
  ASSUME NEW W \in Nat, Powers(W), NEW n \in Nat, n < 2^W,
         NEW x \in 0 .. W - 1, x \notin Bits(W, n)
  PROVE  /\ n + 2^x \in Nat /\ n + 2^x < 2^W
         /\ Bits(W, n + 2^x) = Bits(W, n) \cup {x}
  <1> DEFINE m == n + 2^x
  <1>1. x \in 0 .. W /\ x \in Nat /\ x - x = 0 /\ x \in 0 .. x
    OBVIOUS
  <1>2. 2^x \in Nat /\ 2^W \in Nat \ {0}
    BY <1>1 DEF Powers
  <1>3. m \in Nat
    BY <1>2
  <1>4. Rest(m, x) = Rest(n, x) + 1
    <2>1. Rest(m, x) = Rest(n, x) + 2^(x - x)
      <3>1. \A i \in 0 .. x : Rest(n + 2^x, i) = Rest(n, i) + 2^(x - i)
        BY <1>1, RestOfSum
      <3> QED BY Zenon, <1>1, <3>1
    <2>2. 2^0 = 1
      OBVIOUS
    <2> QED BY <1>1, <2>1, <2>2
  <1>5. \A i \in 0 .. x - 1 : Bit(m, i) = Bit(n, i)
    BY <1>1, BitsOfSum
  <1> HIDE DEF m
  <1>6. Bit(n, x) = 0
    <2>1. Bit(n, x) \in {0, 1}
      BY <1>1, RestStep
    <2> QED BY <1>1, <2>1, BitsOfRest
  <1>7. Bit(m, x) = 1 /\ Rest(m, x + 1) = Rest(n, x + 1)
    <2>1. /\ Rest(n, x) \in Nat /\ Rest(n, x + 1) \in Nat
          /\ Rest(n, x) = 2 * Rest(n, x + 1) + Bit(n, x)
      BY <1>1, RestStep
    <2>2. /\ Rest(m, x) \in Nat /\ Rest(m, x + 1) \in Nat
          /\ Rest(m, x) = 2 * Rest(m, x + 1) + Bit(m, x) /\ Bit(m, x) \in {0, 1}
      BY <1>1, <1>3, RestStep
    <2>3. ASSUME NEW a \in Nat, NEW b \in Nat, NEW c \in {0, 1}, 2 * a + c = 2 * b + 1
          PROVE  a = b /\ c = 1
      BY <2>3
    <2>4. 2 * Rest(m, x + 1) + Bit(m, x) = 2 * Rest(n, x + 1) + 1
      BY <1>4, <1>6, <2>1, <2>2
    <2> QED BY <2>1, <2>2, <2>3, <2>4
  <1>8. \A i \in x + 1 .. W : Rest(m, i) = Rest(n, i)
    <2> DEFINE S == {i \in x + 1 .. W : Rest(m, i) = Rest(n, i)}
    <2>1. x + 1 \in S
      BY <1>7
    <2>2. ASSUME NEW i \in x + 1 .. W - 1, i \in S PROVE i + 1 \in S
      <3>1. \A k \in Nat : Rest(k, i + 1) = Rest(k, i) \div 2
        BY RestFacts
      <3>2. Rest(m, i) = Rest(n, i)
        BY <2>2
      <3>3. Rest(m, i + 1) = Rest(n, i + 1)
        BY <1>3, <3>1, <3>2
      <3> QED BY <3>3
    <2>3. x + 1 \in Nat
      OBVIOUS
    <2> HIDE DEF S
    <2>4. \A i \in x + 1 .. W : i \in S
      BY <2>1, <2>2, <2>3, Induct
    <2> QED BY <2>4 DEF S
  <1>9. m < 2^W
    <2>1. Rest(m, W) = 0
      <3>1. Rest(n, W) = 0
        BY RestFacts
      <3> QED BY <1>8, <3>1
    <2>2. ASSUME NEW d \in Nat \ {0}, m \div d = 0 PROVE m < d
      BY <1>3, <2>2
    <2> QED BY <1>2, <2>1, <2>2 DEF Rest
  <1>10. ASSUME NEW i \in 0 .. W - 1 PROVE i \in Bits(W, m) <=> i \in Bits(W, n) \cup {x}
    <2>1. i \in Nat
      OBVIOUS
    <2>2. i # x => Bit(m, i) = Bit(n, i)
      <3>1. CASE i < x
        BY <1>5, <3>1
      <3>2. CASE i > x
        BY <1>8, <3>2 DEF Bit
      <3> QED BY <3>1, <3>2
    <2>3. i = x => i \in Bits(W, m)
      BY <1>1, <1>7, BitsOfRest
    <2>4. i # x => (i \in Bits(W, m) <=> i \in Bits(W, n))
      BY <2>1, <2>2, BitsOfRest
    <2> QED BY <2>3, <2>4
  <1>11. Bits(W, m) \subseteq 0 .. W - 1 /\ Bits(W, n) \cup {x} \subseteq 0 .. W - 1
    BY DEF Bits
  <1>12. Bits(W, m) = Bits(W, n) \cup {x}
    BY <1>10, <1>11
  <1> QED BY <1>3, <1>9, <1>12 DEF m

Number(W, s) == CHOOSE n \in Nat : n < 2^W /\ Bits(W, n) = s

LEMMA NumberExists ==
  ASSUME NEW W \in Nat, Powers(W), NEW s \in SUBSET (0 .. W - 1)
  PROVE  Number(W, s) \in Nat /\ Number(W, s) < 2^W /\ Bits(W, Number(W, s)) = s
  <1> DEFINE S == {k \in 0 .. W : \A t \in SUBSET (0 .. k - 1) : \E n \in Nat : n < 2^W /\ Bits(W, n) = t}
  <1>1. 0 \in S
    <2>1. ASSUME NEW t \in SUBSET (0 .. 0 - 1) PROVE \E n \in Nat : n < 2^W /\ Bits(W, n) = t
      <3>1. t = {}
        OBVIOUS
      <3> QED BY <3>1, NoBits
    <2> QED BY <2>1
  <1>2. ASSUME NEW k \in 0 .. W - 1, k \in S PROVE k + 1 \in S
    <2>1. ASSUME NEW t \in SUBSET (0 .. (k + 1) - 1) PROVE \E n \in Nat : n < 2^W /\ Bits(W, n) = t
      <3>1. t \ {k} \in SUBSET (0 .. k - 1)
        OBVIOUS
      <3>2. PICK n \in Nat : n < 2^W /\ Bits(W, n) = t \ {k}
        BY <1>2, <3>1
      <3>3. CASE k \in t
        <4>1. k \notin Bits(W, n)
          BY <3>2
        <4>2. n + 2^k \in Nat /\ n + 2^k < 2^W /\ Bits(W, n + 2^k) = Bits(W, n) \cup {k}
          BY <3>2, <4>1, SetBit
        <4> QED BY <3>2, <3>3, <4>2
      <3>4. CASE k \notin t
        BY <3>2, <3>4
      <3> QED BY <3>3, <3>4
    <2> QED BY <2>1
  <1> HIDE DEF S
  <1>3. \A k \in 0 .. W : k \in S
    BY <1>1, <1>2, Induct
  <1>4. \E n \in Nat : n < 2^W /\ Bits(W, n) = s
    BY <1>3 DEF S
  <1> QED BY <1>4 DEF Number

\* The sum, as the fold of the community modules adds it up: an element at a time.
Pick(s) == CHOOSE x \in s : TRUE
AddUp(g, S) == [s \in SUBSET S |-> IF s = {} THEN 0 ELSE 2^Pick(s) + g[s \ {Pick(s)}]]

LEMMA SumIsFold ==
  ASSUME NEW S
  PROVE  MapThenSumSet(LAMBDA i : 2^i, S) = (CHOOSE g : g = AddUp(g, S))[S]
  BY DEF MapThenSumSet, MapThenFoldSet, AddUp, Pick

LEMMA NumberAddsUp ==
  ASSUME NEW W \in Nat, Powers(W), NEW s \in SUBSET (0 .. W - 1)
  PROVE  Number(W, s) = IF s = {} THEN 0 ELSE 2^Pick(s) + Number(W, s \ {Pick(s)})
  <1>1. Number(W, s) \in Nat /\ Number(W, s) < 2^W /\ Bits(W, Number(W, s)) = s
    BY NumberExists
  <1>2. CASE s = {}
    <2>1. Bits(W, 0) = {} /\ 0 < 2^W
      BY NoBits
    <2>2. Number(W, s) = 0
      BY <1>1, <1>2, <2>1, BitsDiffer
    <2> QED BY <1>2, <2>2
  <1>3. CASE s # {}
    <2> DEFINE x == Pick(s)
               n == Number(W, s \ {x})
    <2>1. x \in s
      BY <1>3 DEF Pick
    <2>2. x \in 0 .. W - 1 /\ s \ {x} \in SUBSET (0 .. W - 1)
      BY <2>1
    <2>3. n \in Nat /\ n < 2^W /\ Bits(W, n) = s \ {x}
      BY <2>2, NumberExists
    <2> HIDE DEF n, x
    <2>4. n + 2^x \in Nat /\ n + 2^x < 2^W /\ Bits(W, n + 2^x) = Bits(W, n) \cup {x}
      BY <2>2, <2>3, SetBit
    <2>5. Bits(W, n + 2^x) = s
      BY <2>1, <2>3, <2>4
    <2>6. n + 2^x = Number(W, s)
      BY <1>1, <2>4, <2>5, BitsDiffer
    <2>7. 2^x \in Nat
      BY <2>2 DEF Powers
    <2>8. Number(W, s) = 2^x + n
      BY <2>3, <2>6, <2>7
    <2> QED BY <1>3, <2>8 DEF n, x
  <1> QED BY <1>2, <1>3

LEMMA SumOfPowers ==
  ASSUME NEW W \in Nat, Powers(W), NEW S \in SUBSET (0 .. W - 1)
  PROVE  MapThenSumSet(LAMBDA i : 2^i, S) = Number(W, S)
  <1>1. \E g : g = AddUp(g, S)
    <2> DEFINE G == [s \in SUBSET S |-> Number(W, s)]
    <2>1. ASSUME NEW s \in SUBSET S
          PROVE  Number(W, s) = IF s = {} THEN 0 ELSE 2^Pick(s) + G[s \ {Pick(s)}]
      <3>1. s \in SUBSET (0 .. W - 1) /\ s \ {Pick(s)} \in SUBSET S
        OBVIOUS
      <3> QED BY <3>1, NumberAddsUp
    <2>2. G = AddUp(G, S)
      BY <2>1 DEF AddUp
    <2> QED BY <2>2
  <1>2. ASSUME NEW g, g = AddUp(g, S) PROVE g[S] = Number(W, S)
    <2> SUFFICES ASSUME g[S] # Number(W, S) PROVE FALSE
      OBVIOUS
    <2> DEFINE T == {s \in SUBSET S : g[s] # Number(W, s)}
               R == StrictSubsetOrdering(S)
    <2>1. IsWellFoundedOn(R, SUBSET S)
      <3>1. IsFiniteSet(0 .. W - 1)
        <4>1. 0 \in Int /\ W - 1 \in Int
          OBVIOUS
        <4> QED BY <4>1, FS_Interval
      <3>2. IsFiniteSet(S)
        BY <3>1, FS_Subset
      <3>3. FiniteSubsetsOf(S) = SUBSET S
        BY <3>2, FS_FiniteSubsetsOfFinite
      <3> QED BY <3>3, FS_StrictSubsetOrderingWellFounded
    <2>2. T \subseteq SUBSET S /\ S \in T
      OBVIOUS
    <2>3. \A s, t \in SUBSET S : s \subseteq t /\ s # t => <<s, t>> \in R
      BY DEF StrictSubsetOrdering
    <2> HIDE DEF R, T
    <2>4. PICK s \in T : \A t \in T : ~(<<t, s>> \in R)
      BY <2>1, <2>2, WFMin
    <2>5. s \in SUBSET S /\ s \in SUBSET (0 .. W - 1)
      BY <2>2, <2>4
    <2>6. g[s] = IF s = {} THEN 0 ELSE 2^Pick(s) + g[s \ {Pick(s)}]
      BY <1>2, <2>5 DEF AddUp
    <2>7. Number(W, s) = IF s = {} THEN 0 ELSE 2^Pick(s) + Number(W, s \ {Pick(s)})
      BY <2>5, NumberAddsUp
    <2>8. s # {} => g[s \ {Pick(s)}] = Number(W, s \ {Pick(s)})
      <3> SUFFICES ASSUME s # {} PROVE s \ {Pick(s)} \notin T
        BY <2>5 DEF T
      <3>1. Pick(s) \in s
        BY DEF Pick
      <3>2. s \ {Pick(s)} \in SUBSET S /\ s \ {Pick(s)} # s /\ s \ {Pick(s)} \subseteq s
        BY <2>5, <3>1
      <3>3. <<s \ {Pick(s)}, s>> \in R
        BY <2>3, <2>5, <3>2
      <3> QED BY <2>4, <3>3
    <2>9. g[s] = Number(W, s)
      BY <2>6, <2>7, <2>8
    <2> QED BY <2>4, <2>9 DEF T
  <1> DEFINE h == CHOOSE g : g = AddUp(g, S)
  <1>3. h = AddUp(h, S)
    BY <1>1
  <1> HIDE DEF h
  <1>4. h[S] = Number(W, S)
    BY <1>2, <1>3
  <1> QED BY <1>4, SumIsFold DEF h

-----------------------------------------------------------------------------
\* What a code reads: from the top bit down, each bit of the number is the bit above it,
\* inverted where the code has a one.
Ones(W, g) == {i \in 0 .. W - 1 : Cardinality({j \in g : j >= i}) % 2 = 1}

LEMMA OnesStep ==
  ASSUME NEW W \in Nat, NEW g \in SUBSET (0 .. W - 1), NEW i \in 0 .. W - 1
  PROVE  i \in Ones(W, g) <=> ((i + 1 \in Ones(W, g)) # (i \in g))
  <1> DEFINE a == {j \in g : j >= i}
             b == {j \in g : j >= i + 1}
  <1>0. \A j \in g : j < W /\ (j >= i <=> j >= i + 1 \/ j = i) /\ ~(j >= i + 1 /\ j = i)
                    /\ (i + 1 \notin 0 .. W - 1 => ~(j >= i + 1))
    OBVIOUS
  <1>1. IsFiniteSet(g)
    <2>1. 0 \in Int /\ W - 1 \in Int
      OBVIOUS
    <2>2. IsFiniteSet(0 .. W - 1)
      BY <2>1, FS_Interval
    <2> QED BY <2>2, FS_Subset
  <1>2. IsFiniteSet(b) /\ Cardinality(b) \in Nat
    <2>1. b \in SUBSET g
      OBVIOUS
    <2>2. IsFiniteSet(b)
      BY <1>1, <2>1, FS_Subset
    <2> QED BY <2>2, FS_CardinalityType
  <1>3. i + 1 \in Ones(W, g) <=> Cardinality(b) % 2 = 1
    <2>1. CASE i + 1 \in 0 .. W - 1
      BY <2>1 DEF Ones
    <2>2. CASE i + 1 \notin 0 .. W - 1
      <3>1. b = {}
        BY <1>0, <2>2
      <3>2. Cardinality(b) = 0
        BY <3>1, FS_EmptySet
      <3> QED BY <2>2, <3>2 DEF Ones
    <2> QED BY <2>1, <2>2
  <1>4. i \in Ones(W, g) <=> Cardinality(a) % 2 = 1
    BY DEF Ones
  <1>5. CASE i \in g
    <2>1. a = b \cup {i} /\ i \notin b
      BY <1>0, <1>5, Zenon
    <2> HIDE DEF a, b
    <2>2. Cardinality(a) = Cardinality(b) + 1
      BY <1>2, <2>1, FS_AddElement
    <2>3. ASSUME NEW k \in Nat PROVE (k + 1) % 2 = 1 <=> ~(k % 2 = 1)
      OBVIOUS
    <2> QED BY <1>2, <1>3, <1>4, <1>5, <2>2, <2>3
  <1>6. CASE i \notin g
    <2>1. a = b
      BY <1>0, <1>6, Zenon
    <2> QED BY <1>3, <1>4, <1>6, <2>1
  <1> QED BY <1>5, <1>6

LEMMA ReadFacts ==
  ASSUME NEW W \in Nat, Powers(W), NEW g \in SUBSET (0 .. W - 1)
  PROVE  BinOf(W, g) \in Nat /\ BinOf(W, g) < 2^W /\ Bits(W, BinOf(W, g)) = Ones(W, g)
  <1>1. Ones(W, g) \in SUBSET (0 .. W - 1)
    BY DEF Ones
  <1>2. BinOf(W, g) = MapThenSumSet(LAMBDA i : 2^i, Ones(W, g))
    BY DEF BinOf, Ones
  <1>3. BinOf(W, g) = Number(W, Ones(W, g))
    BY <1>1, <1>2, SumOfPowers
  <1> QED BY <1>1, <1>3, NumberExists

\* A capture of the gates while the counter goes from m to n reads right above the highest
\* bit that changes.
LEMMA ReadAboveCarry ==
  ASSUME NEW W \in Nat, Powers(W), NEW m \in Nat, m < 2^W, NEW n \in Nat, n < 2^W,
         NEW g \in InFlightXor(W, m, n), NEW c \in 0 .. W, Rest(m, c) = Rest(n, c)
  PROVE  BinOf(W, g) \in Nat /\ Rest(BinOf(W, g), c) = Rest(n, c)
  <1> DEFINE r == BinOf(W, g)
  <1>1. g \in SUBSET (0 .. W - 1)
    BY DEF InFlightXor
  <1>2. r \in Nat /\ r < 2^W /\ Bits(W, r) = Ones(W, g)
    BY <1>1, ReadFacts
  <1> HIDE DEF r
  <1>3. \A i \in c .. W : Rest(m, i) = Rest(n, i)
    <2> DEFINE S == {i \in c .. W : Rest(m, i) = Rest(n, i)}
    <2>1. c \in S /\ c \in Nat
      OBVIOUS
    <2>2. ASSUME NEW i \in c .. W - 1, i \in S PROVE i + 1 \in S
      <3>1. \A k \in Nat : Rest(k, i + 1) = Rest(k, i) \div 2
        BY RestFacts
      <3>2. Rest(m, i) = Rest(n, i)
        BY <2>2
      <3>3. Rest(m, i + 1) = Rest(n, i + 1)
        BY <3>1, <3>2
      <3> QED BY <3>3
    <2> HIDE DEF S
    <2>3. \A i \in c .. W : i \in S
      BY <2>1, <2>2, Induct
    <2> QED BY <2>3 DEF S
  <1>4. \A i \in c .. W : i \in Bits(W, m) <=> i \in Bits(W, n)
    <2> SUFFICES ASSUME NEW i \in c .. W PROVE i \in Bits(W, m) <=> i \in Bits(W, n)
      OBVIOUS
    <2>1. Bit(m, i) = Bit(n, i) /\ i \in Nat
      BY <1>3 DEF Bit
    <2> QED BY <2>1, BitsOfRest
  <1>5. \A i \in c .. W - 1 : i \in g <=> ((i + 1 \in Bits(W, n)) # (i \in Bits(W, n)))
    <2> SUFFICES ASSUME NEW i \in c .. W - 1
                 PROVE  i \in g <=> ((i + 1 \in Bits(W, n)) # (i \in Bits(W, n)))
      OBVIOUS
    <2>1. PICK hi \in {Bits(W, m), Bits(W, n)}, lo \in {Bits(W, m), Bits(W, n)} :
            (i \in g) = ((i + 1 \in hi) # (i \in lo))
      BY DEF InFlightXor
    <2>2. i \in c .. W /\ i + 1 \in c .. W
      OBVIOUS
    <2>3. i + 1 \in hi <=> i + 1 \in Bits(W, n)
      BY <1>4, <2>2
    <2>4. i \in lo <=> i \in Bits(W, n)
      BY <1>4, <2>2
    <2> QED BY <2>1, <2>3, <2>4
  <1> DEFINE S == {i \in c .. W : Rest(r, i) = Rest(n, i)}
  <1>6. W \in S
    BY <1>2, RestFacts
  <1>7. ASSUME NEW i \in c .. W - 1, i + 1 \in S PROVE i \in S
    <2>1. i \in Nat /\ i \in 0 .. W - 1 /\ i \in 0 .. W /\ i + 1 \in Nat
      OBVIOUS
    <2>2. Rest(r, i + 1) = Rest(n, i + 1)
      BY <1>7
    <2>3. i + 1 \in Bits(W, r) <=> i + 1 \in Bits(W, n)
      <3>1. Bit(r, i + 1) = Bit(n, i + 1)
        BY <2>2 DEF Bit
      <3> QED BY <2>1, <3>1, BitsOfRest
    <2>4. i \in Bits(W, r) <=> ((i + 1 \in Bits(W, r)) # (i \in g))
      BY <1>1, <1>2, <2>1, OnesStep
    <2>5. i \in Bits(W, r) <=> i \in Bits(W, n)
      BY <1>5, <2>3, <2>4
    <2>6. Bit(r, i) = 1 <=> Bit(n, i) = 1
      BY <2>1, <2>5, BitsOfRest
    <2>7. Rest(r, i) = 2 * Rest(r, i + 1) + Bit(r, i) /\ Bit(r, i) \in {0, 1}
      BY Zenon, <1>2, <2>1, EachRestStep
    <2>8. Rest(n, i) = 2 * Rest(n, i + 1) + Bit(n, i) /\ Bit(n, i) \in {0, 1}
      BY Zenon, <2>1, EachRestStep
    <2>9. Bit(r, i) = Bit(n, i)
      BY <2>6, <2>7, <2>8
    <2>10. Rest(r, i) = Rest(n, i)
      BY <2>2, <2>7, <2>8, <2>9
    <2> QED BY <2>10
  <1> HIDE DEF S
  <1>8. c \in Nat
    OBVIOUS
  <1>9. \A i \in c .. W : i \in S
    BY <1>6, <1>7, <1>8, Descend
  <1>10. Rest(r, c) = Rest(n, c)
    BY <1>9 DEF S
  <1> QED BY <1>2, <1>10 DEF r
=============================================================================
