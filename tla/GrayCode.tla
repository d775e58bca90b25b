------------------------------ MODULE GrayCode ------------------------------
(***************************************************************************)
(* Gray coding of a W-bit bus, and what a flip-flop of another clock       *)
(* domain may capture from a bus that is changing.                         *)
(*                                                                         *)
(* A W-bit word is the set of the positions that hold a 1, so that an      *)
(* exclusive-or is a symmetric difference and "each changed bit is old or  *)
(* new" is a statement about subsets.                                      *)
(***************************************************************************)
EXTENDS Integers, FiniteSets, FiniteSetsExt

\* The word that represents the number n in W bits.
Bits(W, n) == {i \in 0 .. W-1 : (n \div 2^i) % 2 = 1}

\* (n >> 1) ^ n
GrayOf(W, n) == {i \in 0 .. W-1 : (i \in Bits(W, n)) # (i + 1 \in Bits(W, n))}

\* A variant with a defect: the reduction of the bits below.
BinOfLowBits(W, gray) ==
  LET ones == {i \in 0 .. W-1 : Cardinality({j \in gray : j <= i}) % 2 = 1}
  IN  MapThenSumSet(LAMBDA i : 2^i, ones)

\* binary[i] is the XOR reduction of gray[W-1:i].
BinOf(W, gray) ==
  LET ones == {i \in 0 .. W-1 : Cardinality({j \in gray : j >= i}) % 2 = 1}
  IN  MapThenSumSet(LAMBDA i : 2^i, ones)

\* The word with its top two bits inverted.
FlipTopTwo(W, word) ==
  LET top == {W-1, W-2} IN (word \ top) \cup (top \ word)

(***************************************************************************)
(* A bus driven by flip-flops goes from word a to word b. A capture in     *)
(* flight takes each changed bit at its old or its new value: the bits     *)
(* have their own delays, and a metastable bit resolves either way.        *)
(***************************************************************************)
InFlight(a, b) == {(a \cap b) \cup s : s \in SUBSET ((a \ b) \cup (b \ a))}

(***************************************************************************)
(* A Gray code that is COMPUTED from a binary register by gates, while the *)
(* register goes from m to n. Each XOR gate has two inputs with delays of  *)
(* their own, so a capture may find every input of every gate old or new.  *)
(***************************************************************************)
InFlightXor(W, m, n) ==
  {g \in SUBSET (0 .. W-1) :
     \A i \in 0 .. W-1 :
       \E hi, lo \in {Bits(W, m), Bits(W, n)} :
         (i \in g) = ((i + 1 \in hi) # (i \in lo))}
=============================================================================
