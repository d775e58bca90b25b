-------------------------- MODULE AsyncFifo_proofs --------------------------
(***************************************************************************)
(* Proofs about AsyncFifo, for every depth and every set of words.         *)
(***************************************************************************)
EXTENDS AsyncFifo, GrayCode_proofs, SequenceTheorems, TLAPS

Opposite(p) == IF p < DEPTH THEN p + DEPTH ELSE p - DEPTH

(***************************************************************************)
(* The arithmetic of the code, for this depth (GrayCode_proofs). What the  *)
(* provers take for granted of powers of two, TLC evaluates.               *)
(***************************************************************************)
ASSUME PowersOfTwo == Powers(PtrWidth)

LEMMA RingIsPower == /\ PtrWidth \in Nat /\ PtrWidth >= 3 /\ PtrWidth - 1 = ADDR_WIDTH
                     /\ DEPTH \in Nat \ {0} /\ 2^PtrWidth = 2 * DEPTH
  <1>1. PtrWidth \in Nat /\ PtrWidth >= 3 /\ PtrWidth - 1 = ADDR_WIDTH /\ ADDR_WIDTH \in 0 .. PtrWidth
    BY AddrWidthAssumption DEF PtrWidth
  <1>2. 2^ADDR_WIDTH \in Nat \ {0} /\ 2^(ADDR_WIDTH + 1) = 2 * 2^ADDR_WIDTH
    BY <1>1, PowersOfTwo DEF Powers
  <1> QED BY <1>1, <1>2 DEF DEPTH, PtrWidth

LEMMA DepthIsPositive == DEPTH \in Nat \ {0}
  BY RingIsPower

\* No two pointers share a code; a lap away the code has its top two bits inverted; and a
\* step, the wrap included, caught in flight shows the old code or the new one.
LEMMA GrayOfRing ==
  /\ \A p, q \in Ptr : Gray[p] = Gray[q] => p = q
  /\ \A p \in Ptr : FlipTopTwo(PtrWidth, Gray[p]) = Gray[Opposite(p)]
  /\ \A p \in Ptr : InFlight(Gray[p], Gray[Succ(p)]) = {Gray[p], Gray[Succ(p)]}
  <1>1. \A p \in Ptr : p \in Nat /\ p < 2^PtrWidth /\ Gray[p] = GrayOf(PtrWidth, p)
    BY RingIsPower DEF Ptr, Gray
  <1>2. ASSUME NEW p \in Ptr, NEW q \in Ptr, Gray[p] = Gray[q] PROVE p = q
    BY <1>1, <1>2, RingIsPower, PowersOfTwo, CodesDiffer
  <1>3. ASSUME NEW p \in Ptr PROVE FlipTopTwo(PtrWidth, Gray[p]) = Gray[Opposite(p)]
    <2>1. \A n \in Nat : n < DEPTH =>
            /\ FlipTopTwo(PtrWidth, GrayOf(PtrWidth, n)) = GrayOf(PtrWidth, n + DEPTH)
            /\ FlipTopTwo(PtrWidth, GrayOf(PtrWidth, n + DEPTH)) = GrayOf(PtrWidth, n)
      BY RingIsPower, PowersOfTwo, HalfRing DEF DEPTH
    <2>2. CASE p < DEPTH
      <3>1. Opposite(p) \in Ptr /\ Opposite(p) = p + DEPTH /\ p \in Nat
        BY <2>2, RingIsPower DEF Opposite, Ptr
      <3> QED BY <1>1, <2>1, <2>2, <3>1
    <2>3. CASE ~(p < DEPTH)
      <3>1. Opposite(p) \in Ptr /\ Opposite(p) \in Nat /\ Opposite(p) < DEPTH /\ Opposite(p) + DEPTH = p
        BY <2>3, RingIsPower DEF Opposite, Ptr
      <3> QED BY <1>1, <2>1, <3>1
    <2> QED BY <2>2, <2>3
  <1>4. ASSUME NEW p \in Ptr PROVE InFlight(Gray[p], Gray[Succ(p)]) = {Gray[p], Gray[Succ(p)]}
    <2>1. p \in Nat /\ Succ(p) \in Ptr
      BY RingIsPower DEF Ptr, Succ
    <2>2. GrayOf(PtrWidth, Succ(p)) = GrayOf(PtrWidth, p + 1)
      <3>1. CASE p = 2 * DEPTH - 1
        <4>1. Succ(p) = 0 /\ p + 1 = 2^PtrWidth
          BY <3>1, RingIsPower DEF Succ
        <4> QED BY <4>1, RingIsPower, PowersOfTwo, CodeWraps
      <3>2. CASE p # 2 * DEPTH - 1
        BY <3>2 DEF Succ
      <3> QED BY <3>1, <3>2
    <2>3. InFlight(GrayOf(PtrWidth, p), GrayOf(PtrWidth, p + 1)) = {GrayOf(PtrWidth, p), GrayOf(PtrWidth, p + 1)}
      BY <2>1, RingIsPower, PowersOfTwo, StepInFlight
    <2> QED BY <1>1, <2>1, <2>2, <2>3
  <1> QED BY <1>2, <1>3, <1>4

-----------------------------------------------------------------------------
(***************************************************************************)
(* The inductive invariant. Measured by how far each pointer value lies    *)
(* behind wr_bin, the write pointers in flight and in the read domain's    *)
(* flops, the read pointer, and the read pointers in flight and in the     *)
(* write domain's flops form one chain that is at most DEPTH long. The     *)
(* registered flags refer to its two ends that the domains can see.        *)
(***************************************************************************)
Behind(p) == Dist(p, wr_bin)

Chain ==
  /\ Behind(wr_fly) <= Behind(Value(wr_ff1))
  /\ Behind(Value(wr_ff1)) <= Behind(Value(wr_gray_sync_rd))
  /\ Behind(Value(wr_gray_sync_rd)) <= Behind(rd_bin)
  /\ Behind(rd_bin) <= Behind(rd_fly)
  /\ Behind(rd_fly) <= Behind(Value(rd_ff1))
  /\ Behind(Value(rd_ff1)) <= Behind(Value(rd_gray_sync_wr))
  /\ Behind(Value(rd_gray_sync_wr)) <= DEPTH

OneStepInFlight ==
  /\ wr_bin \in {wr_fly, Succ(wr_fly)}
  /\ rd_bin \in {rd_fly, Succ(rd_fly)}

FlagsMatch ==
  /\ ~full => Behind(Value(rd_gray_sync_wr)) < DEPTH
  /\ ~empty => Behind(Value(wr_gray_sync_rd)) < Behind(rd_bin)

IInv ==
  /\ TypeOK
  /\ Codes \subseteq {Gray[p] : p \in Ptr}
  /\ OneStepInFlight
  /\ Chain
  /\ FlagsMatch

-----------------------------------------------------------------------------
\* The ring: Succ and Dist.
LEMMA SuccType == \A p \in Ptr : Succ(p) \in Ptr /\ Opposite(p) \in Ptr
  BY DepthIsPositive DEF Ptr, Succ, Opposite

LEMMA DistType == \A a, b \in Ptr : Dist(a, b) \in 0 .. 2*DEPTH - 1
  BY DepthIsPositive DEF Ptr, Dist

LEMMA DistZero == \A a, b \in Ptr : Dist(a, b) = 0 <=> a = b
  BY DepthIsPositive DEF Ptr, Dist

\* The later pointer moves on.
LEMMA DistLater ==
  \A a, b \in Ptr :
    Dist(a, b) < 2*DEPTH - 1 => Dist(a, Succ(b)) = Dist(a, b) + 1
  BY DepthIsPositive DEF Ptr, Dist, Succ

\* The earlier pointer moves on.
LEMMA DistEarlier ==
  \A a, b \in Ptr : Dist(a, b) > 0 => Dist(Succ(a), b) = Dist(a, b) - 1
  BY DepthIsPositive DEF Ptr, Dist, Succ

LEMMA DistOpposite ==
  \A a, b \in Ptr : b = Opposite(a) <=> Dist(a, b) = DEPTH
  BY DepthIsPositive DEF Ptr, Dist, Opposite

-----------------------------------------------------------------------------
\* The code: Value undoes Gray, and the comparisons of codes in the flag
\* logic are comparisons of distances.
LEMMA ValueOfGray == \A p \in Ptr : Value(Gray[p]) = p
  <1>1. SUFFICES ASSUME NEW p \in Ptr PROVE Value(Gray[p]) = p
    OBVIOUS
  <1>2. \E q \in Ptr : Gray[q] = Gray[p]
    OBVIOUS
  <1>3. Value(Gray[p]) \in Ptr /\ Gray[Value(Gray[p])] = Gray[p]
    BY <1>2 DEF Value
  <1> QED
    BY <1>3, GrayOfRing

LEMMA GrayOfValue ==
  \A c \in {Gray[p] : p \in Ptr} : Value(c) \in Ptr /\ Gray[Value(c)] = c
  BY ValueOfGray

LEMMA GrayType == \A p \in Ptr : Gray[p] \in SUBSET (0 .. PtrWidth-1)
  BY DEF Gray, GrayOf

LEMMA InFlightSame == \A a : InFlight(a, a) = {a}
  <1>1. SUFFICES ASSUME NEW a PROVE InFlight(a, a) = {a}
    OBVIOUS
  <1>2. (a \ a) \cup (a \ a) = {}
    OBVIOUS
  <1>3. InFlight(a, a) = {(a \cap a) \cup s : s \in SUBSET {}}
    BY <1>2 DEF InFlight
  <1>4. \A s \in SUBSET {} : (a \cap a) \cup s = a
    OBVIOUS
  <1>5. {} \in SUBSET {}
    OBVIOUS
  <1> QED
    BY <1>3, <1>4, <1>5

\* A capture of a pointer that took at most one step is a real code.
LEMMA CaptureIsReal ==
  ASSUME NEW p \in Ptr, NEW q \in {p, Succ(p)}, NEW c \in InFlight(Gray[p], Gray[q])
  PROVE  c \in {Gray[p], Gray[q]}
  BY InFlightSame, GrayOfRing

LEMMA FullTest ==
  ASSUME NEW w \in Ptr, rd_gray_sync_wr \in {Gray[p] : p \in Ptr}
  PROVE  FullAt(w) <=> Dist(Value(rd_gray_sync_wr), w) = DEPTH
  <1> DEFINE r == Value(rd_gray_sync_wr)
  <1>1. r \in Ptr /\ Gray[r] = rd_gray_sync_wr
    BY GrayOfValue
  <1>2. FlipTopTwo(PtrWidth, rd_gray_sync_wr) = Gray[Opposite(r)]
    BY <1>1, GrayOfRing
  <1>3. FullAt(w) <=> w = Opposite(r)
    BY <1>1, <1>2, SuccType, GrayOfRing DEF FullAt
  <1> QED
    BY <1>1, <1>3, DistOpposite

LEMMA EmptyTest ==
  ASSUME NEW r \in Ptr, wr_gray_sync_rd \in {Gray[p] : p \in Ptr}
  PROVE  EmptyAt(r) <=> Value(wr_gray_sync_rd) = r
  BY GrayOfValue, ValueOfGray DEF EmptyAt

-----------------------------------------------------------------------------
LEMMA SlotType == \A p \in Ptr : Slot(p) \in 0 .. DEPTH-1
  BY DepthIsPositive DEF Ptr, Slot

LEMMA ZeroIsPtr == 0 \in Ptr
  BY DepthIsPositive DEF Ptr

LEMMA InitIInv == Init => IInv
  <1>1. SUFFICES ASSUME Init PROVE IInv
    OBVIOUS
  <1>2. TypeOK
    BY <1>1, ZeroIsPtr, GrayType DEF Init, TypeOK, Codes
  <1>3. Codes \subseteq {Gray[p] : p \in Ptr}
    BY <1>1, ZeroIsPtr DEF Init, Codes
  <1>4. Value(Gray[0]) = 0 /\ Dist(0, 0) = 0
    BY ZeroIsPtr, ValueOfGray, DistZero
  <1>5. OneStepInFlight /\ Chain /\ FlagsMatch
    BY <1>1, <1>4, DepthIsPositive
    DEF Init, OneStepInFlight, Chain, FlagsMatch, Behind
  <1> QED
    BY <1>2, <1>3, <1>5 DEF IInv

\* An edge of the write clock.
LEMMA WrClkIInv ==
  ASSUME IInv, NEW en \in BOOLEAN, NEW word \in Data, WrClk(en, word)
  PROVE  IInv'
  <1> USE DepthIsPositive
  <1> DEFINE do_wr == en /\ ~full
             w == wr_bin
             Code(p) == Gray[p]
  <1>1. /\ wr_bin \in Ptr /\ rd_bin \in Ptr /\ wr_fly \in Ptr /\ rd_fly \in Ptr
        /\ mem \in [0 .. DEPTH-1 -> Data]
        /\ full \in BOOLEAN /\ empty \in BOOLEAN /\ overflow \in BOOLEAN
    BY DEF IInv, TypeOK
  <1>2. /\ wr_ff1 \in {Gray[p] : p \in Ptr} /\ wr_gray_sync_rd \in {Gray[p] : p \in Ptr}
        /\ rd_ff1 \in {Gray[p] : p \in Ptr} /\ rd_gray_sync_wr \in {Gray[p] : p \in Ptr}
    BY DEF IInv, Codes
  <1>3. /\ wr_bin' = IF do_wr THEN Succ(w) ELSE w
        /\ wr_fly' = w /\ rd_fly' = rd_bin
        /\ rd_ff1' \in InFlight(Gray[rd_fly], Gray[rd_bin])
        /\ rd_gray_sync_wr' = rd_ff1
        /\ full' = FullAt(wr_bin')
        /\ UNCHANGED <<rd_bin, empty, wr_ff1, wr_gray_sync_rd>>
    BY DEF WrClk, rdVars
  <1>4. wr_bin' \in Ptr
    BY <1>1, <1>3, SuccType
  <1>5. rd_ff1' \in {Gray[rd_fly], Gray[rd_bin]}
    BY <1>1, <1>3, CaptureIsReal DEF IInv, OneStepInFlight
  <1>6. full' \in BOOLEAN
    BY <1>3 DEF FullAt
  <1>7. TypeOK'
    <2>1. mem' \in [0 .. DEPTH-1 -> Data]
      BY <1>1, SlotType DEF WrClk
    <2>2. overflow' \in BOOLEAN
      BY <1>1 DEF WrClk
    <2>3. Codes' \subseteq SUBSET (0 .. PtrWidth-1)
      BY <1>1, <1>2, <1>3, <1>5, GrayType DEF Codes
    <2> QED
      BY <1>1, <1>3, <1>4, <1>6, <2>1, <2>2, <2>3 DEF TypeOK
  <1>8. Codes' \subseteq {Gray[p] : p \in Ptr}
    BY <1>1, <1>2, <1>3, <1>5 DEF Codes
  <1>9. OneStepInFlight'
    BY <1>3 DEF OneStepInFlight
  \* The pointer values of the chain, before and after the edge.
  <1> DEFINE a1 == Value(wr_ff1)
             a2 == Value(wr_gray_sync_rd)
             b1 == Value(rd_ff1)
             b2 == Value(rd_gray_sync_wr)
  <1>10. a1 \in Ptr /\ a2 \in Ptr /\ b1 \in Ptr /\ b2 \in Ptr
    BY <1>2, GrayOfValue
  <1>11. /\ Value(wr_ff1)' = a1 /\ Value(wr_gray_sync_rd)' = a2
         /\ Value(rd_gray_sync_wr)' = b1
         /\ Value(rd_ff1)' \in {rd_fly, rd_bin}
    BY <1>1, <1>3, <1>5, ValueOfGray DEF Value
  <1>12. /\ Dist(wr_fly, w) <= Dist(a1, w) /\ Dist(a1, w) <= Dist(a2, w)
         /\ Dist(a2, w) <= Dist(rd_bin, w) /\ Dist(rd_bin, w) <= Dist(rd_fly, w)
         /\ Dist(rd_fly, w) <= Dist(b1, w) /\ Dist(b1, w) <= Dist(b2, w)
         /\ Dist(b2, w) <= DEPTH /\ (~full => Dist(b2, w) < DEPTH)
         /\ ~empty => Dist(a2, w) < Dist(rd_bin, w)
    BY DEF IInv, Chain, FlagsMatch, Behind
  <1>13. /\ Dist(wr_fly, w) \in Nat /\ Dist(a1, w) \in Nat /\ Dist(a2, w) \in Nat
         /\ Dist(rd_bin, w) \in Nat /\ Dist(rd_fly, w) \in Nat
         /\ Dist(b1, w) \in Nat /\ Dist(b2, w) \in Nat
    BY <1>1, <1>10, DistType
  <1> DEFINE step == IF do_wr THEN 1 ELSE 0
  <1>14. \A p \in {a1, a2, rd_bin, rd_fly, b1, b2, w} :
           Dist(p, wr_bin') = Dist(p, w) + step
    <2>1. CASE do_wr
      <3>1. \A p \in {a1, a2, rd_bin, rd_fly, b1, b2, w} :
              p \in Ptr /\ Dist(p, w) \in Nat /\ Dist(p, w) < 2*DEPTH - 1
        BY <1>1, <1>10, <1>12, <1>13, <2>1, DistZero
      <3> QED
        BY <1>1, <1>3, <2>1, <3>1, DistLater
    <2>2. CASE ~do_wr
      BY <1>1, <1>3, <1>10, <1>13, <2>2, DistZero
    <2> QED
      BY <2>1, <2>2
  <1>15. Dist(w, wr_bin') <= Dist(a1, wr_bin')
    BY <1>1, <1>13, <1>14, DistZero
  <1>16. Dist(b2, wr_bin') <= DEPTH /\ (full' <=> Dist(b2, wr_bin') = DEPTH)
    <2>1. Dist(b2, wr_bin') <= DEPTH
      BY <1>12, <1>13, <1>14
    <2> QED
      BY <1>2, <1>3, <1>4, <2>1, FullTest
  <1>17. Chain'
    BY <1>3, <1>11, <1>12, <1>13, <1>14, <1>15, <1>16 DEF Chain, Behind, Dist
  <1>18. FlagsMatch'
    BY <1>3, <1>11, <1>12, <1>13, <1>14, <1>16 DEF FlagsMatch, Behind, Dist
  <1> QED
    BY <1>7, <1>8, <1>9, <1>17, <1>18 DEF IInv

\* An edge of the read clock.
LEMMA RdClkIInv ==
  ASSUME IInv, NEW en \in BOOLEAN, RdClk(en)
  PROVE  IInv'
  <1> USE DepthIsPositive
  <1> DEFINE do_rd == en /\ ~empty
             w == wr_bin
             r == rd_bin
  <1>1. /\ wr_bin \in Ptr /\ rd_bin \in Ptr /\ wr_fly \in Ptr /\ rd_fly \in Ptr
        /\ mem \in [0 .. DEPTH-1 -> Data]
        /\ full \in BOOLEAN /\ empty \in BOOLEAN /\ overflow \in BOOLEAN
    BY DEF IInv, TypeOK
  <1>2. /\ wr_ff1 \in {Gray[p] : p \in Ptr} /\ wr_gray_sync_rd \in {Gray[p] : p \in Ptr}
        /\ rd_ff1 \in {Gray[p] : p \in Ptr} /\ rd_gray_sync_wr \in {Gray[p] : p \in Ptr}
    BY DEF IInv, Codes
  <1>3. /\ rd_bin' = IF do_rd THEN Succ(r) ELSE r
        /\ rd_fly' = r /\ wr_fly' = w
        /\ wr_ff1' \in InFlight(Gray[wr_fly], Gray[wr_bin])
        /\ wr_gray_sync_rd' = wr_ff1
        /\ empty' = EmptyAt(rd_bin')
        /\ UNCHANGED <<mem, wr_bin, full, overflow, rd_ff1, rd_gray_sync_wr>>
    BY DEF RdClk, wrVars
  <1>4. rd_bin' \in Ptr
    BY <1>1, <1>3, SuccType
  <1>5. wr_ff1' \in {Gray[wr_fly], Gray[wr_bin]}
    BY <1>1, <1>3, CaptureIsReal DEF IInv, OneStepInFlight
  <1>6. empty' \in BOOLEAN
    BY <1>3 DEF EmptyAt
  <1>7. Codes' \subseteq SUBSET (0 .. PtrWidth-1)
    BY <1>1, <1>2, <1>3, <1>5, GrayType DEF Codes
  <1>8. TypeOK'
    BY <1>1, <1>3, <1>4, <1>6, <1>7 DEF TypeOK
  <1>9. Codes' \subseteq {Gray[p] : p \in Ptr}
    BY <1>1, <1>2, <1>3, <1>5 DEF Codes
  <1>10. OneStepInFlight'
    BY <1>3 DEF OneStepInFlight
  \* The pointer values of the chain, before and after the edge.
  <1> DEFINE a1 == Value(wr_ff1)
             a2 == Value(wr_gray_sync_rd)
             b1 == Value(rd_ff1)
             b2 == Value(rd_gray_sync_wr)
  <1>11. a1 \in Ptr /\ a2 \in Ptr /\ b1 \in Ptr /\ b2 \in Ptr
    BY <1>2, GrayOfValue
  <1>12. /\ Value(rd_ff1)' = b1 /\ Value(rd_gray_sync_wr)' = b2
         /\ Value(wr_gray_sync_rd)' = a1
         /\ Value(wr_ff1)' \in {wr_fly, w}
    BY <1>1, <1>3, <1>5, ValueOfGray DEF Value
  <1>13. /\ Dist(wr_fly, w) <= Dist(a1, w) /\ Dist(a1, w) <= Dist(a2, w)
         /\ Dist(a2, w) <= Dist(r, w) /\ Dist(r, w) <= Dist(rd_fly, w)
         /\ Dist(rd_fly, w) <= Dist(b1, w) /\ Dist(b1, w) <= Dist(b2, w)
         /\ Dist(b2, w) <= DEPTH /\ (~full => Dist(b2, w) < DEPTH)
         /\ ~empty => Dist(a2, w) < Dist(r, w)
    BY DEF IInv, Chain, FlagsMatch, Behind
  <1>14. /\ Dist(wr_fly, w) \in Nat /\ Dist(a1, w) \in Nat /\ Dist(a2, w) \in Nat
         /\ Dist(r, w) \in Nat /\ Dist(rd_fly, w) \in Nat
         /\ Dist(b1, w) \in Nat /\ Dist(b2, w) \in Nat /\ Dist(w, w) = 0
    BY <1>1, <1>11, DistType, DistZero
  <1>15. Dist(rd_bin', w) = IF do_rd THEN Dist(r, w) - 1 ELSE Dist(r, w)
    BY <1>1, <1>3, <1>13, <1>14, DistEarlier
  <1>16. Dist(a2, w) <= Dist(rd_bin', w)
    BY <1>13, <1>14, <1>15
  <1>17. ~empty' => Dist(a2, w) < Dist(rd_bin', w)
    <2>1. SUFFICES ASSUME ~empty', ~(Dist(a2, w) < Dist(rd_bin', w)) PROVE FALSE
      OBVIOUS
    <2>2. Dist(a2, w) = Dist(rd_bin', w)
      BY <1>13, <1>14, <1>15, <1>16, <2>1
    <2>3. a2 = rd_bin'
      BY <1>1, <1>4, <1>11, <2>2 DEF Dist, Ptr
    <2> QED
      BY <1>2, <1>3, <1>4, <2>1, <2>3, EmptyTest
  <1>18. Chain'
    BY <1>3, <1>12, <1>13, <1>14, <1>15, <1>16 DEF Chain, Behind, Dist
  <1>19. FlagsMatch'
    BY <1>3, <1>12, <1>13, <1>14, <1>15, <1>17, <1>16 DEF FlagsMatch, Behind, Dist
  <1> QED
    BY <1>8, <1>9, <1>10, <1>18, <1>19 DEF IInv

LEMMA StutterIInv == IInv /\ UNCHANGED vars => IInv'
  BY DEF IInv, vars, wrVars, rdVars, TypeOK, Codes, OneStepInFlight, Chain,
         FlagsMatch, Behind, Value, Dist

\* The pointers, the codes in flight and the flags are always in the order
\* of Chain: async_fifo.sv at work, whatever the two clocks do.
THEOREM Invariance == Spec => []IInv
  <1>1. IInv /\ [Next]_vars => IInv'
    <2>1. SUFFICES ASSUME IInv, [Next]_vars PROVE IInv'
      OBVIOUS
    <2>2. ASSUME NEW en \in BOOLEAN, NEW word \in Data, WrClk(en, word) PROVE IInv'
      BY <2>1, <2>2, WrClkIInv
    <2>3. ASSUME NEW en \in BOOLEAN, RdClk(en) PROVE IInv'
      BY <2>1, <2>3, RdClkIInv
    <2>4. CASE UNCHANGED vars
      BY <2>1, <2>4, StutterIInv
    <2> QED
      BY <2>1, <2>2, <2>3, <2>4 DEF Next
  <1> QED
    BY InitIInv, <1>1, PTL DEF Spec

\* Every variable keeps its type: the pointers stay on the ring and the
\* synchronizers hold codes of the pointer's width.
THEOREM TypeCorrect == Spec => []TypeOK
  <1>1. IInv => TypeOK
    BY DEF IInv
  <1> QED
    BY Invariance, <1>1, PTL

\* No overwrite and no underflow: the full and empty flags never claim room
\* or a word that is not there (async_fifo.sv:72-130).
LEMMA IInvFlags == IInv => FlagsConservative
  <1>1. SUFFICES ASSUME IInv PROVE FlagsConservative
    OBVIOUS
  <1>2. /\ wr_bin \in Ptr /\ rd_bin \in Ptr /\ rd_fly \in Ptr
        /\ Value(wr_gray_sync_rd) \in Ptr /\ Value(rd_ff1) \in Ptr
        /\ Value(rd_gray_sync_wr) \in Ptr
    BY <1>1, GrayOfValue DEF IInv, TypeOK, Codes
  <1>3. /\ Behind(rd_bin) \in Nat /\ Behind(rd_fly) \in Nat
        /\ Behind(Value(rd_ff1)) \in Nat /\ Behind(Value(rd_gray_sync_wr)) \in Nat
        /\ Behind(Value(wr_gray_sync_rd)) \in Nat
    BY <1>2, DepthIsPositive, DistType DEF Behind
  <1>4. Behind(rd_bin) <= Behind(Value(rd_gray_sync_wr))
    BY <1>1, <1>3 DEF IInv, Chain
  <1> QED
    BY <1>1, <1>3, <1>4, DepthIsPositive
    DEF IInv, Chain, FlagsMatch, FlagsConservative, Occupancy, Behind

THEOREM NoOverwriteNoUnderflow == Spec => []FlagsConservative
  BY Invariance, IInvFlags, PTL

\* Every synchronized code is one the other side had, and the two domains'
\* views of each other stay within one lap (async_fifo.sv:11-13).
THEOREM SynchronizedCodesAreReal == Spec => []CodesAreReal
  <1>1. IInv => CodesAreReal
    <2>1. SUFFICES ASSUME IInv PROVE CodesAreReal
      OBVIOUS
    <2>2. /\ wr_bin \in Ptr /\ rd_bin \in Ptr /\ rd_fly \in Ptr
          /\ Value(rd_ff1) \in Ptr /\ Value(rd_gray_sync_wr) \in Ptr
      BY <2>1, GrayOfValue DEF IInv, TypeOK, Codes
    <2>3. /\ Behind(rd_bin) \in Nat /\ Behind(rd_fly) \in Nat
          /\ Behind(Value(rd_ff1)) \in Nat
      BY <2>2, DepthIsPositive, DistType DEF Behind
    <2>4. Behind(rd_bin) <= Behind(Value(rd_ff1))
      BY <2>1, <2>3 DEF IInv, Chain
    <2> QED
      BY <2>1, <2>4 DEF IInv, Chain, CodesAreReal, Occupancy, Behind
  <1> QED
    BY Invariance, <1>1, PTL
-----------------------------------------------------------------------------
(***************************************************************************)
(* AsyncFifo implements BoundedFifo: each clock edge is an edge of the     *)
(* abstract queue whose contents are the words between the two pointers.   *)
(***************************************************************************)
\* The queue as a sequence, and how Ahead walks the ring.
LEMMA AheadType == \A p \in Ptr, k \in 0 .. DEPTH : Ahead(p, k) \in Ptr
  BY DepthIsPositive DEF Ptr, Ahead

LEMMA AheadZero == \A p \in Ptr : Ahead(p, 0) = p
  BY DepthIsPositive DEF Ptr, Ahead

LEMMA AheadSucc ==
  \A p \in Ptr, k \in 0 .. DEPTH-1 : Ahead(Succ(p), k) = Ahead(p, k + 1)
  BY DepthIsPositive DEF Ptr, Ahead, Succ

\* The write pointer's slot is not the slot of a stored word.
LEMMA SlotIsFree ==
  \A r, w \in Ptr :
    Dist(r, w) < DEPTH =>
      /\ Ahead(r, Dist(r, w)) = w
      /\ \A k \in 0 .. Dist(r, w) - 1 : Slot(Ahead(r, k)) # Slot(w)
  BY DepthIsPositive DEF Ptr, Ahead, Dist, Slot

LEMMA WordsAreSeq ==
  ASSUME NEW m \in [0 .. DEPTH-1 -> Data], NEW p \in Ptr, NEW n \in 0 .. DEPTH
  PROVE  /\ Words(m, p, n) \in Seq(Data)
         /\ Len(Words(m, p, n)) = n
         /\ \A i \in 1 .. n : Words(m, p, n)[i] = m[Slot(Ahead(p, i - 1))]
  <1>1. n \in Nat
    BY DepthIsPositive
  <1>2. ASSUME NEW i \in 1 .. n PROVE m[Slot(Ahead(p, i - 1))] \in Data
    <2>1. i - 1 \in 0 .. DEPTH
      BY <1>2, DepthIsPositive
    <2> QED
      BY <2>1, AheadType, SlotType
  <1>3. Words(m, p, n) \in [1 .. n -> Data]
    BY <1>2 DEF Words
  <1>4. Words(m, p, n) \in Seq(Data)
    BY <1>1, <1>3, SeqDef
  <1>5. Len(Words(m, p, n)) = n
    BY <1>1, <1>3, <1>4, LenProperties
  <1> QED
    BY <1>4, <1>5 DEF Words

\* Storing a word in the slot of the write pointer appends it to the queue.
LEMMA StoreAppends ==
  ASSUME NEW m \in [0 .. DEPTH-1 -> Data], NEW r \in Ptr, NEW w \in Ptr,
         NEW word \in Data, Dist(r, w) < DEPTH
  PROVE  Words([m EXCEPT ![Slot(w)] = word], r, Dist(r, w) + 1)
           = Append(Words(m, r, Dist(r, w)), word)
  <1> DEFINE n == Dist(r, w)
             m2 == [m EXCEPT ![Slot(w)] = word]
             old == Words(m, r, n)
             new == Words(m2, r, n + 1)
  <1>1. n \in 0 .. DEPTH /\ n + 1 \in 0 .. DEPTH /\ n \in Nat
    BY DistType, DepthIsPositive
  <1>2. m2 \in [0 .. DEPTH-1 -> Data]
    BY SlotType
  <1>3. /\ old \in Seq(Data) /\ Len(old) = n
        /\ \A i \in 1 .. n : old[i] = m[Slot(Ahead(r, i - 1))]
    BY <1>1, WordsAreSeq
  <1>4. /\ new \in Seq(Data) /\ Len(new) = n + 1
        /\ \A i \in 1 .. n + 1 : new[i] = m2[Slot(Ahead(r, i - 1))]
    BY <1>1, <1>2, WordsAreSeq
  <1>5. /\ Append(old, word) \in Seq(Data) /\ Len(Append(old, word)) = n + 1
        /\ \A i \in 1 .. n : Append(old, word)[i] = old[i]
        /\ Append(old, word)[n + 1] = word
    <2>1. old \in Seq(Data) /\ Len(old) = n
      BY <1>3
    <2> HIDE DEF n, old
    <2> QED BY <2>1, AppendProperties
  <1>6. Ahead(r, n) = w /\ \A k \in 0 .. n - 1 : Slot(Ahead(r, k)) # Slot(w)
    BY SlotIsFree
  <1>7. m2[Slot(w)] = word /\ \A s \in 0 .. DEPTH-1 : s # Slot(w) => m2[s] = m[s]
    BY SlotType
  <1> HIDE DEF n, m2, old, new
  <1>8. ASSUME NEW i \in 1 .. n + 1 PROVE new[i] = Append(old, word)[i]
    <2>1. CASE i = n + 1
      <3>1. i - 1 = n
        BY <1>1, <2>1
      <3> QED
        BY <1>4, <1>5, <1>6, <1>7, <2>1, <3>1
    <2>2. CASE i \in 1 .. n
      <3>1. i - 1 \in 0 .. n - 1 /\ i - 1 \in 0 .. DEPTH
        BY <1>1, <2>2, DepthIsPositive
      <3>2. Slot(Ahead(r, i - 1)) # Slot(w) /\ Slot(Ahead(r, i - 1)) \in 0 .. DEPTH-1
        BY <1>6, <3>1, AheadType, SlotType
      <3> QED
        BY <1>3, <1>4, <1>5, <1>7, <2>2, <3>2
    <2>3. i = n + 1 \/ i \in 1 .. n
      BY <1>1
    <2> QED
      BY <2>1, <2>2, <2>3
  <1>9. new = Append(old, word)
    BY <1>4, <1>5, <1>8, SeqEqual
  <1> QED
    BY <1>9 DEF n, m2, old, new

\* Moving the read pointer past a stored word takes the head off the queue.
LEMMA PopTakesTail ==
  ASSUME NEW m \in [0 .. DEPTH-1 -> Data], NEW r \in Ptr, NEW n \in 1 .. DEPTH
  PROVE  Words(m, Succ(r), n - 1) = Tail(Words(m, r, n))
  <1> DEFINE old == Words(m, r, n)
             new == Words(m, Succ(r), n - 1)
  <1>1. n \in 0 .. DEPTH /\ n - 1 \in 0 .. DEPTH /\ Succ(r) \in Ptr
    BY SuccType, DepthIsPositive
  <1>2. /\ old \in Seq(Data) /\ Len(old) = n
        /\ \A i \in 1 .. n : old[i] = m[Slot(Ahead(r, i - 1))]
    BY <1>1, WordsAreSeq
  <1>3. /\ new \in Seq(Data) /\ Len(new) = n - 1
        /\ \A i \in 1 .. n - 1 : new[i] = m[Slot(Ahead(Succ(r), i - 1))]
    BY <1>1, WordsAreSeq
  <1>4. old # <<>>
    BY <1>2, EmptySeq
  <1>5. /\ Tail(old) \in Seq(Data) /\ Len(Tail(old)) = n - 1
        /\ \A i \in 1 .. n - 1 : Tail(old)[i] = old[i + 1]
    BY <1>2, <1>4, HeadTailProperties
  <1>6. ASSUME NEW i \in 1 .. n - 1 PROVE new[i] = Tail(old)[i]
    <2>1. i - 1 \in 0 .. DEPTH-1 /\ i + 1 \in 1 .. n /\ (i + 1) - 1 = (i - 1) + 1
      BY DepthIsPositive
    <2>2. Ahead(Succ(r), i - 1) = Ahead(r, (i + 1) - 1)
      BY <2>1, AheadSucc
    <2> QED
      BY <1>2, <1>3, <1>5, <1>6, <2>1, <2>2
  <1> HIDE DEF old, new
  <1>7. new = Tail(old)
    BY <1>3, <1>5, <1>6, SeqEqual
  <1> QED
    BY <1>7 DEF old, new

-----------------------------------------------------------------------------
LEMMA OccupancyType ==
  ASSUME IInv
  PROVE  /\ mem \in [0 .. DEPTH-1 -> Data] /\ rd_bin \in Ptr /\ wr_bin \in Ptr
         /\ full \in BOOLEAN /\ empty \in BOOLEAN
         /\ Occupancy \in 0 .. DEPTH
         /\ ~full => Occupancy < DEPTH
         /\ ~empty => Occupancy > 0
  <1>1. rd_bin \in Ptr /\ wr_bin \in Ptr
    BY DEF IInv, TypeOK
  <1>2. Occupancy \in Nat
    BY <1>1, DistType, DepthIsPositive DEF Occupancy
  <1> QED
    BY <1>1, <1>2, IInvFlags, DepthIsPositive DEF IInv, TypeOK, FlagsConservative

LEMMA ContentsLength == IInv => Len(Contents) = Occupancy /\ Contents \in Seq(Data)
  BY OccupancyType, WordsAreSeq DEF Contents

LEMMA InitAbstract == Init => Abstract!FifoInit
  <1>1. SUFFICES ASSUME Init PROVE Abstract!FifoInit
    OBVIOUS
  <1>2. IInv /\ Occupancy = 0
    BY <1>1, InitIInv, ZeroIsPtr, DistZero DEF Init, Occupancy
  <1>3. Contents = <<>>
    BY <1>2, ContentsLength, EmptySeq
  <1> QED
    BY <1>1, <1>3 DEF Init, Abstract!FifoInit

LEMMA WrClkAbstract ==
  ASSUME IInv, IInv', NEW en \in BOOLEAN, NEW word \in Data, WrClk(en, word)
  PROVE  Abstract!WriteEdge(en, word)
  <1> DEFINE do_wr == en /\ ~full
  <1>1. rd_bin' = rd_bin /\ empty' = empty /\ overflow' = (overflow \/ (en /\ full))
    BY DEF WrClk, rdVars
  <1>2. full' \in Abstract!Flag(full, en, Len(Contents') = DEPTH)
    <2>1. FlagsConservative' /\ (Len(Contents) = Occupancy)'
      BY IInvFlags, ContentsLength, PTL
    <2>2. full' \in BOOLEAN /\ (Len(Contents') = DEPTH => full')
      BY <2>1, DepthIsPositive DEF IInv, TypeOK, FlagsConservative
    <2>3. full' => full \/ en
      <3>1. SUFFICES ASSUME full', ~full, ~en PROVE FALSE
        BY OccupancyType
      <3>2. FullAt(wr_bin)
        BY <3>1 DEF WrClk
      <3> QED
        BY <3>1, <3>2, FullTest, OccupancyType, DepthIsPositive, DistType, GrayOfValue
        DEF IInv, Codes, FlagsMatch, Behind
    <2> QED
      BY <2>2, <2>3 DEF Abstract!Flag
  <1>3. Contents' = IF do_wr THEN Append(Contents, word) ELSE Contents
    <2>1. CASE do_wr
      <3>1. Occupancy < DEPTH /\ Occupancy \in Nat
        BY <2>1, OccupancyType
      <3>2. /\ wr_bin' = Succ(wr_bin)
            /\ mem' = [mem EXCEPT ![Slot(wr_bin)] = word]
        BY <2>1 DEF WrClk
      <3>3. Occupancy' = Occupancy + 1
        BY <1>1, <3>1, <3>2, OccupancyType, DistLater, DepthIsPositive DEF Occupancy
      <3> QED
        <4>1. /\ mem \in [0 .. DEPTH-1 -> Data] /\ rd_bin \in Ptr /\ wr_bin \in Ptr
              /\ Dist(rd_bin, wr_bin) < DEPTH
          BY <3>1, OccupancyType DEF Occupancy
        <4>2. Words([mem EXCEPT ![Slot(wr_bin)] = word], rd_bin, Dist(rd_bin, wr_bin) + 1)
                = Append(Words(mem, rd_bin, Dist(rd_bin, wr_bin)), word)
          BY <4>1, StoreAppends
        <4>3. Contents' = Words(mem', rd_bin', Occupancy + 1)
          BY <3>3 DEF Contents
        <4> QED
          BY Zenon, <1>1, <2>1, <3>2, <4>2, <4>3 DEF Contents, Occupancy
    <2>2. CASE ~do_wr
      BY <1>1, <2>2 DEF WrClk, Contents, Occupancy
    <2> QED
      BY <2>1, <2>2
  <1> QED
    BY <1>1, <1>2, <1>3 DEF Abstract!WriteEdge

LEMMA RdClkAbstract ==
  ASSUME IInv, IInv', NEW en \in BOOLEAN, RdClk(en)
  PROVE  Abstract!ReadEdge(en)
  <1> DEFINE do_rd == en /\ ~empty
  <1>1. UNCHANGED <<mem, wr_bin, full, overflow>>
    BY DEF RdClk, wrVars
  <1>2. empty' \in Abstract!Flag(empty, en, Contents' = <<>>)
    <2>1. FlagsConservative' /\ (Len(Contents) = Occupancy)'
      BY IInvFlags, ContentsLength, PTL
    <2>2. ~empty' => Len(Contents') > 0
      BY <2>1 DEF FlagsConservative
    <2>3. empty' \in BOOLEAN /\ (Contents' = <<>> => empty')
      BY <2>2, EmptySeq DEF IInv, TypeOK
    <2>4. empty' => empty \/ en
      <3>1. SUFFICES ASSUME empty', ~empty, ~en PROVE FALSE
        BY OccupancyType
      <3>2. EmptyAt(rd_bin)
        BY <3>1 DEF RdClk
      <3>3. Value(wr_gray_sync_rd) = rd_bin
        BY <3>2, EmptyTest, OccupancyType DEF IInv, Codes
      <3>4. Behind(rd_bin) < Behind(rd_bin) /\ Behind(rd_bin) \in Nat
        BY <3>1, <3>3, OccupancyType, DistType, DepthIsPositive
        DEF IInv, FlagsMatch, Behind
      <3> QED
        BY <3>4
    <2> QED
      BY <2>3, <2>4 DEF Abstract!Flag
  <1>3. Contents' = IF do_rd THEN Tail(Contents) ELSE Contents
    <2>1. CASE do_rd
      <3>1. Occupancy \in 1 .. DEPTH
        BY <2>1, OccupancyType, DepthIsPositive
      <3>2. rd_bin' = Succ(rd_bin)
        BY <2>1 DEF RdClk
      <3>3. Occupancy' = Occupancy - 1
        BY <1>1, <3>1, <3>2, OccupancyType, DistEarlier, DepthIsPositive DEF Occupancy
      <3> QED
        BY <1>1, <2>1, <3>1, <3>2, <3>3, OccupancyType, PopTakesTail DEF Contents
    <2>2. CASE ~do_rd
      BY <1>1, <2>2 DEF RdClk, Contents, Occupancy
    <2> QED
      BY <2>1, <2>2
  <1> QED
    BY <1>1, <1>2, <1>3 DEF Abstract!ReadEdge

\* async_fifo.sv is a bounded queue: what is popped is what was written, once
\* and in order, and a word is refused only with the alarm raised.
THEOREM Refinement == Spec => ImplementsBoundedFifo
  <1>1. IInv /\ IInv' /\ [Next]_vars => [Abstract!FifoNext]_Abstract!fifoVars
    <2>1. SUFFICES ASSUME IInv, IInv', [Next]_vars
                   PROVE  [Abstract!FifoNext]_Abstract!fifoVars
      OBVIOUS
    <2>2. ASSUME NEW en \in BOOLEAN, NEW word \in Data, WrClk(en, word)
          PROVE  Abstract!FifoNext
      BY <2>1, <2>2, WrClkAbstract DEF Abstract!FifoNext
    <2>3. ASSUME NEW en \in BOOLEAN, RdClk(en) PROVE Abstract!FifoNext
      BY <2>1, <2>3, RdClkAbstract DEF Abstract!FifoNext
    <2>4. CASE UNCHANGED vars
      BY <2>4 DEF vars, wrVars, rdVars, Abstract!fifoVars, Contents, Occupancy
    <2> QED
      BY <2>1, <2>2, <2>3, <2>4 DEF Next
  <1> QED
    BY Invariance, InitAbstract, <1>1, PTL DEF Spec, ImplementsBoundedFifo, Abstract!FifoSpec
=============================================================================
