-------------------------- MODULE Crossings_proofs ---------------------------
(***************************************************************************)
(* Proofs about the two other crossings: the word with its toggle          *)
(* (CdcWordPulse), for every set of words and every spacing of at least    *)
(* the contract's three destination clocks, and the counter (GrayCount),   *)
(* for every width.                                                        *)
(***************************************************************************)
EXTENDS CdcWordPulse, GrayCount, GrayCode_proofs, TLAPS

LEMMA InitInv == Init => IInv
  <1> SUFFICES ASSUME Init PROVE IInv
    OBVIOUS
  <1>1. data_q \in Held /\ dst_data \in Held
    BY DEF Init, Held
  <1> Flags
    BY DEF Init, Flags
  <1>2. TypeOK
    BY CdcAssumption, <1>1 DEF Init, TypeOK
  <1>3. Chain /\ Untouched /\ Adopting /\ InReset /\ NoReplay /\ (warmup < 3 => ~dst_valid)
    BY DEF Init, Chain, Untouched, Adopting, InReset, NoReplay
  <1> QED BY <1>2, <1>3 DEF IInv

-----------------------------------------------------------------------------
\* A word that is sent finds the last one settled in every flop that counts.
LEMMA SendStep ==
  ASSUME IInv, NEW w \in Words, SrcSend(w)
  PROVE  IInv'
  <1>1. gap = Spacing /\ gap' = 0 /\ req_tgl' = 1 - req_tgl /\ fly' = req_tgl
    BY DEF SrcSend
  <1>2. TypeOK'
    <2>1. data_q' \in Held
      BY DEF SrcSend, Held
    <2> Flags'
      BY DEF IInv, TypeOK, Flags, SrcSend, dstVars
    <2> QED BY CdcAssumption, <1>1, <2>1 DEF IInv, TypeOK, SrcSend, dstVars
  <1>3. Chain'
    BY CdcAssumption, <1>1 DEF IInv, TypeOK, Chain, SrcSend, dstVars
  <1>4. Untouched' /\ Adopting' /\ InReset'
    BY DEF IInv, Untouched, Adopting, InReset, SrcSend, dstVars
  <1>5. NoReplay' /\ (warmup < 3 => ~dst_valid)'
    BY DEF IInv, NoReplay, SrcSend, dstVars
  <1> QED BY <1>2, <1>3, <1>4, <1>5 DEF IInv

\* Time without a destination clock settles what was in flight.
LEMMA SettleStep ==
  ASSUME IInv, SrcIdle \/ DstStandsStill
  PROVE  IInv'
  <1> Flags'
    BY DEF IInv, TypeOK, Flags, SrcIdle, DstStandsStill, dstVars
  <1>1. TypeOK'
    BY CdcAssumption DEF IInv, TypeOK, SrcIdle, DstStandsStill, srcVars, dstVars, AtMost
  <1>2. Chain'
    BY CdcAssumption
    DEF IInv, TypeOK, Chain, InReset, SrcIdle, DstStandsStill, srcVars, dstVars, AtMost
  <1>3. Untouched' /\ Adopting' /\ InReset'
    BY DEF IInv, Untouched, Adopting, InReset, SrcIdle, DstStandsStill, srcVars, dstVars
  <1>4. NoReplay' /\ (warmup < 3 => ~dst_valid)'
    BY DEF IInv, NoReplay, SrcIdle, DstStandsStill, srcVars, dstVars
  <1> QED BY <1>1, <1>2, <1>3, <1>4 DEF IInv

-----------------------------------------------------------------------------
\* A strobe finds the word settled, real and younger than the last reset.
LEMMA StrobeIsSettled ==
  ASSUME IInv, warmup = 3, tgl_sync # tgl_d
  PROVE  /\ dst_rstn /\ ~old
         /\ fly = req_tgl /\ ff1 = req_tgl /\ tgl_sync = req_tgl
         /\ \E w \in Words : data_q = <<w>>
  <1>1. dst_rstn
    BY DEF IInv, InReset
  <1>2. fly = req_tgl /\ ff1 = req_tgl /\ tgl_sync = req_tgl
    BY DEF IInv, TypeOK, Chain
  <1>3. ~old
    BY <1>1 DEF IInv, Adopting
  <1>4. \E w \in Words : data_q = <<w>>
    BY DEF IInv, TypeOK, Untouched, Held
  <1> QED BY <1>1, <1>2, <1>3, <1>4

\* A destination clock moves the chain by one flop.
LEMMA ClkStep ==
  ASSUME IInv, DstClk
  PROVE  IInv'
  <1>1. /\ req_tgl' = req_tgl /\ data_q' = data_q /\ old' = old /\ dst_rstn' = dst_rstn
        /\ ff1' \in {fly, req_tgl} /\ tgl_sync' = ff1 /\ tgl_d' = tgl_sync /\ fly' = req_tgl
        /\ gap' = IF ff1' = req_tgl THEN AtMost(gap + 1, Spacing) ELSE gap
        /\ warmup' = AtMost(warmup + 1, 3) /\ dst_rstn
        /\ dst_valid' = (warmup = 3 /\ tgl_sync # tgl_d)
    BY DEF DstClk, Synchronize, srcVars
  <1>2. dst_data' \in Held
    <2>1. CASE dst_valid'
      BY <2>1, <1>1, StrobeIsSettled DEF DstClk, Sampled, IInv, TypeOK
    <2>2. CASE ~dst_valid'
      BY <2>2 DEF DstClk, IInv, TypeOK
    <2> QED BY <2>1, <2>2
  <1> Flags'
    BY <1>1 DEF IInv, TypeOK, Flags
  <1>3. TypeOK'
    BY CdcAssumption, <1>1, <1>2 DEF IInv, TypeOK, AtMost
  <1>4. Chain'
    BY CdcAssumption, <1>1 DEF IInv, TypeOK, Chain, AtMost
  <1>5. Untouched'
    BY <1>1 DEF IInv, TypeOK, Untouched
  <1>6. Adopting'
    BY <1>1 DEF IInv, TypeOK, Adopting, AtMost
  <1>7. NoReplay'
    BY <1>1, StrobeIsSettled DEF NoReplay
  <1>8. InReset'
    BY <1>1 DEF InReset
  <1>9. (warmup < 3 => ~dst_valid)'
    <2>1. warmup' < 3 => warmup # 3
      BY <1>1 DEF IInv, TypeOK, AtMost
    <2> QED BY <1>1, <2>1
  <1> QED BY <1>3, <1>4, <1>5, <1>6, <1>7, <1>8, <1>9 DEF IInv

\* The reset's edges, and a clock while it lasts.
LEMMA ResetStep ==
  ASSUME IInv, DstReset \/ DstClkInReset \/ DstRelease
  PROVE  IInv'
  <1>1. CASE DstReset
    <2>1. /\ warmup' = 0 /\ tgl_d' = 0 /\ ~dst_valid' /\ dst_valid' = FALSE /\ dst_data' = <<>>
          /\ ~dst_rstn' /\ UNCHANGED <<req_tgl, data_q, ff1, tgl_sync, fly, gap, old>>
      BY <1>1 DEF DstReset, srcVars
    <2> Flags'
      BY <1>1, <2>1 DEF IInv, TypeOK, Flags, DstReset
    <2> dst_data' \in Held
      BY <2>1 DEF Held
    <2>2. TypeOK'
      BY <2>1 DEF IInv, TypeOK
    <2>3. Chain' /\ Untouched' /\ Adopting' /\ InReset' /\ NoReplay'
      BY <2>1 DEF IInv, TypeOK, Chain, Untouched, Adopting, InReset, NoReplay
    <2> QED BY <2>1, <2>2, <2>3 DEF IInv
  <1>2. CASE DstClkInReset
    <2>1. warmup = 0 /\ warmup' = 0 /\ dst_valid = FALSE /\ dst_valid' = FALSE
      BY <1>2 DEF IInv, InReset, DstClkInReset
    <2> Flags'
      BY <1>2 DEF IInv, TypeOK, Flags, DstClkInReset, Synchronize
    <2>2. TypeOK'
      BY CdcAssumption, <1>2 DEF IInv, TypeOK, DstClkInReset, Synchronize, srcVars, AtMost
    <2>3. Chain'
      BY CdcAssumption, <1>2, <2>1
      DEF IInv, TypeOK, Chain, DstClkInReset, Synchronize, srcVars, AtMost
    <2>4. Untouched' /\ Adopting' /\ InReset'
      BY <1>2 DEF IInv, TypeOK, Untouched, Adopting, InReset, DstClkInReset, Synchronize, srcVars
    <2>5. NoReplay' /\ (warmup < 3 => ~dst_valid)'
      BY <2>1 DEF NoReplay
    <2> QED BY <2>2, <2>3, <2>4, <2>5 DEF IInv
  <1>3. CASE DstRelease
    <2>1. warmup = 0 /\ warmup' = 0 /\ dst_valid = FALSE /\ dst_valid' = FALSE
      BY <1>3 DEF IInv, InReset, DstRelease
    <2> Flags'
      BY <1>3 DEF IInv, TypeOK, Flags, DstRelease
    <2>2. TypeOK'
      BY <1>3 DEF IInv, TypeOK, DstRelease, srcVars
    <2>3. Chain' /\ Untouched'
      BY <1>3, <2>1 DEF IInv, Chain, Untouched, DstRelease, srcVars
    <2>4. old' => fly = req_tgl
      BY <1>3 DEF DstRelease
    <2>5. Adopting' /\ InReset'
      BY <1>3, <2>1, <2>4 DEF Adopting, InReset, DstRelease, srcVars
    <2>6. NoReplay' /\ (warmup < 3 => ~dst_valid)'
      BY <2>1 DEF NoReplay
    <2> QED BY <2>2, <2>3, <2>5, <2>6 DEF IInv
  <1> QED BY <1>1, <1>2, <1>3

\* The invariant is inductive: the toggle's changes stay apart in the chain
\* of flops (cdc_word_pulse.sv:34-73).
THEOREM Invariance == Spec => []IInv
  <1>1. Init => IInv
    BY InitInv
  <1>2. IInv /\ [Next]_vars => IInv'
    <2> SUFFICES ASSUME IInv, [Next]_vars PROVE IInv'
      OBVIOUS
    <2>1. CASE SrcIdle \/ DstStandsStill
      BY <2>1, SettleStep
    <2>2. ASSUME NEW w \in Words, SrcSend(w) PROVE IInv'
      BY <2>2, SendStep
    <2>3. CASE DstClk
      BY <2>3, ClkStep
    <2>4. CASE DstReset \/ DstClkInReset \/ DstRelease
      BY <2>4, ResetStep
    <2>5. CASE UNCHANGED vars
      BY <2>5 DEF vars, srcVars, dstVars, IInv, TypeOK, Flags, Chain, Untouched, Adopting,
                  InReset, NoReplay
    <2> QED BY <2>1, <2>2, <2>3, <2>4, <2>5 DEF Next
  <1> QED BY <1>1, <1>2, PTL DEF Spec

\* A destination reset never replays a word that was there before it, such as
\* an old seconds label (cdc_word_pulse.sv:10-13).
THEOREM ResetReplaysNothing == Spec => []NoReplay
  <1>1. IInv => NoReplay
    BY DEF IInv
  <1> QED BY <1>1, Invariance, PTL

-----------------------------------------------------------------------------
(***************************************************************************)
(* The refinement: every step of the flops is a step of the abstract       *)
(* channel or leaves it alone.                                             *)
(***************************************************************************)
Box == IF req_tgl # Adopted THEN data_q ELSE <<>>
IsUp == dst_rstn /\ warmup = 3

LEMMA ChannelInit == Init => Channel!ChanInit
  BY DEF Init, Channel!ChanInit, Adopted

LEMMA SendIsSend ==
  ASSUME IInv, NEW w \in Words, SrcSend(w)
  PROVE  Channel!Send(w)
  <1>1. /\ gap = Spacing /\ req_tgl' = 1 - req_tgl /\ data_q' = <<w>> /\ fly' = req_tgl
        /\ UNCHANGED <<ff1, tgl_sync, warmup, tgl_d, dst_valid, dst_data, dst_rstn>>
    BY DEF SrcSend, dstVars
  <1>2. IsUp => Box = <<>>
    BY CdcAssumption, <1>1 DEF IInv, TypeOK, Chain, IsUp, Box, Adopted
  <1>3. Adopted' = IF warmup = 0 THEN req_tgl ELSE Adopted
    BY <1>1 DEF Adopted
  <1>4. Box' = <<w>> \/ (~IsUp /\ Box' = <<>>)
    BY CdcAssumption, <1>1, <1>3 DEF IInv, TypeOK, Chain, IsUp, Box, Adopted
  <1>5. IsUp' = IsUp /\ dst_valid' = dst_valid /\ dst_data' = dst_data
    BY <1>1 DEF IsUp
  <1> QED BY <1>2, <1>4, <1>5 DEF Channel!Send, Box, IsUp

\* While the receiver is down, a change that settles is lost.
LEMMA SettlingLoses ==
  ASSUME IInv, SrcIdle \/ DstStandsStill \/ DstClkInReset
  PROVE  Channel!Lose \/ UNCHANGED Channel!chanVars
  <1>1. req_tgl' = req_tgl /\ data_q' = data_q /\ fly' = req_tgl
    BY DEF SrcIdle, DstStandsStill, DstClkInReset, Synchronize, srcVars
  <1>2. /\ warmup' = warmup /\ tgl_d' = tgl_d
        /\ dst_valid' = dst_valid /\ dst_data' = dst_data /\ dst_rstn' = dst_rstn
    BY DEF SrcIdle, DstStandsStill, DstClkInReset, dstVars
  <1>3. IsUp' = IsUp
    BY <1>2 DEF IsUp
  <1>4. CASE warmup = 0
    <2>1. ~IsUp /\ Box' = <<>>
      BY <1>1, <1>2, <1>4 DEF IsUp, Box, Adopted
    <2> QED BY <2>1, <1>2, <1>3 DEF Channel!Lose, Box, IsUp
  <1>5. CASE warmup # 0
    <2>1. ff1' = ff1 /\ tgl_sync' = tgl_sync
      BY <1>5 DEF IInv, InReset, SrcIdle, DstStandsStill, DstClkInReset, dstVars
    <2>2. Box' = Box
      BY <1>1, <1>2, <1>5, <2>1 DEF Box, Adopted
    <2> QED BY <2>2, <1>2, <1>3 DEF Channel!chanVars, Box, IsUp
  <1> QED BY <1>4, <1>5

\* A clock of a receiver that is up delivers or strobes nothing; a warm-up
\* clock loses what it adopts; the last one brings the receiver up.
LEMMA ClkIsDelivery ==
  ASSUME IInv, DstClk
  PROVE  Channel!ChanNext \/ UNCHANGED Channel!chanVars
  <1>1. /\ req_tgl' = req_tgl /\ data_q' = data_q /\ dst_rstn' = dst_rstn /\ dst_rstn
        /\ ff1' \in {fly, req_tgl} /\ tgl_sync' = ff1 /\ tgl_d' = tgl_sync
        /\ warmup' = AtMost(warmup + 1, 3)
        /\ dst_valid' = (warmup = 3 /\ tgl_sync # tgl_d)
    BY DEF DstClk, Synchronize, srcVars
  <1>2. ~dst_valid' => dst_data' = dst_data
    BY DEF DstClk
  <1>3. CASE warmup = 3 /\ tgl_sync # tgl_d
    <2>1. fly = req_tgl /\ tgl_sync = req_tgl
      BY <1>3, StrobeIsSettled
    <2>2. data_q # <<>>
      BY <1>3, StrobeIsSettled
    <2>3. dst_valid' /\ dst_data' = data_q
      BY <1>1, <1>3, <2>1 DEF DstClk, Sampled
    <2>4. IsUp /\ IsUp' /\ Box = data_q /\ Box' = <<>>
      BY <1>1, <1>3, <2>1 DEF IsUp, Box, Adopted, AtMost
    <2>5. dst_valid' = TRUE
      BY <1>1, <1>3
    <2>6. Channel!Deliver
      BY <2>2, <2>3, <2>4, <2>5 DEF Channel!Deliver, Box, IsUp
    <2> QED BY <2>6 DEF Channel!ChanNext
  <1>4. CASE warmup = 3 /\ tgl_sync = tgl_d
    <2>1. dst_valid' = FALSE
      BY <1>1, <1>4
    <2>2. IsUp' = IsUp /\ Box' = Box
      BY <1>1, <1>4 DEF IsUp, Box, Adopted, AtMost
    <2>3. Channel!NoStrobe
      BY <1>2, <2>1, <2>2 DEF Channel!NoStrobe, Box, IsUp
    <2> QED BY <2>3 DEF Channel!ChanNext
  <1>5. CASE warmup < 3
    <2>1. dst_valid = FALSE /\ dst_valid' = FALSE
      BY <1>1, <1>5 DEF IInv, TypeOK, Flags
    <2>2. dst_data' = dst_data
      BY <1>2, <2>1
    <2>3. ~IsUp
      BY <1>5 DEF IsUp
    <2>4. CASE warmup = 2
      <3>1. IsUp' = TRUE /\ Box' = Box
        BY <1>1, <2>4 DEF IsUp, Box, Adopted, AtMost
      <3>2. Channel!Up
        BY <2>1, <2>2, <2>3, <3>1 DEF Channel!Up, Box, IsUp
      <3> QED BY <3>2 DEF Channel!ChanNext
    <2>5. CASE warmup # 2
      <3>1. warmup' = warmup + 1 /\ warmup \in 0 .. 1
        BY <1>1, <1>5, <2>5 DEF IInv, TypeOK, AtMost
      <3>2. Box' = Box \/ Box' = <<>>
        BY <1>1, <3>1 DEF Box, Adopted
      <3>3. IsUp' = IsUp
        BY <3>1, <2>3 DEF IsUp
      <3>4. Channel!Lose \/ UNCHANGED Channel!chanVars
        BY <2>1, <2>2, <2>3, <3>2, <3>3 DEF Channel!Lose, Channel!chanVars, Box, IsUp
      <3> QED BY <3>4 DEF Channel!ChanNext
    <2> QED BY <2>4, <2>5
  <1> QED BY <1>3, <1>4, <1>5 DEF IInv, TypeOK

LEMMA ResetIsDown ==
  ASSUME IInv, DstReset
  PROVE  Channel!Down
  <1>1. /\ warmup' = 0 /\ dst_valid' = FALSE /\ dst_data' = <<>> /\ dst_rstn' = FALSE
        /\ UNCHANGED <<req_tgl, data_q, fly>>
    BY DEF DstReset, srcVars
  <1>2. IsUp' = FALSE
    BY <1>1 DEF IsUp
  <1>3. fly # req_tgl => Adopted = fly
    BY DEF IInv, TypeOK, Chain, Adopted
  <1>4. Box' \in {Box, <<>>}
    BY <1>1, <1>3 DEF Box, Adopted
  <1> QED BY <1>1, <1>2, <1>4 DEF Channel!Down, Box, IsUp

LEMMA ReleaseIsNoStep ==
  ASSUME IInv, DstRelease
  PROVE  UNCHANGED Channel!chanVars
  <1>1. /\ warmup = 0 /\ warmup' = 0 /\ dst_valid' = dst_valid /\ dst_data' = dst_data
        /\ UNCHANGED <<req_tgl, data_q, fly>>
    BY DEF IInv, InReset, DstRelease, srcVars
  <1>2. IsUp' = IsUp /\ Box' = Box
    BY <1>1 DEF IsUp, Box, Adopted
  <1> QED BY <1>1, <1>2 DEF Channel!chanVars, Box, IsUp

\* The crossing is a word channel: a word sent to a receiver that is up is
\* delivered at most once, whole and in order (cdc_word_pulse.sv:1-17).
THEOREM Refinement == Spec => ImplementsWordChannel
  <1>1. Init => Channel!ChanInit
    BY ChannelInit
  <1>2. IInv /\ [Next]_vars => [Channel!ChanNext]_(Channel!chanVars)
    <2> SUFFICES ASSUME IInv, [Next]_vars
                 PROVE  Channel!ChanNext \/ UNCHANGED Channel!chanVars
      OBVIOUS
    <2>1. ASSUME NEW w \in Words, SrcSend(w) PROVE Channel!ChanNext
      BY <2>1, SendIsSend DEF Channel!ChanNext
    <2>2. CASE SrcIdle \/ DstStandsStill \/ DstClkInReset
      BY <2>2, SettlingLoses DEF Channel!ChanNext
    <2>3. CASE DstClk
      BY <2>3, ClkIsDelivery
    <2>4. CASE DstReset
      BY <2>4, ResetIsDown DEF Channel!ChanNext
    <2>5. CASE DstRelease
      BY <2>5, ReleaseIsNoStep
    <2>6. CASE UNCHANGED vars
      BY <2>6 DEF vars, srcVars, dstVars, Channel!chanVars, Adopted
    <2> QED BY <2>1, <2>2, <2>3, <2>4, <2>5, <2>6 DEF Next
  <1> QED BY <1>1, <1>2, Invariance, PTL DEF Spec, ImplementsWordChannel, Channel!ChanSpec

-----------------------------------------------------------------------------
(***************************************************************************)
(* The counter.                                                            *)
(***************************************************************************)
ASSUME CountPowers == Powers(W)

Counts == 0 .. 2^W - 1

LEMMA CountFacts == W \in Nat /\ 2^W \in Nat \ {0} /\ \A n \in Counts : n \in Nat /\ n < 2^W
  <1>1. W \in Nat
    BY WidthAssumption
  <1>2. 2^W \in Nat \ {0}
    BY <1>1, CountPowers DEF Powers
  <1> QED BY <1>1, <1>2 DEF Counts

\* The inductive invariant: a capture is one of the transition that it met.
GrayInv ==
  /\ bin \in Counts /\ gray_fly \in Counts
  /\ met \in Counts \X Counts
  /\ gray_ff1 \in InFlightXor(W, met[1], met[2])

\* The block that holds both ends of a transition.
LEMMA BlockFacts ==
  ASSUME NEW m \in Counts, NEW n \in Counts
  PROVE  \E c \in 0 .. W : BlockSize(m, n) = 2^c /\ Rest(m, c) = Rest(n, c)
  <1> DEFINE Sizes == {2^i : i \in 0 .. W}
             T == {b \in Sizes : m \div b = n \div b}
  <1>1. Sizes \subseteq Nat
    BY CountPowers DEF Powers
  <1>2. 2^W \in T
    <2>1. m \div 2^W = 0 /\ n \div 2^W = 0
      BY CountFacts, CountPowers, RestFacts DEF Rest
    <2>2. W \in 0 .. W
      BY WidthAssumption
    <2> QED BY <2>1, <2>2
  <1>3. PICK b \in T : \A c \in T : b <= c
    <2>1. T \subseteq Nat /\ T # {}
      BY <1>1, <1>2
    <2> HIDE DEF T, Sizes
    <2> QED BY <2>1, Least
  <1>4. \E b_1 \in Sizes : /\ m \div b_1 = n \div b_1
                           /\ \A c \in Sizes : m \div c = n \div c => b_1 <= c
    BY <1>3
  <1>5. BlockSize(m, n) \in Sizes /\ m \div BlockSize(m, n) = n \div BlockSize(m, n)
    BY <1>4 DEF BlockSize
  <1> QED BY <1>5 DEF Rest

\* A capture reads a number of that block; without a carry, one of the two.
LEMMA ReadConfined ==
  ASSUME NEW m \in Counts, NEW n \in Counts, NEW g \in InFlightXor(W, m, n),
         NEW c \in 0 .. W, Rest(m, c) = Rest(n, c)
  PROVE  IF 2^c <= 2 THEN BinOf(W, g) \in {m, n} ELSE BinOf(W, g) \div 2^c = n \div 2^c
  <1> DEFINE r == BinOf(W, g)
  <1>1. m \in Nat /\ n \in Nat /\ m < 2^W /\ n < 2^W /\ W \in Nat
    BY CountFacts
  <1>2. \A i \in 0 .. W : Rest(m, i) = Rest(n, i) => r \in Nat /\ Rest(r, i) = Rest(n, i)
    BY <1>1, CountPowers, ReadAboveCarry
  <1> HIDE DEF r
  <1>3. r \in Nat /\ Rest(r, c) = Rest(n, c)
    BY <1>2
  <1>4. \A k \in Nat : Rest(k, 0) = k
    BY <1>1, CountPowers, RestFacts
  <1>5. ASSUME m = n PROVE r = n
    <2>1. 0 \in 0 .. W
      BY <1>1
    <2> QED BY <1>1, <1>2, <1>4, <1>5, <2>1
  <1>6. ASSUME 2^c <= 2 PROVE c \in {0, 1}
    <2> SUFFICES ASSUME c >= 2 PROVE FALSE
      OBVIOUS
    <2>1. c - 1 \in 0 .. W /\ c - 2 \in 0 .. W /\ (c - 1) + 1 = c /\ (c - 2) + 1 = c - 1
      BY <1>1
    <2>2. 2^c = 2 * 2^(c - 1) /\ 2^(c - 1) = 2 * 2^(c - 2) /\ 2^(c - 2) \in Nat \ {0}
      BY <2>1, CountPowers DEF Powers
    <2> QED BY <1>6, <2>2
  <1>7. CASE c = 0
    <2>1. r = n
      BY <1>1, <1>3, <1>4, <1>7
    <2>2. 2^c = 1
      BY <1>7
    <2> QED BY <2>1, <2>2 DEF r
  <1>8. CASE c = 1
    <2>1. ASSUME NEW k \in Nat
          PROVE  k = 2 * Rest(k, 1) + Bit(k, 0) /\ Bit(k, 0) \in {0, 1} /\ Rest(k, 1) \in Nat
      <3>1. 0 \in 0 .. W /\ 0 + 1 = 1
        BY <1>1
      <3>2. Rest(k, 0) = 2 * Rest(k, 0 + 1) + Bit(k, 0) /\ Bit(k, 0) \in {0, 1} /\ Rest(k, 0 + 1) \in Nat
        BY <1>1, <3>1, CountPowers, RestStep
      <3> QED BY <1>4, <3>1, <3>2
    <2>2. Rest(r, 1) = Rest(n, 1) /\ Rest(m, 1) = Rest(n, 1)
      BY <1>3, <1>8
    <2>3. r = n \/ r = m
      <3>1. CASE m = n
        BY <1>5, <3>1
      <3>2. CASE m # n
        <4>1. Bit(m, 0) # Bit(n, 0)
          BY <1>1, <2>1, <2>2, <3>2
        <4>2. Bit(r, 0) = Bit(m, 0) \/ Bit(r, 0) = Bit(n, 0)
          BY <1>1, <1>3, <2>1, <4>1
        <4>3. r = 2 * Rest(n, 1) + Bit(r, 0)
          BY <1>3, <2>1, <2>2
        <4>4. m = 2 * Rest(n, 1) + Bit(m, 0) /\ n = 2 * Rest(n, 1) + Bit(n, 0)
          BY <1>1, <2>1, <2>2
        <4> QED BY <4>2, <4>3, <4>4
      <3> QED BY <3>1, <3>2
    <2>4. 2^c <= 2
      BY <1>8
    <2> QED BY <2>3, <2>4 DEF r
  <1>9. CASE c \notin {0, 1}
    BY <1>3, <1>6, <1>9 DEF r, Rest
  <1> QED BY <1>7, <1>8, <1>9

LEMMA Settled == \A n \in Counts : GrayOf(W, n) \in InFlightXor(W, n, n)
  BY DEF GrayOf, InFlightXor

\* The capture in the first flop is always one of the transition that it met.
THEOREM CountInvariance == GraySpec => []GrayInv
  <1>1. GrayInit => GrayInv
    <2>1. 0 \in Counts
      BY CountFacts DEF Counts
    <2> QED BY <2>1, Settled DEF GrayInit, GrayInv
  <1>2. GrayInv /\ [GrayNext]_gray_vars => GrayInv'
    <2> SUFFICES ASSUME GrayInv, [GrayNext]_gray_vars PROVE GrayInv'
      OBVIOUS
    <2> USE DEF GrayInv
    <2>1. CASE UNCHANGED gray_vars
      BY <2>1 DEF gray_vars
    <2>2. ASSUME NEW incr \in BOOLEAN, GraySrcClk(incr) PROVE GrayInv'
      <3>1. (bin + 1) % 2^W \in Counts
        <4>1. ASSUME NEW d \in Nat \ {0} PROVE (bin + 1) % d \in 0 .. d - 1
          BY CountFacts
        <4> QED BY <4>1, CountFacts DEF Counts
      <3> QED BY <2>2, <3>1 DEF GraySrcClk
    <2>3. CASE GrayDstClk
      BY <2>3 DEF GrayDstClk
    <2> QED BY <2>1, <2>2, <2>3 DEF GrayNext
  <1> QED BY <1>1, <1>2, PTL DEF GraySpec

\* A read of the counter is wrong below the carry of the step that it meets at most, and
\* right without a carry (cdc_gray_count.sv:27-49).
THEOREM CountConfined == GraySpec => []ErrorConfinedToCarry
  <1>1. GrayInv => ErrorConfinedToCarry
    <2> SUFFICES ASSUME GrayInv PROVE ErrorConfinedToCarry
      OBVIOUS
    <2>1. met[1] \in Counts /\ met[2] \in Counts /\ gray_ff1 \in InFlightXor(W, met[1], met[2])
      BY DEF GrayInv
    <2>2. PICK c \in 0 .. W : BlockSize(met[1], met[2]) = 2^c /\ Rest(met[1], c) = Rest(met[2], c)
      BY <2>1, BlockFacts
    <2>3. IF 2^c <= 2 THEN BinOf(W, gray_ff1) \in {met[1], met[2]}
                      ELSE BinOf(W, gray_ff1) \div 2^c = met[2] \div 2^c
      BY <2>1, <2>2, ReadConfined
    <2> QED BY <2>2, <2>3 DEF ErrorConfinedToCarry
  <1> QED BY <1>1, CountInvariance, PTL
=============================================================================
