----------------------------- MODULE AsyncFifo ------------------------------
(***************************************************************************)
(* The dual-clock FIFO of rtl/async_fifo.sv: binary pointers with one wrap *)
(* bit, sent to the other clock domain in Gray code through two-flop       *)
(* synchronizers (rtl/synchronizer.sv).                                    *)
(*                                                                         *)
(* An action is one clock edge of one domain; the two clocks interleave    *)
(* freely. A pointer that has changed since the other domain last sampled  *)
(* it may still be in flight at that domain's next edge: the first flop    *)
(* then captures any mixture of the old and the new code. A change has     *)
(* settled before a second edge of the sampling clock (the skew between    *)
(* the bits of a bus is far below a clock period).                         *)
(***************************************************************************)
EXTENDS Integers, Sequences, GrayCode

CONSTANTS ADDR_WIDTH,   \* the FIFO holds 2^ADDR_WIDTH words
          Data          \* the words

ASSUME AddrWidthAssumption == ADDR_WIDTH \in Nat /\ ADDR_WIDTH >= 2

DEPTH == 2^ADDR_WIDTH
PtrWidth == ADDR_WIDTH + 1
Ptr == 0 .. 2*DEPTH - 1

\* The Gray code of each pointer value.
Gray == [p \in Ptr |-> GrayOf(PtrWidth, p)]

VARIABLES
  mem,              \* the storage
  wr_bin, rd_bin,   \* the pointers (wr_gray and rd_gray are their codes)
  wr_fly, rd_fly,   \* the pointer before the change that may be in flight
  wr_ff1, wr_gray_sync_rd,   \* the write code in the read domain's two flops
  rd_ff1, rd_gray_sync_wr,   \* the read code in the write domain's two flops
  full, empty, overflow

wrVars == <<mem, wr_bin, full, overflow, rd_ff1, rd_gray_sync_wr>>
rdVars == <<rd_bin, empty, wr_ff1, wr_gray_sync_rd>>
vars == <<wrVars, rdVars, wr_fly, rd_fly>>

Succ(p) == IF p = 2*DEPTH - 1 THEN 0 ELSE p + 1
Slot(p) == IF p < DEPTH THEN p ELSE p - DEPTH

\* The power-up state: both domains reset, synchronizers flushed. The storage
\* has no reset: its content is arbitrary.
Init ==
  /\ mem \in [0 .. DEPTH-1 -> Data]
  /\ wr_bin = 0 /\ rd_bin = 0
  /\ wr_fly = 0 /\ rd_fly = 0
  /\ wr_ff1 = Gray[0] /\ wr_gray_sync_rd = Gray[0]
  /\ rd_ff1 = Gray[0] /\ rd_gray_sync_wr = Gray[0]
  /\ full = FALSE /\ empty = TRUE /\ overflow = FALSE

\* Variants with a defect, each in place of an operator that follows:
\* full registered from the pointer before the write; flags that leave the
\* wrap bit out of the comparison.
FullAtOldPointer(wr_nxt) == Gray[wr_bin] = FlipTopTwo(PtrWidth, rd_gray_sync_wr)
FullAtNoWrapBit(wr_nxt) ==
  rd_gray_sync_wr \in {Gray[wr_nxt], FlipTopTwo(PtrWidth, Gray[wr_nxt])}

\* full_nxt, for the pointer wr_nxt: the code of the slot one lap ahead of
\* the read pointer that the write domain knows.
FullAt(wr_nxt) == Gray[wr_nxt] = FlipTopTwo(PtrWidth, rd_gray_sync_wr)

EmptyAtNoWrapBit(rd_nxt) ==
  wr_gray_sync_rd \in {Gray[rd_nxt], FlipTopTwo(PtrWidth, Gray[rd_nxt])}

\* The value empty takes, for the pointer rd_nxt.
EmptyAt(rd_nxt) == Gray[rd_nxt] = wr_gray_sync_rd

\* A defect: a word stored at the slot of the next pointer.
WrClkNextSlot(en, word) ==
  LET do_wr == en /\ ~full
      wr_nxt == IF do_wr THEN Succ(wr_bin) ELSE wr_bin
  IN  /\ mem' = IF do_wr THEN [mem EXCEPT ![Slot(wr_nxt)] = word] ELSE mem
      /\ wr_bin' = wr_nxt /\ wr_fly' = wr_bin
      /\ full' = FullAt(wr_nxt)
      /\ overflow' = (overflow \/ (en /\ full))
      /\ rd_ff1' \in InFlight(Gray[rd_fly], Gray[rd_bin])
      /\ rd_gray_sync_wr' = rd_ff1 /\ rd_fly' = rd_bin
      /\ UNCHANGED rdVars

\* posedge wr_clk with wr_en = en, wr_data = word.
WrClk(en, word) ==
  LET do_wr == en /\ ~full
      wr_nxt == IF do_wr THEN Succ(wr_bin) ELSE wr_bin
  IN  /\ mem' = IF do_wr THEN [mem EXCEPT ![Slot(wr_bin)] = word] ELSE mem
      /\ wr_bin' = wr_nxt
      /\ wr_fly' = wr_bin
      /\ full' = FullAt(wr_nxt)
      /\ overflow' = (overflow \/ (en /\ full))
      /\ rd_ff1' \in InFlight(Gray[rd_fly], Gray[rd_bin])
      /\ rd_gray_sync_wr' = rd_ff1
      /\ rd_fly' = rd_bin
      /\ UNCHANGED rdVars

\* Defect: the write code is not registered, but computed from wr_bin by gates
\* that drive the synchronizer.
RdClkUnregisteredCode(en) ==
  LET rd_nxt == IF en /\ ~empty THEN Succ(rd_bin) ELSE rd_bin
  IN  /\ rd_bin' = rd_nxt /\ rd_fly' = rd_bin
      /\ empty' = EmptyAt(rd_nxt)
      /\ wr_ff1' \in InFlightXor(PtrWidth, wr_fly, wr_bin)
      /\ wr_gray_sync_rd' = wr_ff1 /\ wr_fly' = wr_bin
      /\ UNCHANGED wrVars

\* posedge rd_clk with rd_en = en.
RdClk(en) ==
  LET do_rd == en /\ ~empty
      rd_nxt == IF do_rd THEN Succ(rd_bin) ELSE rd_bin
  IN  /\ rd_bin' = rd_nxt
      /\ rd_fly' = rd_bin
      /\ empty' = EmptyAt(rd_nxt)
      /\ wr_ff1' \in InFlight(Gray[wr_fly], Gray[wr_bin])
      /\ wr_gray_sync_rd' = wr_ff1
      /\ wr_fly' = wr_bin
      /\ UNCHANGED wrVars

Next ==
  \/ \E en \in BOOLEAN, word \in Data : WrClk(en, word)
  \/ \E en \in BOOLEAN : RdClk(en)

Spec == Init /\ [][Next]_vars

(***************************************************************************)
(* Both clocks run for ever, and the consumer pops again and again: the    *)
(* board-side drain loop polls without end. Nothing makes the producer     *)
(* write.                                                                  *)
(***************************************************************************)
Fairness ==
  /\ WF_vars(\E en \in BOOLEAN, word \in Data : WrClk(en, word))
  /\ WF_vars(RdClk(TRUE))

FairSpec == Spec /\ Fairness

-----------------------------------------------------------------------------
\* How far pointer b is ahead of pointer a on the ring of 2*DEPTH values.
Dist(a, b) == IF b >= a THEN b - a ELSE b - a + 2*DEPTH

Occupancy == Dist(rd_bin, wr_bin)

\* The pointer k places after p on the ring.
Ahead(p, k) == IF p + k < 2*DEPTH THEN p + k ELSE p + k - 2*DEPTH

\* The n words of the storage m that start at pointer p.
Words(m, p, n) == [i \in 1 .. n |-> m[Slot(Ahead(p, i - 1))]]

\* The words stored between the pointers, oldest first.
Contents == Words(mem, rd_bin, Occupancy)

\* The pointer value that a Gray code stands for.
Value(code) == CHOOSE p \in Ptr : Gray[p] = code

Codes == {wr_ff1, wr_gray_sync_rd, rd_ff1, rd_gray_sync_wr}

TypeOK ==
  /\ mem \in [0 .. DEPTH-1 -> Data]
  /\ wr_bin \in Ptr /\ rd_bin \in Ptr
  /\ wr_fly \in Ptr /\ rd_fly \in Ptr
  /\ Codes \subseteq SUBSET (0 .. PtrWidth-1)
  /\ full \in BOOLEAN /\ empty \in BOOLEAN /\ overflow \in BOOLEAN

\* No word is overwritten before it is read and no slot is read before it is
\* written, however the two clocks and the codes in flight interleave: the
\* flags never claim room or a word that is not there (async_fifo.sv:72-130).
FlagsConservative ==
  /\ Occupancy <= DEPTH
  /\ ~full => Occupancy < DEPTH
  /\ ~empty => Occupancy > 0

\* Every code that a synchronizer flop holds is the code of a pointer value
\* that the other side really had, never a corrupt mixture
\* (async_fifo.sv:11-13), and each domain's view of the other is a past one:
\* the views are ordered, oldest in the second flop, and span at most one lap.
CodesAreReal ==
  /\ Codes \subseteq {Gray[p] : p \in Ptr}
  /\ Dist(Value(wr_ff1), wr_bin) <= Dist(Value(wr_gray_sync_rd), wr_bin)
  /\ Dist(Value(wr_gray_sync_rd), wr_bin) <= Occupancy
  /\ Occupancy <= Dist(Value(rd_ff1), wr_bin)
  /\ Dist(Value(rd_ff1), wr_bin) <= Dist(Value(rd_gray_sync_wr), wr_bin)
  /\ Dist(Value(rd_gray_sync_wr), wr_bin) <= DEPTH

\* The FIFO is a bounded queue: words come out once, in the order they went
\* in, and a refused word raises the alarm.
Abstract == INSTANCE BoundedFifo WITH Depth <- DEPTH, queue <- Contents

ImplementsBoundedFifo == Abstract!FifoSpec

\* A flag that rose falls again: a stored word becomes visible to the reader, and a
\* full FIFO accepts words again, once each side has seen the other's pointer
\* (async_fifo.sv:62-98).
FlagsFall ==
  /\ (Occupancy > 0) ~> ~empty
  /\ full ~> ~full
=============================================================================
