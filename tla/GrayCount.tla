----------------------------- MODULE GrayCount ------------------------------
(***************************************************************************)
(* A diagnostic counter of the readout, read in another clock domain:      *)
(* rtl/cdc_gray_count.sv. The binary counter counts pulses of the source   *)
(* domain. Its Gray code is computed by gates from the counter (the wire   *)
(* of cdc_gray_count.sv:30) and goes straight into the first synchronizer  *)
(* flop, so a capture that meets a change sees the gates in transition.    *)
(***************************************************************************)
EXTENDS Integers, GrayCode

CONSTANT W   \* the width; the counter wraps at 2^W

ASSUME WidthAssumption == W \in Nat \ {0}

VARIABLES
  bin,            \* the counter
  gray_fly,            \* the counter before the change that may be in flight
  gray_ff1, gray_sync, \* the two flops of the synchronizer
  count_dst,      \* the count the destination domain reads
  met             \* history: the transition <<from, to>> of the counter that
                  \* the capture now in gray_ff1 met

gray_vars == <<bin, gray_fly, gray_ff1, gray_sync, count_dst, met>>

\* Out of src_rstn, the destination's flops flushed.
GrayInit ==
  /\ bin = 0 /\ gray_fly = 0
  /\ gray_ff1 = GrayOf(W, 0) /\ gray_sync = GrayOf(W, 0)
  /\ count_dst = 0
  /\ met = <<0, 0>>

\* A variant with a defect: a count read without decoding it.
GrayDstClkUndecoded ==
  /\ gray_ff1' \in InFlightXor(W, gray_fly, bin)
  /\ gray_sync' = gray_ff1
  /\ count_dst' = MapThenSumSet(LAMBDA i : 2^i, gray_sync)
  /\ gray_fly' = bin
  /\ met' = <<gray_fly, bin>>
  /\ UNCHANGED bin

\* posedge src_clk. A change settles before the next source edge.
GraySrcClk(incr) ==
  /\ bin' = IF incr THEN (bin + 1) % 2^W ELSE bin
  /\ gray_fly' = bin
  /\ UNCHANGED <<gray_ff1, gray_sync, count_dst, met>>

\* posedge dst_clk. A change settles before the next destination edge.
GrayDstClk ==
  /\ gray_ff1' \in InFlightXor(W, gray_fly, bin)
  /\ gray_sync' = gray_ff1
  /\ count_dst' = BinOf(W, gray_sync)
  /\ gray_fly' = bin
  /\ met' = <<gray_fly, bin>>
  /\ UNCHANGED bin

GrayNext == GrayDstClk \/ \E incr \in BOOLEAN : GraySrcClk(incr)

GraySpec == GrayInit /\ [][GrayNext]_gray_vars

-----------------------------------------------------------------------------
\* The smallest aligned block of numbers that holds both m and n.
BlockSize(m, n) == CHOOSE b \in {2^i : i \in 0 .. W} :
                     /\ m \div b = n \div b
                     /\ \A c \in {2^i : i \in 0 .. W} : m \div c = n \div c => b <= c

\* How wrong a read can be: a capture that meets the step from m to n reads a
\* number of the smallest aligned block that holds both, so it is exact when
\* the increment does not carry, and the bits above the carry are never wrong
\* (cdc_gray_count.sv:27-49).
ErrorConfinedToCarry ==
  LET m == met[1]
      n == met[2]
      b == BlockSize(m, n)
      read == BinOf(W, gray_ff1)
  IN  IF b <= 2 THEN read \in {m, n} ELSE read \div b = n \div b

\* When the events stop, the count read is the count: no glitch stays.
CountArrives ==
  \A n \in 0 .. 2^W - 1 : <>[](bin = n) => <>[](count_dst = n)
=============================================================================
