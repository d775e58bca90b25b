---------------------------- MODULE MCAsyncFifo -----------------------------
(***************************************************************************)
(* AsyncFifo for TLC, with the inductive invariant of its proofs, and what *)
(* the proofs assume of powers of two, evaluated for every pointer width   *)
(* from the smallest FIFO that the full test makes sense for               *)
(* (ADDR_WIDTH = 2) to the widths that the design uses (ADDR_WIDTH = 4 in  *)
(* aclk_lite_bridge.v, 9 and 11 in aclk_pipeline_bd_top.v, 6 by default).  *)
(***************************************************************************)
EXTENDS AsyncFifo_proofs

ASSUME PowersForDesignWidths == \A W \in 3 .. 12 : Powers(W)
=============================================================================
