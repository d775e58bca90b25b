---------------------------- MODULE MCCrossings -----------------------------
(***************************************************************************)
(* The instance of CdcWordPulse and GrayCount for TLC. The two crossings   *)
(* have nothing in common but the clock domains, so that nothing is to be  *)
(* seen in their product: a behaviour is one of either, chosen at the      *)
(* start, and the other stands still. The proofs' module is extended for   *)
(* its assumption to be evaluated.                                         *)
(***************************************************************************)
EXTENDS Crossings_proofs

VARIABLE crossing

MCInit == Init /\ GrayInit /\ crossing \in {"word", "count"}

MCNext ==
  \/ crossing = "word" /\ Next /\ UNCHANGED <<gray_vars, crossing>>
  \/ crossing = "count" /\ GrayNext /\ UNCHANGED <<vars, crossing>>

\* The destination's clock runs, that of the word when it is out of reset.
MCSpec ==
  /\ MCInit /\ [][MCNext]_<<vars, gray_vars, crossing>>
  /\ WF_<<vars, gray_vars, crossing>>(crossing = "word" /\ DstClk /\ UNCHANGED <<gray_vars, crossing>>)
  /\ WF_<<vars, gray_vars, crossing>>(crossing = "count" /\ GrayDstClk /\ UNCHANGED <<vars, crossing>>)
-----------------------------------------------------------------------------
\* What was sent gets across: a word to a receiver that stays up, and a count once
\* it rests (cdc_word_pulse.sv:34-73, cdc_gray_count.sv:24-53).
Arrives == WordArrives /\ CountArrives
=============================================================================
