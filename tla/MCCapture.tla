----------------------------- MODULE MCCapture ------------------------------
(***************************************************************************)
(* The instance of Capture for TLC.                                        *)
(***************************************************************************)
EXTENDS Capture

SlotsKept == [log |-> 3, streams |-> 6]
=============================================================================
