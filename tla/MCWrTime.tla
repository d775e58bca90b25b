------------------------------ MODULE MCWrTime ------------------------------
(***************************************************************************)
(* The instance of WrTime for TLC.                                         *)
(***************************************************************************)
EXTENDS WrTime

\* Two ticks without the 10 MHz, so that a genuine edge comes too few cells
\* after the last; a store late by two ticks, from the end of the arm window
\* into the next second; and one fault of each other kind.
SomeOfEach == [k \in Kinds |-> IF k \in {"clk10", "late"} THEN 2 ELSE 1]
=============================================================================
