------------------------------ MODULE MCStamps ------------------------------
(***************************************************************************)
(* The instance for TLC of the two ways in which a time of the timebase    *)
(* comes into a program's hands: frozen with an event of TCLK              *)
(* (TclkReceiver), and read as a pair of registers (WrTimeAxi) by two      *)
(* readers, who are alike, in seconds of two nanoseconds.  A behaviour is  *)
(* one of either, and of the registers either one of both readers or one   *)
(* of a reader and the operator's stores.                                  *)
(***************************************************************************)
EXTENDS TclkReceiver, WrTimeAxi, FiniteSets, TLC

VARIABLE way

Alike == Permutations(Readers)

all_vars == <<vars, axi_vars, way>>

\* The reset ends at the start of a cell, in any alignment: nothing is told of the receiver
\* before its first frame.  The level turns over in frames, and stays so after a fault.  Beside
\* the registers one of these states is enough.
MCInit ==
    /\ Init /\ AxiInit /\ way \in {"event", "readers", "operator"}
    /\ src.t = 0 /\ line = 0
    /\ way # "event" => src.phase = 0 /\ src.part = "before"

MCNext ==
    \/ way = "event" /\ Tick /\ UNCHANGED <<axi_vars, way>>
    \/ /\ way # "event" /\ AxiNext /\ UNCHANGED <<vars, way>>
       /\ way = "readers" => wr' = NoWrite
       /\ way = "operator" => Cardinality({p \in Readers : pc'[p] # "sec" \/ rd'.by = p}) <= 1

MCSpec == MCInit /\ [][MCNext]_all_vars
=============================================================================
