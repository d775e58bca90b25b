------------------------------ MODULE MCDrains ------------------------------
(***************************************************************************)
(* The instance for TLC of the two loops that drain a buffer: the board's  *)
(* read loop on the readout's FIFO (ReadoutAxi), which pops what it has    *)
(* read, and the archiver on the event stream (Archive), which keeps a     *)
(* cursor. One code is masked at start, one carries a payload. A behaviour *)
(* is one loop's.                                                          *)
(***************************************************************************)
EXTENDS ReadoutAxi, Archive

VARIABLE loop

MCDropCodes == <<"tick">>

all_vars == <<vars, archive_vars, loop>>

MCInit == Init /\ ArchiveInit /\ loop \in {"readout", "archive"}

ReadoutStep == loop = "readout" /\ UNCHANGED <<archive_vars, loop>>
ArchiverStep == loop = "archive" /\ UNCHANGED <<vars, loop>>

MCNext == (ReadoutStep /\ Next) \/ (ArchiverStep /\ ArchiveNext)

\* The fairness of ReadoutAxi for its loop. The archiver runs, and its launcher
\* starts it again (run_pipeline.sh).
MCFairness ==
  /\ WF_all_vars(ReadoutStep /\ PsIssue)
  /\ WF_all_vars(ReadoutStep /\ PresentAW) /\ WF_all_vars(ReadoutStep /\ PresentW)
  /\ WF_all_vars(ReadoutStep /\ AxiClk(TRUE, TRUE))
  /\ SF_all_vars(ReadoutStep /\ AxiClk(TRUE, TRUE) /\ ~empty')
  /\ WF_all_vars(ArchiverStep /\ ArchiveStep)

MCSpec == MCInit /\ [][MCNext]_all_vars /\ MCFairness
=============================================================================
