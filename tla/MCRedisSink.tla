----------------------------- MODULE MCRedisSink ----------------------------
(***************************************************************************)
(* The instance of RedisSink and its two clients for TLC: a behaviour is   *)
(* the publisher's, or the smoke test's (SmokeTest).                       *)
(***************************************************************************)
EXTENDS SmokeTest

CONSTANTS c1, c2

MCSmokeEvents == <<[code |-> c1, ra |-> 1], [code |-> c2, ra |-> 2]>>

all_vars == <<sink_vars, smoke_vars>>

Publishes == smoke = "off" /\ UNCHANGED smoke_vars

MCInit == NoSmoke \/ SmokeInit
MCNext == (Publishes /\ Next) \/ SmokeNext

\* The writer's thread runs, once the test has started it.
MCSpec ==
  /\ MCInit /\ [][MCNext]_all_vars
  /\ WF_all_vars((Publishes /\ WriterStep) \/ SmokeWriter)

\* The ledger closes whoever submits; what the publisher counts as published is in
\* its streams, which nobody deletes (redis_sink.py:83-101, 141-148, 202-214).
SinkKeepsItsLedger ==
  /\ LedgerConserved
  /\ smoke = "off" => PublishedIsStored
=============================================================================
