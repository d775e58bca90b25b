---------------------------- MODULE WordChannel -----------------------------
(***************************************************************************)
(* What a word-plus-pulse crossing promises: a word sent while the         *)
(* receiver is up is delivered once, whole, with a one-clock strobe. A     *)
(* word that meets a receiver that is down may be lost, but is not         *)
(* corrupted and not delivered twice.                                      *)
(*                                                                         *)
(* CdcWordPulse implements this specification; WrTime is built on it.      *)
(***************************************************************************)
EXTENDS Sequences

CONSTANT Words

VARIABLES box,    \* the word on its way, if any
          up,     \* the receiver is out of reset and warmed up
          valid,  \* the strobe
          data    \* the word last delivered, or <<>>

chanVars == <<box, up, valid, data>>

ChanInit == box = <<>> /\ up = FALSE /\ valid = FALSE /\ data = <<>>

\* The sender keeps its distance: a receiver that is up has taken the last word.
Send(w) ==
  /\ up => box = <<>>
  /\ box' = <<w>> \/ (~up /\ box' = <<>>)
  /\ UNCHANGED <<up, valid, data>>

Deliver ==
  /\ up /\ box # <<>>
  /\ valid' = TRUE /\ data' = box /\ box' = <<>>
  /\ UNCHANGED up

NoStrobe ==
  /\ valid' = FALSE
  /\ UNCHANGED <<box, up, data>>

\* The receiver goes down, loses what was on its way, or comes up.
Down ==
  /\ up' = FALSE /\ valid' = FALSE /\ data' = <<>>
  /\ box' \in {box, <<>>}

Lose == ~up /\ box' = <<>> /\ UNCHANGED <<up, valid, data>>

Up == ~up /\ up' = TRUE /\ valid' = FALSE /\ UNCHANGED <<box, data>>

ChanNext ==
  \/ \E w \in Words : Send(w)
  \/ Deliver \/ NoStrobe \/ Down \/ Lose \/ Up

ChanSpec == ChanInit /\ [][ChanNext]_chanVars
=============================================================================
