---------------------------- MODULE CdcWordPulse ----------------------------
(***************************************************************************)
(* The crossing of rtl/cdc_word_pulse.sv: the source captures a word and   *)
(* flips a toggle; the destination brings the toggle through a two-flop    *)
(* synchronizer and, when it changes, samples the word.                    *)
(*                                                                         *)
(* The destination's reset is asynchronous, its clock may stop while it is *)
(* in reset (a GT relock), and the synchronizer has no reset. After a      *)
(* reset three warm-up clocks adopt the toggle's level without a strobe.   *)
(*                                                                         *)
(* A change of the toggle, and of the word with it, may be in flight at    *)
(* the next destination edge; it has settled by the next source edge.      *)
(***************************************************************************)
EXTENDS Integers, Sequences

CONSTANTS
  Words,    \* the words
  Torn,     \* a word sampled while it changes
  Spacing   \* destination clocks between words, the contract's 3

ASSUME CdcAssumption == Torn \notin Words /\ Spacing \in Nat /\ Spacing >= 3

VARIABLES
  req_tgl, data_q,     \* source side
  fly,                 \* the toggle before the change that may be in flight
  ff1, tgl_sync,       \* the synchronizer
  warmup, tgl_d, dst_valid, dst_data, dst_rstn,   \* destination side
  gap,                 \* destination clocks since the last word, up to Spacing
  old                  \* history: the last word was there when the reset ended

srcVars == <<req_tgl, data_q>>
dstVars == <<ff1, tgl_sync, warmup, tgl_d, dst_valid, dst_data, dst_rstn>>
vars == <<srcVars, dstVars, fly, gap, old>>

Init ==
  /\ req_tgl = 0 /\ data_q = <<>> /\ fly = 0
  /\ ff1 = 0 /\ tgl_sync = 0
  /\ warmup = 0 /\ tgl_d = 0 /\ dst_valid = FALSE /\ dst_data = <<>>
  /\ dst_rstn = FALSE
  /\ gap = Spacing /\ old = TRUE

AtMost(n, bound) == IF n < bound THEN n ELSE bound

\* posedge src_clk with src_valid. The sender keeps the contract
\* (cdc_word_pulse.sv:15-17).
SrcSend(w) ==
  /\ gap = Spacing
  /\ req_tgl' = 1 - req_tgl
  /\ data_q' = <<w>>
  /\ fly' = req_tgl
  /\ gap' = 0 /\ old' = FALSE
  /\ UNCHANGED dstVars

\* posedge src_clk without.
SrcIdle ==
  /\ fly' = req_tgl
  /\ UNCHANGED <<srcVars, dstVars, gap, old>>

\* The first flop captures a change in flight or misses it: then the edge was
\* no later than the change, and is no clock of the gap.
Synchronize ==
  /\ ff1' \in {fly, req_tgl}
  /\ tgl_sync' = ff1
  /\ fly' = req_tgl
  /\ gap' = IF ff1' = req_tgl THEN AtMost(gap + 1, Spacing) ELSE gap
  /\ UNCHANGED <<srcVars, old>>

\* The word as the destination samples it.
Sampled == IF fly = req_tgl THEN {data_q} ELSE {data_q, <<Torn>>}

\* Variants with a defect: the toggle's level in place of its change; its rise
\* alone; one warm-up clock too few.
DstClkLevel ==
  /\ dst_rstn /\ Synchronize
  /\ tgl_d' = tgl_sync
  /\ dst_valid' = (warmup = 3 /\ tgl_sync = 1)
  /\ IF dst_valid' THEN dst_data' \in Sampled ELSE UNCHANGED dst_data
  /\ warmup' = AtMost(warmup + 1, 3)
  /\ UNCHANGED dst_rstn

DstClkRise ==
  /\ dst_rstn /\ Synchronize
  /\ tgl_d' = tgl_sync
  /\ dst_valid' = (warmup = 3 /\ tgl_sync > tgl_d)
  /\ IF dst_valid' THEN dst_data' \in Sampled ELSE UNCHANGED dst_data
  /\ warmup' = AtMost(warmup + 1, 3)
  /\ UNCHANGED dst_rstn

DstClkShortWarmup ==
  /\ dst_rstn /\ Synchronize
  /\ tgl_d' = tgl_sync
  /\ dst_valid' = (warmup >= 2 /\ tgl_sync # tgl_d)
  /\ IF dst_valid' THEN dst_data' \in Sampled ELSE UNCHANGED dst_data
  /\ warmup' = AtMost(warmup + 1, 3)
  /\ UNCHANGED dst_rstn

\* posedge dst_clk out of reset.
DstClk ==
  /\ dst_rstn /\ Synchronize
  /\ tgl_d' = tgl_sync
  /\ dst_valid' = (warmup = 3 /\ tgl_sync # tgl_d)
  /\ IF dst_valid' THEN dst_data' \in Sampled ELSE UNCHANGED dst_data
  /\ warmup' = AtMost(warmup + 1, 3)
  /\ UNCHANGED dst_rstn

\* negedge dst_rstn.
DstReset ==
  /\ dst_rstn
  /\ dst_rstn' = FALSE
  /\ warmup' = 0 /\ tgl_d' = 0 /\ dst_valid' = FALSE /\ dst_data' = <<>>
  /\ UNCHANGED <<srcVars, ff1, tgl_sync, fly, gap, old>>

\* In reset the clock runs, or it stands still while time passes.
DstClkInReset ==
  /\ ~dst_rstn /\ Synchronize
  /\ UNCHANGED <<warmup, tgl_d, dst_valid, dst_data, dst_rstn>>

DstStandsStill ==
  /\ ~dst_rstn
  /\ fly' = req_tgl
  /\ gap' = AtMost(gap + 1, Spacing)
  /\ UNCHANGED <<srcVars, dstVars, old>>

DstRelease ==
  /\ ~dst_rstn
  /\ dst_rstn' = TRUE
  /\ old' = (fly = req_tgl)
  /\ UNCHANGED <<srcVars, ff1, tgl_sync, warmup, tgl_d, dst_valid, dst_data, fly, gap>>

Next ==
  \/ SrcIdle \/ \E w \in Words : SrcSend(w)
  \/ DstClk \/ DstReset \/ DstClkInReset \/ DstStandsStill \/ DstRelease

\* The destination's clock runs when it is out of reset.
Spec == Init /\ [][Next]_vars /\ WF_vars(DstClk)

-----------------------------------------------------------------------------
\* What a word's register holds: nothing after a reset.
Held == {<<>>} \cup {<<w>> : w \in Words}

Flags == dst_valid \in BOOLEAN /\ dst_rstn \in BOOLEAN /\ old \in BOOLEAN

TypeOK ==
  /\ Flags
  /\ {req_tgl, fly, ff1, tgl_sync, tgl_d} \subseteq 0 .. 1
  /\ data_q \in Held /\ dst_data \in Held
  /\ warmup \in 0 .. 3
  /\ gap \in 0 .. Spacing

\* The level that tgl_d will hold when the warm-up ends, as far as the chain
\* of flops has fixed it.
Adopted == IF warmup = 0 THEN fly
           ELSE IF warmup = 1 THEN ff1
           ELSE IF warmup = 2 THEN tgl_sync ELSE tgl_d

\* The crossing is a word channel: no word is torn, doubled or, while the
\* receiver is up, lost (cdc_word_pulse.sv:1-8).
Channel == INSTANCE WordChannel WITH
  box <- IF req_tgl # Adopted THEN data_q ELSE <<>>,
  up <- dst_rstn /\ warmup = 3,
  valid <- dst_valid,
  data <- dst_data

ImplementsWordChannel == Channel!ChanSpec

\* "A reset while the toggle sits at 1 cannot replay a stale transfer": a word
\* that was there when the reset ended is never delivered
\* (cdc_word_pulse.sv:10-13).
NoReplay == dst_valid => ~old

-----------------------------------------------------------------------------
(***************************************************************************)
(* Why: from the first warm-up clock on, the flops hold the toggle from    *)
(* some point of the chain back to the source, and what they held before   *)
(* it from there on to the destination. The gap tells how far the point    *)
(* has come, so it has passed the last flop when the next word is sent.    *)
(***************************************************************************)
Chain ==
  /\ fly # req_tgl => gap = 0
  /\ warmup >= 1 => /\ ff1 # req_tgl => gap = 0
                    /\ fly # req_tgl => ff1 = fly
  /\ warmup >= 2 => /\ tgl_sync # req_tgl => gap <= 1
                    /\ ff1 # req_tgl => tgl_sync = ff1
  /\ warmup = 3 => /\ tgl_d # req_tgl => gap <= 2
                   /\ tgl_sync # req_tgl => tgl_d = tgl_sync

\* Before the first word the toggle has never been anything but low.
Untouched ==
  data_q = <<>> => req_tgl = 0 /\ fly = 0 /\ ff1 = 0 /\ tgl_sync = 0 /\ tgl_d = 0

\* When no word was sent since the reset ended, each warm-up clock fixes one
\* more flop at the toggle.
Adopting ==
  old /\ dst_rstn =>
    /\ fly = req_tgl
    /\ warmup >= 1 => ff1 = req_tgl
    /\ warmup >= 2 => tgl_sync = req_tgl
    /\ warmup = 3 => tgl_d = req_tgl

InReset == ~dst_rstn => warmup = 0 /\ dst_valid = FALSE /\ dst_data = <<>>

\* The inductive invariant of the proofs.
IInv == TypeOK /\ Chain /\ Untouched /\ Adopting /\ InReset /\ NoReplay
               /\ (warmup < 3 => ~dst_valid)

\* A word on its way to a receiver that stays up arrives.
WordArrives ==
  (warmup = 3 /\ req_tgl # tgl_d) ~> (dst_valid \/ ~dst_rstn)
=============================================================================
