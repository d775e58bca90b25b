---------------------------- MODULE AclkReceiver ----------------------------
(***************************************************************************)
(* ACLK_RCV with its receive gearbox and CRC check, and the recovery FSM   *)
(* of the pipeline top.  A comma starts the assembly of a frame, and the   *)
(* frame assembled before it is presented then; the CRC's verdict comes    *)
(* three clocks later, and the event is read from the gearbox's output     *)
(* another clock later.  Five good frames in a row set rx_aligned, five    *)
(* bad ones clear it.                                                      *)
(*                                                                         *)
(* The registers are a record r.  lane is the byte lane on which the GT    *)
(* aligned: the gearbox assembles lane 0 in its counts 0..5 and lane 1 in  *)
(* 8..13.  A word assembled on the wrong lane mixes two: it is Garbage, or *)
(* still all ones when both are, but never part of a good frame.           *)
(***************************************************************************)
EXTENDS AclkEncoder

CONSTANTS LossWindow, RecoverLen     \* 512 clocks each in the code
ASSUME ReceiverAssumption == LossWindow \in Nat /\ RecoverLen \in Nat

Garbage == [k |-> FALSE, pkt |-> [code |-> -2, n |-> -2], i |-> 0]
Slots == 0..5
ReceiverReset ==
    [reg0 |-> ZeroWord, seq |-> 0, slots |-> [i \in Slots |-> ZeroWord], out |-> [i \in Slots |-> ZeroWord],
     present |-> FALSE, check |-> <<"none", "none", "none">>,
     pickup |-> 0, dropout |-> 0, aligned |-> FALSE, valid |-> FALSE]

\* Mutant: the CRC does not cover the last word.
IntactShort(f) == /\ f[1].pkt = Null \/ f[1].pkt.n > 0
                  /\ \A i \in 0..4 : f[i].i = i /\ f[i].pkt = f[1].pkt

\* The CRC byte fits: the six words are those of one frame, in their places.
Intact(f) == /\ f[1].pkt = Null \/ f[1].pkt.n > 0
             /\ \A i \in Slots : f[i].i = i /\ f[i].pkt = f[1].pkt

\* Mutant: a comma in the upper lane starts the counts of the lower.
NextSeqOneLane(r, w, lane) == IF w.k THEN 0 ELSE (r.seq + 1) % 16

NextSeq(r, w, lane) == IF w.k THEN 8 * lane ELSE (r.seq + 1) % 16
Assembled(r, w, lane) ==
    IF r.seq \div 8 = lane THEN r.reg0
    ELSE IF r.reg0.pkt = Null /\ w.pkt = Null THEN [k |-> FALSE, pkt |-> Null, i |-> -1] ELSE Garbage
Fill(r, w, lane) ==
    IF r.seq % 8 \in Slots THEN [r.slots EXCEPT ![r.seq % 8] = Assembled(r, w, lane)] ELSE r.slots

Verdict(r) == IF ~r.present THEN "none" ELSE IF Intact(r.out) THEN "good" ELSE "bad"
Checked(r) == r.check[3]

\* One edge of rx_usrclk2, with w the word the GT delivers.
ReceiverClk(r, w, lane) ==
    [reg0 |-> w, seq |-> NextSeq(r, w, lane), slots |-> Fill(r, w, lane),
     out |-> IF r.seq % 8 = 0 THEN r.slots ELSE r.out, present |-> r.seq % 8 = 0,
     check |-> <<Verdict(r)>> \o Front(r.check),
     pickup |-> CASE Checked(r) = "good" -> IF r.pickup = 4 THEN 4 ELSE r.pickup + 1
                  [] Checked(r) = "bad" -> 0 [] OTHER -> r.pickup,
     dropout |-> CASE Checked(r) = "bad" -> IF r.dropout = 4 THEN 4 ELSE r.dropout + 1
                   [] Checked(r) = "good" -> 0 [] OTHER -> r.dropout,
     aligned |-> IF Checked(r) = "good" /\ r.pickup = 4 THEN TRUE
                 ELSE IF Checked(r) = "bad" /\ r.dropout = 4 THEN FALSE ELSE r.aligned,
     valid |-> Checked(r) = "good" /\ r.aligned]

\* What a valid strobe hands to the readout: the gearbox's output in that clock.
Event(r) == r.out[1].pkt

\* The recovery FSM: v = [st, loss, rec]; the GT aligns on commas unless it is locked.
RecoveryReset == [st |-> "search", loss |-> 0, rec |-> 0]
AlignEn(v) == v.st # "locked"
RecoveryClk(v, aligned, byteali) ==
    CASE v.st = "search" -> [st |-> IF aligned THEN "locked" ELSE "search", loss |-> 0, rec |-> 0]
      [] v.st = "locked" -> IF ~byteali /\ v.loss >= LossWindow
                            THEN [st |-> "recover", loss |-> v.loss + 1, rec |-> 0]
                            ELSE [v EXCEPT !.loss = IF byteali THEN 0 ELSE @ + 1]
      [] v.st = "recover" -> [v EXCEPT !.rec = @ + 1, !.st = IF v.rec >= RecoverLen THEN "search" ELSE @]
=============================================================================
