---------------------------- MODULE TclkReceiver ----------------------------
(***************************************************************************)
(* The TCLK front end: the biphase-mark decoder (serdec4_9MHz), the        *)
(* deserializer (TCLK_DESERIALIZER2, TCLK_RCV), the fine time of the last  *)
(* carrier edge (tclk_fine_tdc) and the adapter that pairs an event with   *)
(* the stamp of its own frame (tclk_readout_top), fed by a line that       *)
(* carries frames and may lose an edge or flip a parity bit.               *)
(*                                                                         *)
(* A step is one period of the 200 MHz clock (clk_40m on the board); the   *)
(* 80 MHz sampling clock of the same MMCM ticks in two of five of them,    *)
(* once with that clock and once in the middle of its period.  The line    *)
(* keeps to no clock of the board: it is in any alignment to them, the     *)
(* same for a whole behaviour.  A frame is a zero, W data bits and even    *)
(* parity, after at least two ones (W is 8 on the line).  A time is kept   *)
(* as its age in ticks.                                                    *)
(***************************************************************************)
EXTENDS Integers, Sequences, SequencesExt

CONSTANTS W,          \* data bits of a frame
          AlignDelay, \* clocks by which an event waits for its stamp
          MaxFaults   \* line faults in a behaviour

ASSUME TclkAssumption == /\ W \in Nat \ {0} /\ AlignDelay \in Nat \ {0, 1} /\ MaxFaults \in Nat

VARIABLES line,   \* the level of the line
          src,    \* the source: its alignment, the tick in the cell, its bit, bits to come, and
                  \* the ones since a frame
          ser,    \* serdec4_9MHz
          des,    \* TCLK_DESERIALIZER2
          tdc,    \* tclk_fine_tdc
          top,    \* tclk_readout_top
          link,   \* "unlocked" after reset or a lost edge, "settling" after that, "good"
          owed,   \* frames the receiver still owes an event, or an error pulse
          faults  \* line faults so far
vars == <<line, src, ser, des, tdc, top, link, owed, faults>>

Bit == {0, 1}
OSR == 8
CELL == (5 * OSR) \div 2
\* Of five ticks, that of the sample taken with the clock and that of the one taken in mid-period.
OnClock == 1
MidPeriod == 3
\* An edge of the line comes before the 200 MHz clock's edge, after that but before the middle
\* of its period, or after that.
Parts == {"before", "early", "late"}
Parity(bits) == FoldSeq(LAMBDA b, p : (b + p) % 2, 0, bits)
Ones(n) == [i \in 1..n |-> 1]
\* Cells counted before the next frame is looked for.
LockoutLong == W + 3               \* mutant: one cell more
Lockout == W + 2
AgeCap == 3 * CELL
\* From an edge to the coarse time that tclk_fine_tdc keeps of it.  (Its window of a period
\* ends with the last quarter, the clock's own sample being the second of five.)
CaptureLatency == IF src.part = "before" THEN 5 ELSE 4
Older(age) == IF age = AgeCap THEN age ELSE age + 1
\* Idle cells after which nothing of an earlier frame or fault is left in the receiver.
Settled == W + 4

Init ==
    /\ line \in Bit
    /\ src \in [phase : 0..4, part : Parts, t : 0..(CELL - 1), bit : {1}, rest : {<<>>}, frame : {<<>>}, idle : {1}]
    /\ ser = [del |-> [i \in 0..OSR |-> 0], st |-> 0, shift |-> 0, sclk |-> 0, sdata |-> 1]
    /\ des = [cap |-> 0, smpl |-> 0, edge |-> 0, dcap |-> 1, dsmpl |-> 1,
              reg |-> Ones(W + 3), par |-> 1, calc |-> (W + 3) % 2, hunting |-> TRUE, ctr |-> 0,
              dav |-> FALSE, out |-> Ones(W), perr |-> FALSE]
    /\ tdc = [taps |-> <<0, 0, 0, 0>>, stb |-> FALSE, age |-> AgeCap,
              ref |-> <<FALSE, FALSE, FALSE>>, frozen |-> AgeCap]
    /\ top = [perr_d |-> FALSE, clr |-> FALSE, valid |-> [i \in 1..AlignDelay |-> FALSE],
              event |-> [i \in 1..AlignDelay |-> Ones(W)]]
    /\ link = "unlocked"
    /\ owed = <<>>
    /\ faults = 0

(***************************** the line ************************************)
\* The event on its way to the readout in this clock, and the error strobe.
PushEarly == top.valid[AlignDelay - 1]     \* mutant: one clock too early
Push == top.valid[AlignDelay]
Pulse == des.perr /\ ~top.perr_d

\* The ledger of a clock: an answer settles the oldest frame owed, the rest get older.
Settle(q) ==
    LET answered == q # <<>> /\ IF Head(q).ok THEN Push ELSE Pulse
        left == IF answered THEN Tail(q) ELSE q
    IN  [i \in DOMAIN left |-> [left[i] EXCEPT !.age = Older(@)]]

\* The last cell of a frame ends.  A receiver in good order owes an answer from here on.
FrameEnds ==
    LET ok == Parity(src.frame) = 0
    IN  /\ owed' = IF link = "good"
                   THEN Append(Settle(owed), [data |-> Front(src.frame), ok |-> ok, age |-> 1])
                   ELSE Settle(owed)
        /\ link' = IF link = "good" /\ ok THEN link ELSE "settling"

\* The next cell of the source: more of the frame, an idle one, or the zero of a new frame.
NextCell ==
    \/ /\ src.rest # <<>>
       /\ src' = [src EXCEPT !.t = 0, !.bit = Head(src.rest), !.rest = Tail(src.rest)]
       /\ owed' = Settle(owed)
       /\ UNCHANGED <<link, faults>>
    \/ /\ src.rest = <<>>
       /\ src' = [src EXCEPT !.t = 0, !.bit = 1, !.frame = <<>>,
                             !.idle = IF @ = Settled THEN @ ELSE @ + 1]
       /\ IF src.frame # <<>> THEN FrameEnds
          ELSE /\ owed' = Settle(owed)
               /\ link' = IF link = "settling" /\ src.idle = Settled THEN "good" ELSE link
       /\ UNCHANGED faults
    \/ /\ src.rest = <<>> /\ src.idle >= 2
       /\ \E d \in [1..W -> Bit], flip \in Bit :
            /\ faults + flip <= MaxFaults
            /\ faults' = faults + flip
            /\ LET f == Append(d, (Parity(d) + flip) % 2)
               IN  src' = [src EXCEPT !.t = 0, !.bit = 0, !.rest = f, !.frame = f, !.idle = 0]
       /\ owed' = Settle(owed)
       /\ UNCHANGED link

\* The level changes at the start of each cell and in the middle of a one.
EdgeDue == src.t = CELL - 1 \/ (src.t = CELL \div 2 - 1 /\ src.bit = 1)

Source ==
    \/ /\ IF src.t = CELL - 1 THEN NextCell
          ELSE /\ src' = [src EXCEPT !.t = @ + 1]
               /\ owed' = Settle(owed)
               /\ UNCHANGED <<link, faults>>
       /\ line' = IF EdgeDue THEN 1 - line ELSE line
    \* a lost edge: in the middle of an idle one
    \/ /\ src.t = CELL \div 2 - 1 /\ src.idle > 0 /\ faults < MaxFaults
       /\ src' = [src EXCEPT !.t = @ + 1]
       /\ faults' = faults + 1
       /\ link' = "unlocked"
       /\ owed' = <<>>
       /\ UNCHANGED line

\* The level that is met by what samples after edges of these parts.
LevelAfter(parts) == IF src.part \in parts THEN line' ELSE line
TickOfFive == (src.t + src.phase) % 5

(*************************** serdec4_9MHz **********************************)
Rose(i) == ser.del[i] = 1 /\ ser.del[i + 1] = 0
Fell(i) == ser.del[i] = 0 /\ ser.del[i + 1] = 1

\* The decode FSM: the edge of a cell ago opens a window in which the next edge tells a one
\* (same direction) from a zero.
OneDetect == (ser.st = 1 /\ Rose(1)) \/ (ser.st = 3 /\ Fell(1))
ZeroDetect == (ser.st = 1 /\ Fell(1)) \/ (ser.st = 3 /\ Rose(1))
NextDecode ==
    IF ser.st = 0 /\ Rose(OSR - 1) THEN 1
    ELSE IF ser.st = 2 /\ Fell(OSR - 1) THEN 3
    ELSE IF ser.st \in {1, 3} /\ Rose(1) THEN 0
    ELSE IF ser.st \in {1, 3} /\ Fell(1) THEN 2
    ELSE ser.st

\* The data FSM: a detected bit sets SDATA, then SCLK for four samples.
Clk80 ==
    LET det == ser.shift = 0 /\ (OneDetect \/ ZeroDetect)
        sample == IF TickOfFive = MidPeriod THEN LevelAfter({"early"}) ELSE line
    IN  ser' = [del   |-> [i \in 0..OSR |-> IF i = 0 THEN sample ELSE ser.del[i - 1]],
                st    |-> NextDecode,
                shift |-> IF det THEN 1 ELSE IF ser.shift \in 1..3 THEN ser.shift + 1 ELSE 0,
                sclk  |-> IF ser.shift = 0 THEN 0 ELSE IF ser.shift = 1 THEN 1 ELSE ser.sclk,
                sdata |-> IF det THEN (IF OneDetect THEN 1 ELSE 0) ELSE ser.sdata]

(************************ TCLK_DESERIALIZER2 *******************************)
SclkRises == des.smpl = 1 /\ des.edge = 0
Framed == des.hunting /\ SubSeq(des.reg, 1, 3) = <<1, 1, 0>>
Good == Framed /\ des.par = des.calc
Bad == Framed /\ des.par # des.calc

\* The running parity takes the bit that enters the register and lets go of the one that leaves.
NextCalcKept == (des.calc + des.par) % 2  \* mutant: nothing leaves
NextCalc == (des.calc + des.par + Head(des.reg)) % 2

Deserialize ==
    des' = [cap |-> ser.sclk, smpl |-> des.cap, edge |-> des.smpl, dcap |-> ser.sdata, dsmpl |-> des.dcap,
            reg  |-> IF SclkRises THEN Append(Tail(des.reg), des.par) ELSE des.reg,
            par  |-> IF SclkRises THEN des.dsmpl ELSE des.par,
            calc |-> IF SclkRises THEN NextCalc ELSE des.calc,
            hunting |-> IF ~SclkRises THEN des.hunting
                        ELSE IF des.hunting THEN ~Good ELSE des.ctr = Lockout,
            ctr  |-> IF des.hunting THEN 0
                     ELSE IF SclkRises /\ des.ctr # Lockout THEN des.ctr + 1 ELSE des.ctr,
            dav  |-> Good /\ SclkRises,
            out  |-> IF Good THEN SubSeq(des.reg, 4, W + 3) ELSE des.out,
            perr |-> IF Bad THEN TRUE ELSE IF top.clr THEN FALSE ELSE des.perr]

(************** tclk_fine_tdc and the adapter of tclk_readout_top **********)
\* The edge held last is frozen on the accept strobe, two flops later.  (A period holds an
\* edge when its first and its last sample differ; the quarter of the period is left out.)
Freeze == tdc.ref[2] /\ ~tdc.ref[3]
FineTime ==
    tdc' = [taps   |-> <<LevelAfter({"early", "late"})>> \o Front(tdc.taps),
            stb    |-> tdc.taps[3] # tdc.taps[4],
            age    |-> IF tdc.stb THEN 1 ELSE Older(tdc.age),
            ref    |-> <<des.dav>> \o Front(tdc.ref),
            frozen |-> IF Freeze THEN Older(tdc.age) ELSE Older(tdc.frozen)]

Align ==
    top' = [perr_d |-> des.perr, clr |-> des.perr,
            valid |-> <<des.dav>> \o Front(top.valid),
            event |-> <<des.out>> \o Front(top.event)]

Tick ==
    /\ Source
    /\ IF TickOfFive \in {OnClock, MidPeriod} THEN Clk80 ELSE UNCHANGED ser
    /\ Deserialize /\ FineTime /\ Align

Spec == Init /\ [][Tick]_vars

(***************************** properties **********************************)
(* Nothing is invented: when no fault of the line is still in the receiver, *)
(* an event pushed is the oldest frame owed, with its bits, and no parity   *)
(* error is counted.  (The lock-out, the running parity and the half-cell   *)
(* ambiguity of the decoder over a run of ones decide this.)                *)
NothingInvented ==
    link = "good" => /\ Push => owed # <<>> /\ Head(owed).ok /\ Head(owed).data = top.event[AlignDelay]
                     /\ ~Pulse

(* Nothing is lost: a good frame is pushed, and a bad one counted, within    *)
(* two cells of its end, two idle cells being all that separates frames; a   *)
(* receiver upset by a fault is as good again after Settled idle cells.      *)
AnsweredInTime == \A i \in DOMAIN owed : owed[i].age <= 2 * CELL

(* The stamp of an event is that of an edge of its own frame's end, and never *)
(* of another frame: the edge a cell after it, or the next one when the       *)
(* strobe of the frame reaches tclk_fine_tdc after that, which the alignment  *)
(* of the line to the clocks decides alone (tclk_fine_tdc.sv:121-137).        *)
EdgeOfStamp == Head(owed).age - tdc.frozen - CaptureLatency
LateStrobe ==
    <<src.phase, src.part>> \in ({2} \X Parts) \cup ({0, 3} \X {"early", "late"}) \cup ({4} \X {"before", "late"})
StampOfItsFrame ==
    Push /\ link = "good" => EdgeOfStamp = IF LateStrobe THEN CELL + CELL \div 2 ELSE CELL

(* "This gives the coarse timestamp no resync jitter beyond the decode        *)
(* pipeline's own fixed latency" (tclk_fine_tdc.sv:80-81): a stamp is that of *)
(* the same edge after every frame, wherever in the carrier's period the      *)
(* clocks are.                                                                *)
StampOfOneEdge == Push /\ link = "good" => EdgeOfStamp = CELL
=============================================================================
