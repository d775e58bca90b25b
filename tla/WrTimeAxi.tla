----------------------------- MODULE WrTimeAxi ------------------------------
(***************************************************************************)
(* The registers of the White Rabbit timebase (rtl/wr_timebase_axi.sv) and *)
(* the processes that use them: the guard and wr_pps_live.py read the time *)
(* as SEC_NOW then NS_NOW, the operator clears lost_lock and disarms, the  *)
(* guard arms.  The interconnect takes one read and one write at a time,   *)
(* and the address and the data of a write come to the slave in any order. *)
(*                                                                         *)
(* The copies of the timebase are in WrTime; here their lock bits come and *)
(* go, those of the event domains through two flip-flops, and the time of  *)
(* the monitor runs while it is locked.                                    *)
(***************************************************************************)
EXTENDS Integers, FiniteSets

CONSTANTS Readers,            \* the processes that read the time
          Replicas,           \* the copies in the event domains: two on the board
          NsPerSec,           \* 10^9 on the board
          MaxSec, MaxFalls, MaxWrites   \* bounds
ASSUME AxiAssumption ==
    /\ "mon" \notin Replicas
    /\ NsPerSec \in Nat \ {0} /\ {MaxSec, MaxFalls, MaxWrites} \subseteq Nat

AxiCopies == Replicas \cup {"mon"}
Writes == [reg : {"SEC_ARM"}, data : {"label"}] \cup [reg : {"CTRL"}, data : {"clear", "disarm"}]
NoWrite == [reg |-> "none", data |-> "none"]
NoRead == [by |-> "none", reg |-> "none"]
Unsync == [sec |-> 0, ns |-> 0]

VARIABLES ts,                      \* the monitor's time
          locked, sync1, sync2,    \* lock bits at their source and in the two flip-flops
          seen,                    \* la_d, lb_d, lm_d
          lost_lock, ns_latch, sec_arm, cfg,
          rd, arready, rvalid, rdata,             \* the read channel
          wr, aw, w, awready, wready, bvalid,     \* the write channel; aw, w: presented, taken
          pc, pair, at, alone,     \* each reader: what it read, when, undisturbed or not
          low,                     \* clocks since a copy seen locked lost its lock
          falls, writes            \* so far
bits == <<locked, sync1, sync2, seen, low>>
regs == <<lost_lock, ns_latch, sec_arm, cfg>>
readCh == <<rd, arready, rvalid, rdata>>
writeCh == <<wr, aw, w, awready, wready, bvalid>>
readers == <<pc, pair, at, alone>>
axi_vars == <<ts, bits, regs, readCh, writeCh, readers, falls, writes>>

AxiInit ==
    /\ ts = Unsync
    /\ locked = [c \in AxiCopies |-> FALSE] /\ sync1 = locked /\ sync2 = locked /\ seen = locked
    /\ low = [c \in AxiCopies |-> 0]
    /\ lost_lock = FALSE /\ ns_latch = 0 /\ sec_arm = "none" /\ cfg = [valid |-> FALSE, disarm |-> FALSE]
    /\ rd = NoRead /\ arready = TRUE /\ rvalid = FALSE /\ rdata = 0
    /\ wr = NoWrite /\ aw = "no" /\ w = "no" /\ awready = TRUE /\ wready = TRUE /\ bvalid = FALSE
    /\ pc = [p \in Readers |-> "sec"] /\ pair = [p \in Readers |-> Unsync]
    /\ at = pair /\ alone = [p \in Readers |-> TRUE]
    /\ falls = 0 /\ writes = 0

(******************************* the copies ********************************)
\* The time goes on; it is zero while the monitor is not locked.
MonTick ==
    /\ locked["mon"] /\ ts.sec < MaxSec
    /\ ts' = IF ts.ns = NsPerSec - 1 THEN [sec |-> ts.sec + 1, ns |-> 0] ELSE [ts EXCEPT !.ns = @ + 1]
    /\ UNCHANGED <<bits, regs, readCh, writeCh, readers, falls, writes>>

Lock(c) ==
    /\ ~locked[c] /\ locked' = [locked EXCEPT ![c] = TRUE] /\ low' = [low EXCEPT ![c] = 0]
    /\ ts' = IF c = "mon" THEN [sec |-> 1, ns |-> 0] ELSE ts
    /\ UNCHANGED <<sync1, sync2, seen, regs, readCh, writeCh, readers, falls, writes>>

Fall(c) ==
    /\ locked[c] /\ falls < MaxFalls /\ falls' = falls + 1
    /\ locked' = [locked EXCEPT ![c] = FALSE]
    /\ ts' = IF c = "mon" THEN Unsync ELSE ts
    /\ UNCHANGED <<sync1, sync2, seen, low, regs, readCh, writeCh, readers, writes>>

(****************************** the processes ******************************)
\* io.rd: a reader's next load, if the interconnect is free.
Load(p) ==
    /\ rd = NoRead /\ pc[p] \in {"sec", "ns"}
    /\ rd' = [by |-> p, reg |-> IF pc[p] = "sec" THEN "SEC_NOW" ELSE "NS_NOW"]
    /\ UNCHANGED <<ts, bits, regs, arready, rvalid, rdata, writeCh, readers, falls, writes>>

\* It looks at the pair it has read, and starts again later.
Again(p) ==
    /\ pc[p] = "done" /\ pc' = [pc EXCEPT ![p] = "sec"]
    /\ pair' = [pair EXCEPT ![p] = Unsync] /\ at' = [at EXCEPT ![p] = Unsync]
    /\ alone' = [alone EXCEPT ![p] = TRUE]
    /\ UNCHANGED <<ts, bits, regs, readCh, writeCh, falls, writes>>

\* io.wr: arm, clear or disarm; its address and its data are presented each in their time.
StoreReg ==
    /\ wr = NoWrite /\ writes < MaxWrites /\ writes' = writes + 1
    /\ wr' \in Writes /\ aw' \in {"no", "up"} /\ w' = "no"
    /\ UNCHANGED <<ts, bits, regs, readCh, awready, wready, bvalid, readers, falls>>
Present ==
    /\ wr # NoWrite
    /\ \/ aw = "no" /\ aw' = "up" /\ UNCHANGED w
       \/ w = "no" /\ w' = "up" /\ UNCHANGED aw
    /\ UNCHANGED <<ts, bits, regs, readCh, wr, awready, wready, bvalid, readers, falls, writes>>

(****************************** the registers ******************************)
TakesRead == arready /\ rd # NoRead

\* The reader p has its word.
Returned(p) ==
    IF pc[p] = "sec" THEN pair' = [pair EXCEPT ![p].sec = rdata] /\ pc' = [pc EXCEPT ![p] = "ns"]
    ELSE pair' = [pair EXCEPT ![p].ns = rdata] /\ pc' = [pc EXCEPT ![p] = "done"]

\* Mutant: NS_NOW is read as it is.
ReadWordLive(reg) == IF reg = "SEC_NOW" THEN ts.sec ELSE ts.ns
ReadWord(reg) == IF reg = "SEC_NOW" THEN ts.sec ELSE ns_latch

ReadClk ==
    /\ ns_latch' = IF TakesRead /\ rd.reg = "SEC_NOW" THEN ts.ns ELSE ns_latch
    /\ \/ /\ TakesRead
          /\ arready' = FALSE /\ rvalid' = TRUE /\ rdata' = ReadWord(rd.reg) /\ UNCHANGED <<rd, pc, pair>>
          /\ IF rd.reg = "SEC_NOW"
             THEN /\ at' = [at EXCEPT ![rd.by] = ts]
                  /\ alone' = [p \in Readers |-> pc[p] = "sec"]
             ELSE UNCHANGED <<at, alone>>
       \/ /\ rvalid
          /\ rvalid' = FALSE /\ arready' = TRUE /\ rd' = NoRead /\ Returned(rd.by)
          /\ UNCHANGED <<rdata, at, alone>>
       \/ /\ ~TakesRead /\ ~rvalid
          /\ UNCHANGED <<readCh, pc, pair, at, alone>>

LockFall == \E c \in AxiCopies : seen[c] /\ ~(IF c = "mon" THEN locked[c] ELSE sync2[c])
Acts == ~awready /\ ~wready /\ ~bvalid
Ctrl(data) == Acts /\ wr = [reg |-> "CTRL", data |-> data]
Arms == Acts /\ wr.reg = "SEC_ARM"

\* Mutant: the clear wins.
LostLockCleared == ~Ctrl("clear") /\ (lost_lock \/ LockFall)
LostLockNext == LockFall \/ (lost_lock /\ ~Ctrl("clear"))

\* AW and W are taken each when presented; with both the write acts; then the response.
WriteClk ==
    /\ aw' = IF aw = "up" /\ awready THEN "taken" ELSE IF bvalid THEN "no" ELSE aw
    /\ w' = IF w = "up" /\ wready THEN "taken" ELSE IF bvalid THEN "no" ELSE w
    /\ awready' = (bvalid \/ (awready /\ aw # "up"))
    /\ wready' = (bvalid \/ (wready /\ w # "up"))
    /\ bvalid' = Acts /\ wr' = IF bvalid THEN NoWrite ELSE wr
    /\ lost_lock' = LostLockNext
    /\ sec_arm' = IF Arms THEN wr.data ELSE sec_arm
    /\ cfg' = [valid |-> Arms \/ Ctrl("disarm"), disarm |-> ~Arms /\ (cfg.disarm \/ Ctrl("disarm"))]

AxiClk ==
    /\ ReadClk /\ WriteClk
    /\ sync1' = [c \in AxiCopies |-> locked[c]] /\ sync2' = sync1
    /\ seen' = [c \in AxiCopies |-> IF c = "mon" THEN locked[c] ELSE sync2[c]]
    /\ low' = [c \in AxiCopies |-> IF locked[c] THEN 0
                                   ELSE IF sync1[c] THEN 1 ELSE IF low[c] \in 1..3 THEN low[c] + 1 ELSE 0]
    /\ UNCHANGED <<ts, locked, falls, writes>>

AxiNext ==
    \/ MonTick \/ AxiClk \/ StoreReg \/ Present
    \/ \E c \in AxiCopies : Lock(c) \/ Fall(c)
    \/ \E p \in Readers : Load(p) \/ Again(p)
AxiSpec == AxiInit /\ [][AxiNext]_axi_vars

(**************************** properties ***********************************)
\* A reader that nobody disturbs has the seconds and the nanoseconds of one moment, however long
\* its two loads are apart and wherever the second turns; the seconds are its own in any case.
PairIsOneMoment ==
    \A p \in Readers : pc[p] = "done" =>
        pair[p].sec = at[p].sec /\ (alone[p] => pair[p].ns = at[p].ns)

\* A lock lost for longer than a clock shows in lost_lock, three clocks later through the
\* flip-flops and at once from the monitor, whatever is cleared and written meanwhile.
LossShows ==
    /\ \A c \in Replicas : low[c] = 3 => lost_lock
    /\ low["mon"] = 1 => lost_lock
=============================================================================
