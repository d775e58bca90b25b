------------------------------- MODULE WrTime -------------------------------
(***************************************************************************)
(* The White Rabbit timebase: the copies of rtl/wr_timebase.sv that watch  *)
(* the same PPS and 10 MHz pins, the arm and disarm words that the         *)
(* register block of rtl/wr_timebase_axi.sv broadcasts to them, the guard  *)
(* of deploy/wr_time.py that arms them again, and the system clock it arms *)
(* them from, judged by deploy/clock_guard.py.                             *)
(*                                                                         *)
(* Time runs in ticks, SecTicks to the second; a second starts at phase 0, *)
(* where the genuine PPS edge is. Seconds are kept RELATIVE to the true    *)
(* one: a copy's sec is 0 when it is right and -1 when it is a second      *)
(* slow, so all of them go down by one when a true second begins. Between  *)
(* two ticks each copy meets the edge on the pin and the word on its way   *)
(* in its own time: the copies are in different clock domains.             *)
(*                                                                         *)
(* A bounded number of faults happens: a missing PPS edge, a spurious one  *)
(* (each copy may or may not see it), a tick without the 10 MHz, a GT      *)
(* relock that resets a copy, a disarm by hand, a store of the guard that  *)
(* is held up, an arm that is forced, and a tool that does not answer or   *)
(* an NTP source that is lost when the guard asks.                         *)
(***************************************************************************)
EXTENDS Integers, Sequences, FiniteSetsExt

CONSTANTS
  SecTicks,     \* ticks in a second
  MinCells,     \* PPS_MIN_CELLS, in ticks: 0.9 s
  PpsTimeout,   \* PPS_TIMEOUT, in ticks: 1.1 s
  ArmLo, ArmHi, \* the phases in which the guard looks at the clock to arm
  MaxArmOffset, \* MAX_ARM_OFFSET_S, in ticks
  Copies,       \* the copies of the timebase
  Monitor,      \* the one behind the status registers
  Relocking,    \* the ones that a GT relock resets
  MaxFaults,    \* bound: how many faults of each kind happen
  Budget        \* bound: how many faults in all

Kinds == {"missing", "glitch", "clk10", "relock", "disarm", "late", "force", "mute"}

ASSUME WrTimeAssumption ==
  /\ {SecTicks, MinCells, PpsTimeout, ArmLo, ArmHi, MaxArmOffset} \subseteq Nat
  /\ 2 * MaxArmOffset < SecTicks
  /\ 0 < ArmLo /\ ArmLo <= ArmHi /\ ArmHi < SecTicks
  /\ MinCells < SecTicks /\ SecTicks < PpsTimeout /\ SecTicks < 2 * MinCells
  /\ SecTicks < ArmLo + MinCells
  /\ Monitor \in Copies /\ Relocking \subseteq Copies \ {Monitor}
  /\ MaxFaults \in [Kinds -> Nat] /\ Budget \in Nat

VARIABLES
  \* the pins
  phase,      \* ticks since the second began
  pin,        \* the copies that have not met the edge on the pin yet
  clk10,      \* the 10 MHz is alive
  \* each copy
  armed, arm_sec, sec, lk, pps_seen, cells, pps_wd,
  down,       \* the copies in reset
  box,        \* the word on its way to each copy (a WordChannel)
  \* the guard
  gpc, label,
  ntp,        \* chrony has corrected the system clock, a second fast at boot
  faults      \* how many faults of each kind are left

pins == <<phase, pin, clk10>>
copy == <<armed, arm_sec, sec, lk, pps_seen, cells, pps_wd>>
guard == <<gpc, label>>
vars == <<pins, copy, down, box, guard, ntp, faults>>

\* The faults in "kinds" happen.
Spend(kinds) ==
  /\ \A k \in kinds : faults[k] > 0
  /\ faults' = [k \in Kinds |-> IF k \in kinds THEN faults[k] - 1 ELSE faults[k]]
  /\ MapThenSumSet(LAMBDA k : MaxFaults[k] - faults'[k], Kinds) <= Budget

\* No copy has an edge to meet or a word on its way.
Settled == pin = {} /\ \A r \in Copies : box[r] = <<>>

\* A counter that saturates.
AtMost(n, bound) == IF n < bound THEN n ELSE bound

\* Out of reset, in the middle of a second. What sec and arm_sec hold while a
\* copy is not locked, or not armed, is never used: it is kept at 0.
Init ==
  /\ phase = 1 /\ pin = {} /\ clk10 = TRUE
  /\ armed = [r \in Copies |-> FALSE] /\ arm_sec = [r \in Copies |-> 0]
  /\ sec = [r \in Copies |-> 0] /\ lk = [r \in Copies |-> FALSE]
  /\ pps_seen = [r \in Copies |-> FALSE] /\ cells = [r \in Copies |-> 0]
  /\ pps_wd = [r \in Copies |-> PpsTimeout]
  /\ down = {} /\ box = [r \in Copies |-> <<>>]
  /\ gpc = "poll" /\ label = 0
  /\ ntp = FALSE
  /\ faults = MaxFaults

-----------------------------------------------------------------------------
(***************************************************************************)
(* A copy's clock edge that meets the PPS edge, a request, or both.        *)
(***************************************************************************)
\* A variant with a defect: no filter.
PpsValidUnfiltered(r) == TRUE

\* pps_valid, for an edge that copy r meets.
PpsValid(r) == ~pps_seen[r] \/ cells[r] >= MinCells

\* lk after a clock edge of copy r.
Locks(r, load, disarm) == ~disarm /\ (IF load THEN clk10 ELSE lk[r])

\* A valid edge ends the second: it takes a pending arm or counts on. A word
\* arms or disarms. The edge's effect on "armed" wins over an arm of the same
\* clock, a disarm wins over everything.
Clk(r, edge, req) ==
  LET valid == edge /\ PpsValid(r)
      load == valid /\ armed[r]
      disarm == req /\ box[r][1].disarm
      arm == req /\ ~box[r][1].disarm
  IN  /\ r \notin down
      /\ edge => r \in pin
      /\ req => box[r] # <<>>
      /\ edge \/ req
      /\ pin' = IF edge THEN pin \ {r} ELSE pin
      /\ box' = [box EXCEPT ![r] = IF req THEN <<>> ELSE @]
      /\ armed' = [armed EXCEPT ![r] = ~load /\ ~disarm /\ (@ \/ arm)]
      /\ arm_sec' = [arm_sec EXCEPT ![r] =
                       IF ~armed'[r] THEN 0 ELSE IF arm THEN box[r][1].sec ELSE @]
      /\ lk' = [lk EXCEPT ![r] = Locks(r, load, disarm)]
      /\ sec' = [sec EXCEPT ![r] = IF ~lk'[r] THEN 0
                                   ELSE IF load THEN arm_sec[r]
                                   ELSE IF valid THEN @ + 1 ELSE @]
      /\ pps_seen' = [pps_seen EXCEPT ![r] = @ \/ valid]
      /\ cells' = [cells EXCEPT ![r] = IF valid THEN 0 ELSE @]
      /\ pps_wd' = [pps_wd EXCEPT ![r] = IF valid THEN 0 ELSE @]
      /\ UNCHANGED <<phase, clk10, down, guard, ntp, faults>>

\* A GT relock stops a copy's clock and resets it; a word that meets it is lost.
Relock(r) ==
  /\ Spend({"relock"})
  /\ r \in Relocking \ down
  /\ down' = down \cup {r}
  /\ armed' = [armed EXCEPT ![r] = FALSE] /\ arm_sec' = [arm_sec EXCEPT ![r] = 0]
  /\ lk' = [lk EXCEPT ![r] = FALSE] /\ sec' = [sec EXCEPT ![r] = 0]
  /\ pps_seen' = [pps_seen EXCEPT ![r] = FALSE] /\ cells' = [cells EXCEPT ![r] = 0]
  /\ pps_wd' = [pps_wd EXCEPT ![r] = PpsTimeout]
  /\ box' = [box EXCEPT ![r] = <<>>] /\ pin' = pin \ {r}
  /\ UNCHANGED <<phase, clk10, guard, ntp>>

Relocked(r) ==
  /\ r \in down
  /\ down' = down \ {r}
  /\ UNCHANGED <<pins, copy, box, guard, ntp, faults>>

-----------------------------------------------------------------------------
(***************************************************************************)
(* Time.                                                                   *)
(***************************************************************************)
\* A second has begun: every second that is kept somewhere is one older.
Older(n, begun) == IF begun THEN n - 1 ELSE n

\* A tick passes, with the 10 MHz running or not, and ends with a PPS edge for
\* the copies in "edge". What happens between two ticks (edges, words) takes
\* nanoseconds and is over. The watchdogs unlock.
Tick(runs, edge) ==
  LET begun == phase = SecTicks - 1
      faulty == {f \in Kinds :
                   \/ f = "missing" /\ begun /\ edge = {}
                   \/ f = "glitch" /\ ~begun /\ edge # {}
                   \/ f = "clk10" /\ ~runs
                   \/ f = "late" /\ gpc = "store"}
  IN  /\ Settled
      /\ begun => edge \in {{}, Copies \ down}
      /\ Spend(faulty)
      /\ phase' = IF begun THEN 0 ELSE phase + 1
      /\ pin' = edge
      /\ clk10' \in IF runs THEN {TRUE} ELSE BOOLEAN
      /\ cells' = [r \in Copies |-> IF runs /\ r \notin down
                                      THEN AtMost(cells[r] + 1, SecTicks) ELSE cells[r]]
      /\ pps_wd' = [r \in Copies |-> AtMost(pps_wd[r] + 1, PpsTimeout)]
      /\ lk' = [r \in Copies |-> lk[r] /\ runs /\ pps_wd'[r] < PpsTimeout]
      /\ sec' = [r \in Copies |-> IF lk'[r] THEN Older(sec[r], begun) ELSE 0]
      /\ arm_sec' = [r \in Copies |-> IF armed[r] THEN Older(arm_sec[r], begun) ELSE 0]
      /\ label' = IF gpc = "store" THEN Older(label, begun) ELSE label
      /\ gpc' = IF gpc = "wait" THEN "poll" ELSE gpc
      /\ UNCHANGED <<armed, pps_seen, down, box, ntp>>

-----------------------------------------------------------------------------
(***************************************************************************)
(* The register block and the guard.                                       *)
(***************************************************************************)
\* How far a locked copy's {sec, ns} is ahead of true time, in ticks. ns stops
\* short of a second.
TimeErr(r) == sec[r]*SecTicks + AtMost(cells[r], SecTicks - 1) - phase

Broadcast(word) == box' = [r \in Copies |-> IF r \in down THEN <<>> ELSE <<word>>]

\* How far the system clock is ahead, in seconds.
SysErr == IF ntp THEN 0 ELSE 1

\* A variant with a defect: a guard that trusts the health flags.
AuditFailsNever == FALSE

\* The label audit: a comparison of the monitor's time with the system clock.
AuditFails ==
  LET label_error == TimeErr(Monitor) - SysErr * SecTicks
  IN  2 * label_error > SecTicks \/ 2 * label_error < -SecTicks

Unlocked == \E r \in Copies : ~lk[r]

\* What timedatectl and chronyc say: the fields that are found in their texts.
\* Without a reference chronyc has no offset to tell but zero.
NoReference(sync) ==
  [timedatectl |-> sync, ref_id |-> {"00000000"}, unsynchronised |-> TRUE, system_time |-> {0}]
Reference(sync) ==
  [timedatectl |-> sync, ref_id |-> {"id"}, unsynchronised |-> FALSE,
   system_time |-> {SysErr * SecTicks}]

Says == IF ntp THEN {Reference(TRUE)}
               ELSE {NoReference(FALSE), Reference(FALSE), Reference(TRUE)}

\* One of the two does not answer, or the source was lost.
Silent(said) ==
  {[said EXCEPT !.timedatectl = FALSE],
   [said EXCEPT !.ref_id = {}, !.unsynchronised = FALSE, !.system_time = {}],
   NoReference(said.timedatectl)}

\* A variant with a defect: a reference is enough.
TrustworthyByReference(said) == said.ref_id \notin {{}, {"00000000"}}

\* clock_is_trustworthy: every check must pass affirmatively.
Trustworthy(said) ==
  /\ said.timedatectl
  /\ said.ref_id \notin {{}, {"00000000"}}
  /\ ~said.unsynchronised
  /\ \E t \in said.system_time : -MaxArmOffset <= t /\ t <= MaxArmOffset

\* The guard's poll finds a copy unlocked, or all locked and the label wrong, and
\* arms, or is refused by the clock guard until its next try.
Poll ==
  /\ gpc = "poll"
  /\ Unlocked \/ AuditFails
  /\ \E said \in Says :
       \/ /\ gpc' = IF Trustworthy(said) THEN "look" ELSE "wait"
          /\ UNCHANGED faults
       \/ /\ Spend({"mute"})
          /\ \E heard \in Silent(said) : gpc' = IF Trustworthy(heard) THEN "look" ELSE "wait"
  /\ UNCHANGED <<pins, copy, down, box, label, ntp>>

\* A variant with a defect: arming at any time of the second.
LookAnyTime ==
  /\ gpc = "look"
  /\ gpc' = "store" /\ label' = 1 + SysErr
  /\ UNCHANGED <<pins, copy, down, box, ntp, faults>>

\* cmd_arm waits for mid-second and takes the label of the next PPS.
Look ==
  /\ gpc = "look" /\ phase \in ArmLo .. ArmHi
  /\ gpc' = "store" /\ label' = 1 + SysErr
  /\ UNCHANGED <<pins, copy, down, box, ntp, faults>>

\* The store to SEC_ARM, broadcast to the copies. The next arm is seconds away.
Store ==
  /\ gpc = "store" /\ \A r \in Copies : box[r] = <<>>
  /\ Broadcast([disarm |-> FALSE, sec |-> label])
  /\ gpc' = "wait" /\ label' = 0
  /\ UNCHANGED <<pins, copy, down, ntp, faults>>

\* wr_time.py arm --force, by hand.
ForceArm ==
  /\ Spend({"force"})
  /\ phase \in ArmLo .. ArmHi
  /\ \A r \in Copies : box[r] = <<>>
  /\ Broadcast([disarm |-> FALSE, sec |-> 1 + SysErr])
  /\ UNCHANGED <<pins, copy, down, guard, ntp>>

\* wr_time.py disarm, by hand.
Disarm ==
  /\ Spend({"disarm"})
  /\ \A r \in Copies : box[r] = <<>>
  /\ Broadcast([disarm |-> TRUE, sec |-> 0])
  /\ UNCHANGED <<pins, copy, down, guard, ntp>>

-----------------------------------------------------------------------------
(***************************************************************************)
(* chrony finds a reference and corrects the clock.                        *)
(***************************************************************************)
Disciplines ==
  /\ ~ntp
  /\ ntp' = TRUE
  /\ UNCHANGED <<pins, copy, down, box, guard, faults>>

TimePasses == \E runs \in BOOLEAN, edge \in SUBSET (Copies \ down) : Tick(runs, edge)

CopyClk(r) == \E edge, req \in BOOLEAN : Clk(r, edge, req)

Next ==
  \/ TimePasses
  \/ Poll \/ Look \/ Store \/ ForceArm \/ Disarm
  \/ Disciplines
  \/ \E r \in Copies : CopyClk(r) \/ Relock(r) \/ Relocked(r)

Spec == Init /\ [][Next]_vars

(***************************************************************************)
(* Time passes, the copies' clocks run, a relock ends, NTP corrects the    *)
(* clock. The guard polls for ever, and looks often enough to find the     *)
(* middle of a second.                                                     *)
(***************************************************************************)
Fairness ==
  /\ WF_vars(TimePasses) /\ WF_vars(Disciplines)
  /\ \A r \in Copies : WF_vars(CopyClk(r)) /\ WF_vars(Relocked(r))
  /\ WF_vars(Poll) /\ SF_vars(Look) /\ WF_vars(Store)

FairSpec == Spec /\ Fairness

-----------------------------------------------------------------------------
\* Unless an arm was forced, no locked copy is ever a whole second in the future:
\* a spurious PPS edge, early as it is, does not add a second that stays, and the
\* clock of a fresh boot does not get in (wr_timebase.sv:25-37, clock_guard.py:1-22).
NeverASecondFast ==
  faults["force"] = MaxFaults["force"] =>
    \A r \in Copies : lk[r] /\ pin = {} => TimeErr(r) < SecTicks

\* No copy has met a spurious edge, no store came late, and the 10 MHz was not away for
\* so long that the filter would reject a genuine edge.
Undisturbed ==
  /\ \A f \in {"glitch", "late"} : faults[f] = MaxFaults[f]
  /\ MaxFaults["clk10"] - faults["clk10"] <= SecTicks - MinCells

\* The audit of the monitor stands for every copy: when all are locked and the
\* monitor is right, so are the others, as long as no spurious edge, late store
\* or long outage of the 10 MHz has parted them (wr_time.py:241-253,
\* aclk_pipeline_bd_top.v:398-401).
AuditCoversCopies ==
  Undisturbed /\ Settled /\ ~Unlocked /\ TimeErr(Monitor) = 0
    => \A r \in Copies : TimeErr(r) = 0

Right(r) == pin = {} => TimeErr(r) = 0

\* When the faults are over the guard brings every copy to lock, and the
\* monitor to true time, and there they stay, whatever time an arm that was forced
\* before the system clock was right gave them (wr_time.py:171-254). When no
\* spurious edge, late store or long outage was among them, every copy is on true time.
Converges ==
  <>[](/\ ~Unlocked /\ Right(Monitor)
       /\ Undisturbed => \A r \in Copies : Right(r))

=============================================================================
