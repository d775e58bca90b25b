--------------------------- MODULE WrTime_proofs ----------------------------
(***************************************************************************)
(* Two facts about the timebase and its guard, for every number of copies  *)
(* and every length of the second, of the filter and of the arm window;    *)
(* and, at the end, two about its registers.                               *)
(*                                                                         *)
(* That no copy is a second fast is a bound on how far the time it keeps   *)
(* is ahead, TimeErr: not at all before a spurious edge, less than the     *)
(* filter's length after one, which is what the next genuine edge needs to *)
(* be told from it. That the monitor stands for all is a statement about   *)
(* what each copy WILL hold once the edge on the pin and the word on its   *)
(* way are met: then the copies are in lockstep, while in between some     *)
(* have met them and others not.                                           *)
(***************************************************************************)
EXTENDS WrTime, WrTimeAxi, TLAPS

Word == [disarm : BOOLEAN, sec : Int]

PinsTyped ==
  /\ phase \in 0..SecTicks - 1 /\ pin \in SUBSET Copies /\ clk10 \in BOOLEAN
  /\ down \in SUBSET Relocking

CopiesTyped ==
  /\ armed \in [Copies -> BOOLEAN] /\ arm_sec \in [Copies -> Int]
  /\ sec \in [Copies -> Int] /\ lk \in [Copies -> BOOLEAN]
  /\ pps_seen \in [Copies -> BOOLEAN] /\ cells \in [Copies -> 0..SecTicks]
  /\ box \in [Copies -> Seq(Word)]

GuardTyped ==
  /\ gpc \in {"poll", "look", "store", "wait"} /\ label \in Int /\ ntp \in BOOLEAN
  /\ faults \in [Kinds -> Nat] /\ \A k \in Kinds : faults[k] <= MaxFaults[k]

TypeOK == PinsTyped /\ CopiesTyped /\ GuardTyped

\* A copy in reset holds nothing; a locked one has seen an edge.
Resets ==
  /\ \A r \in down : ~armed[r] /\ ~lk[r] /\ ~pps_seen[r] /\ box[r] = <<>> /\ r \notin pin
  /\ \A r \in Copies : lk[r] => pps_seen[r]

-----------------------------------------------------------------------------
(***************************************************************************)
(* No copy is a second fast.                                               *)
(***************************************************************************)
Unspent(k) == faults[k] = MaxFaults[k]
OnArm(r) == box[r] # <<>> /\ ~box[r][1].disarm

\* A second to come is labelled within the arm window of the second before.
Labelled(n) == n <= 1 /\ (n = 1 => phase >= ArmLo)

Labels ==
  /\ gpc = "look" => ntp
  /\ gpc = "store" => Labelled(label)
  /\ \A r \in Copies : /\ OnArm(r) => Labelled(box[r][1].sec)
                       /\ armed[r] => Labelled(arm_sec[r])

\* Not ahead before a spurious edge is met, and less than the filter after it.
Ahead ==
  \A r \in Copies : lk[r] =>
    /\ TimeErr(r) < MinCells
    /\ Unspent("glitch") \/ (r \in pin /\ phase # 0) => TimeErr(r) <= 0

\* An edge within the second is a spurious one.
Spurious == pin # {} /\ phase # 0 => ~Unspent("glitch")

FastInv == Unspent("force") => Labels /\ Ahead

-----------------------------------------------------------------------------
(***************************************************************************)
(* The monitor stands for every copy.                                      *)
(***************************************************************************)
Lost == MaxFaults["clk10"] - faults["clk10"]

\* Edges come at the start of a second, arms within it, and no edge is rejected.
InTime ==
  /\ pin # {} => phase = 0
  /\ gpc = "store" => phase # 0
  /\ \A r \in Copies : /\ OnArm(r) => phase # 0
                       /\ pps_seen[r] => cells[r] >= phase - Lost
                       /\ pps_seen[r] /\ r \in pin => cells[r] >= SecTicks - Lost

\* What a copy will hold when it has met the edge and the word.
OnDisarm(r) == box[r] # <<>> /\ box[r][1].disarm
WillArm(r) == ~OnDisarm(r) /\ (OnArm(r) \/ (armed[r] /\ r \notin pin))
WillArmSec(r) == IF OnArm(r) THEN box[r][1].sec ELSE arm_sec[r]
WillLock(r) == ~OnDisarm(r) /\ (IF r \in pin /\ armed[r] THEN clk10 ELSE lk[r])
WillSec(r) == IF r \notin pin THEN sec[r] ELSE IF armed[r] THEN arm_sec[r] ELSE sec[r] + 1
WillCells(r) == IF r \in pin THEN 0 ELSE cells[r]

\* An arm of a copy is one of the monitor, and one of the monitor one of every
\* locked copy; what both keep is the same.
InStep(r) ==
  /\ WillArm(r) => WillArm(Monitor) /\ WillArmSec(r) = WillArmSec(Monitor)
  /\ WillLock(r) /\ WillArm(Monitor) => WillArm(r)
  /\ WillLock(r) /\ WillLock(Monitor) =>
       WillSec(r) = WillSec(Monitor) /\ WillCells(r) = WillCells(Monitor)

StepInv == Undisturbed => InTime /\ \A r \in Copies : InStep(r)

IInv == TypeOK /\ Resets /\ (MaxFaults["glitch"] <= 1 => Spurious /\ FastInv) /\ StepInv
-----------------------------------------------------------------------------
(***************************************************************************)
(* Arithmetic, and the faults.                                             *)
(***************************************************************************)
LEMMA Times ==
  ASSUME NEW k \in Int
  PROVE  /\ k * SecTicks \in Int /\ (k + 1) * SecTicks = k * SecTicks + SecTicks
         /\ (k - 1) * SecTicks = k * SecTicks - SecTicks
         /\ k <= 0 => k * SecTicks <= 0
         /\ k * SecTicks < 0 => (k + 1) * SecTicks <= 0
         /\ 1 * SecTicks = SecTicks /\ 0 * SecTicks = 0
  <1>1. SecTicks \in Nat
    BY WrTimeAssumption
  <1>2. \A n \in Int : n <= 0 => n * SecTicks <= 0
    BY <1>1
  <1>3. k * SecTicks < 0 => k + 1 <= 0
    <2>1. k >= 0 => k * SecTicks >= 0
      BY <1>1
    <2> QED BY <1>1, <2>1
  <1> QED BY <1>1, <1>2, <1>3

LEMMA SpendCounts ==
  ASSUME GuardTyped, NEW kinds \in SUBSET Kinds, Spend(kinds)
  PROVE  /\ faults' \in [Kinds -> Nat]
         /\ \A k \in Kinds : /\ faults'[k] = IF k \in kinds THEN faults[k] - 1 ELSE faults[k]
                             /\ k \in kinds => faults[k] > 0
                             /\ faults'[k] <= faults[k] /\ faults[k] <= MaxFaults[k]
                             /\ faults'[k] \in Nat /\ faults[k] \in Nat /\ MaxFaults[k] \in Nat
  <1>1. /\ faults \in [Kinds -> Nat] /\ MaxFaults \in [Kinds -> Nat]
        /\ \A k \in Kinds : faults[k] <= MaxFaults[k]
        /\ \A k \in kinds : faults[k] > 0
        /\ faults' = [k \in Kinds |-> IF k \in kinds THEN faults[k] - 1 ELSE faults[k]]
    BY WrTimeAssumption DEF GuardTyped, Spend
  <1>2. \A k \in Kinds : /\ faults[k] \in Nat /\ MaxFaults[k] \in Nat
                         /\ faults'[k] = IF k \in kinds THEN faults[k] - 1 ELSE faults[k]
    BY <1>1
  <1>3. \A k \in Kinds : faults'[k] \in Nat /\ faults'[k] <= faults[k]
    BY <1>1, <1>2
  <1>4. faults' \in [Kinds -> Nat]
    BY <1>1, <1>3
  <1> QED BY <1>1, <1>2, <1>3, <1>4

LEMMA Bounds ==
  /\ SecTicks \in Nat /\ MinCells \in Nat /\ ArmLo \in Nat /\ ArmHi \in Nat /\ PpsTimeout \in Nat
  /\ 0 < ArmLo /\ ArmLo <= ArmHi /\ ArmHi < SecTicks /\ MinCells < SecTicks
  /\ SecTicks < ArmLo + MinCells /\ SecTicks < 2 * MinCells
  /\ Monitor \in Copies /\ Relocking \subseteq Copies \ {Monitor}
  BY WrTimeAssumption

-----------------------------------------------------------------------------
(***************************************************************************)
(* Types and resets.                                                       *)
(***************************************************************************)
\* What a clock edge of a copy changes.
LEMMA ClkChanges ==
  ASSUME TypeOK, NEW r \in Copies, NEW edge \in BOOLEAN, NEW req \in BOOLEAN, Clk(r, edge, req)
  PROVE  /\ UNCHANGED <<phase, clk10, down, guard, ntp, faults>>
         /\ r \notin down /\ (edge => r \in pin) /\ (req => box[r] # <<>>)
         /\ pin' = (IF edge THEN pin \ {r} ELSE pin)
         /\ \A q \in Copies \ {r} :
              /\ box'[q] = box[q] /\ armed'[q] = armed[q] /\ arm_sec'[q] = arm_sec[q] /\ lk'[q] = lk[q]
              /\ sec'[q] = sec[q] /\ pps_seen'[q] = pps_seen[q] /\ cells'[q] = cells[q]
         /\ box'[r] = (IF req THEN <<>> ELSE box[r])
         /\ (req => box[r][1] \in Word)
  BY DEF Clk, TypeOK, CopiesTyped, PinsTyped

LEMMA ClkTyped ==
  ASSUME TypeOK, NEW r \in Copies, NEW edge \in BOOLEAN, NEW req \in BOOLEAN, Clk(r, edge, req)
  PROVE  TypeOK'
  <1>1. PinsTyped' /\ GuardTyped'
    BY ClkChanges DEF TypeOK, PinsTyped, GuardTyped, guard
  <1>2. req => box[r][1].disarm \in BOOLEAN /\ box[r][1].sec \in Int
    BY ClkChanges DEF Word
  <1>3. box' \in [Copies -> Seq(Word)]
    BY DEF Clk, TypeOK, CopiesTyped
  <1>4. armed' \in [Copies -> BOOLEAN] /\ lk' \in [Copies -> BOOLEAN] /\ pps_seen' \in [Copies -> BOOLEAN]
    <2> DEFINE valid == edge /\ PpsValid(r)
               load == valid /\ armed[r]
               disarm == req /\ box[r][1].disarm
               arm == req /\ ~box[r][1].disarm
               arms == ~load /\ ~disarm /\ (armed[r] \/ arm)
               locks == Locks(r, load, disarm)
               sees == pps_seen[r] \/ valid
    <2>1. /\ armed' = [armed EXCEPT ![r] = arms] /\ lk' = [lk EXCEPT ![r] = locks]
          /\ pps_seen' = [pps_seen EXCEPT ![r] = sees]
      BY DEF Clk
    <2>2. arms \in BOOLEAN /\ sees \in BOOLEAN
      OBVIOUS
    <2>3. locks \in BOOLEAN
      BY DEF Locks
    <2> HIDE DEF arms, locks, sees
    <2> QED BY <2>1, <2>2, <2>3 DEF TypeOK, CopiesTyped
  <1>5. arm_sec' \in [Copies -> Int] /\ sec' \in [Copies -> Int]
    BY <1>2 DEF Clk, TypeOK, CopiesTyped
  <1>6. cells' \in [Copies -> 0..SecTicks]
    BY Bounds DEF Clk, TypeOK, CopiesTyped
  <1> QED BY <1>1, <1>3, <1>4, <1>5, <1>6 DEF TypeOK, CopiesTyped
FaultyTick(runs, edge) ==
  {f \in Kinds : \/ f = "missing" /\ phase = SecTicks - 1 /\ edge = {}
                 \/ f = "glitch" /\ phase # SecTicks - 1 /\ edge # {}
                 \/ f = "clk10" /\ ~runs
                 \/ f = "late" /\ gpc = "store"}

\* What a tick changes.
LEMMA TickChanges ==
  ASSUME TypeOK, NEW runs \in BOOLEAN, NEW edge \in SUBSET (Copies \ down), Tick(runs, edge)
  PROVE  /\ Settled /\ (phase = SecTicks - 1 => edge \in {{}, Copies \ down})
         /\ Spend(FaultyTick(runs, edge))
         /\ phase' = (IF phase = SecTicks - 1 THEN 0 ELSE phase + 1)
         /\ pin' = edge /\ clk10' \in BOOLEAN
         /\ UNCHANGED <<armed, pps_seen, down, box, ntp>>
         /\ gpc' = (IF gpc = "wait" THEN "poll" ELSE gpc)
         /\ label' = (IF gpc = "store" THEN Older(label, phase = SecTicks - 1) ELSE label)
         /\ \A r \in Copies :
              /\ cells'[r] = (IF runs /\ r \notin down THEN AtMost(cells[r] + 1, SecTicks) ELSE cells[r])
              /\ lk'[r] \in BOOLEAN /\ (lk'[r] => lk[r] /\ runs)
              /\ sec'[r] = (IF lk'[r] THEN Older(sec[r], phase = SecTicks - 1) ELSE 0)
              /\ arm_sec'[r] = (IF armed[r] THEN Older(arm_sec[r], phase = SecTicks - 1) ELSE 0)
  <1>1. Spend(FaultyTick(runs, edge))
    BY DEF Tick, FaultyTick
  <1>2. clk10' \in BOOLEAN
    <2>1. IF runs THEN clk10' = TRUE ELSE clk10' \in BOOLEAN
      BY DEF Tick
    <2> QED BY <2>1
  <1>3. \A r \in Copies : lk'[r] \in BOOLEAN /\ (lk'[r] => lk[r] /\ runs)
    <2> SUFFICES ASSUME NEW r \in Copies PROVE lk'[r] \in BOOLEAN /\ (lk'[r] => lk[r] /\ runs)
      OBVIOUS
    <2> DEFINE keeps == lk[r] /\ runs /\ pps_wd'[r] < PpsTimeout
    <2>1. lk'[r] = keeps
      BY DEF Tick
    <2>2. keeps \in BOOLEAN /\ (keeps => lk[r] /\ runs)
      OBVIOUS
    <2> HIDE DEF keeps
    <2> QED BY <2>1, <2>2
  <1>4. /\ Settled /\ (phase = SecTicks - 1 => edge \in {{}, Copies \ down})
        /\ phase' = (IF phase = SecTicks - 1 THEN 0 ELSE phase + 1) /\ pin' = edge
        /\ UNCHANGED <<armed, pps_seen, down, box, ntp>>
        /\ gpc' = (IF gpc = "wait" THEN "poll" ELSE gpc)
        /\ label' = (IF gpc = "store" THEN Older(label, phase = SecTicks - 1) ELSE label)
    BY DEF Tick
  <1>5. /\ cells' = [r \in Copies |-> IF runs /\ r \notin down THEN AtMost(cells[r] + 1, SecTicks) ELSE cells[r]]
        /\ sec' = [r \in Copies |-> IF lk'[r] THEN Older(sec[r], phase = SecTicks - 1) ELSE 0]
        /\ arm_sec' = [r \in Copies |-> IF armed[r] THEN Older(arm_sec[r], phase = SecTicks - 1) ELSE 0]
    BY DEF Tick
  <1> QED BY <1>1, <1>2, <1>3, <1>4, <1>5

LEMMA TickTyped ==
  ASSUME TypeOK, NEW runs \in BOOLEAN, NEW edge \in SUBSET (Copies \ down), Tick(runs, edge)
  PROVE  TypeOK'
  <1>1. PinsTyped'
    BY TickChanges, Bounds DEF TypeOK, PinsTyped
  <1>2. /\ cells' = [r \in Copies |-> cells'[r]] /\ lk' = [r \in Copies |-> lk'[r]]
        /\ sec' = [r \in Copies |-> sec'[r]] /\ arm_sec' = [r \in Copies |-> arm_sec'[r]]
    BY DEF Tick
  <1>3. \A r \in Copies : cells'[r] \in 0..SecTicks /\ sec'[r] \in Int /\ arm_sec'[r] \in Int /\ lk'[r] \in BOOLEAN
    <2> SUFFICES ASSUME NEW r \in Copies
                 PROVE  cells'[r] \in 0..SecTicks /\ sec'[r] \in Int /\ arm_sec'[r] \in Int /\ lk'[r] \in BOOLEAN
      OBVIOUS
    <2>1. cells[r] \in 0..SecTicks /\ sec[r] \in Int /\ arm_sec[r] \in Int
      BY DEF TypeOK, CopiesTyped
    <2>2. cells'[r] \in {cells[r], AtMost(cells[r] + 1, SecTicks)}
      BY TickChanges
    <2>3. cells'[r] \in 0..SecTicks
      BY <2>1, <2>2, Bounds DEF AtMost
    <2>4. sec'[r] \in {sec[r], sec[r] - 1, 0} /\ arm_sec'[r] \in {arm_sec[r], arm_sec[r] - 1, 0}
      BY TickChanges DEF Older
    <2> QED BY <2>1, <2>3, <2>4, TickChanges
  <1>4. CopiesTyped'
    <2>1. armed' = armed /\ pps_seen' = pps_seen /\ box' = box
      BY TickChanges
    <2> QED BY <1>2, <1>3, <2>1 DEF TypeOK, CopiesTyped
  <1>5. GuardTyped'
    <2>1. FaultyTick(runs, edge) \in SUBSET Kinds
      BY DEF FaultyTick
    <2>2. faults' \in [Kinds -> Nat] /\ \A k \in Kinds : faults'[k] <= MaxFaults[k]
      BY <2>1, TickChanges, SpendCounts DEF TypeOK
    <2>3. label' \in Int
      BY TickChanges DEF Older, TypeOK, GuardTyped
    <2>4. gpc' \in {"poll", "look", "store", "wait"} /\ ntp' \in BOOLEAN
      BY TickChanges DEF TypeOK, GuardTyped
    <2> QED BY <2>2, <2>3, <2>4 DEF GuardTyped
  <1> QED BY <1>1, <1>4, <1>5 DEF TypeOK

\* The steps of the guard and by hand.
GuardStep == Poll \/ Look \/ Store \/ ForceArm \/ Disarm \/ Disciplines

\* What they change: a word goes out, or nothing of the copies changes.
LEMMA GuardChanges ==
  ASSUME TypeOK, GuardStep
  PROVE  /\ UNCHANGED <<pins, copy, down>>
         /\ gpc' \in {"poll", "look", "store", "wait"} /\ label' \in Int /\ ntp' \in BOOLEAN
         /\ faults' \in [Kinds -> Nat]
         /\ \A k \in Kinds : faults'[k] <= faults[k] /\ (k \notin {"mute", "force", "disarm"} => faults'[k] = faults[k])
         /\ box' = box \/ \E word \in Word : Broadcast(word) /\ \A r \in Copies : box[r] = <<>>
  <1>1. UNCHANGED <<pins, copy, down>>
    BY DEF GuardStep, Poll, Look, Store, ForceArm, Disarm, Disciplines, guard
  <1>2. gpc' \in {"poll", "look", "store", "wait"} /\ label' \in Int /\ ntp' \in BOOLEAN
    <2>1. SysErr \in Int
      BY DEF SysErr
    <2>2. label' \in {label, 1 + SysErr, 0}
      BY DEF GuardStep, Poll, Look, Store, ForceArm, Disarm, Disciplines, guard
    <2>3. gpc' \in {gpc, "look", "store", "wait"}
      BY DEF GuardStep, Poll, Look, Store, ForceArm, Disarm, Disciplines, guard
    <2>4. ntp' \in {ntp, TRUE}
      BY DEF GuardStep, Poll, Look, Store, ForceArm, Disarm, Disciplines, guard
    <2>5. label' \in Int
      BY <2>1, <2>2 DEF TypeOK, GuardTyped
    <2>6. gpc' \in {"poll", "look", "store", "wait"}
      BY <2>3 DEF TypeOK, GuardTyped
    <2>7. ntp' \in BOOLEAN
      BY <2>4 DEF TypeOK, GuardTyped
    <2> QED BY <2>5, <2>6, <2>7
  <1>3. /\ faults' \in [Kinds -> Nat]
        /\ \A k \in Kinds : faults'[k] <= faults[k] /\ (k \notin {"mute", "force", "disarm"} => faults'[k] = faults[k])
    <2>1. \/ faults' = faults
          \/ \E kinds \in {{"mute"}, {"force"}, {"disarm"}} : Spend(kinds)
      BY DEF GuardStep, Poll, Look, Store, ForceArm, Disarm, Disciplines
    <2>2. CASE faults' = faults
      BY <2>2 DEF TypeOK, GuardTyped
    <2>3. CASE \E kinds \in {{"mute"}, {"force"}, {"disarm"}} : Spend(kinds)
      <3>1. PICK kinds \in {{"mute"}, {"force"}, {"disarm"}} : Spend(kinds)
        BY <2>3
      <3>2. kinds \in SUBSET Kinds /\ kinds \subseteq {"mute", "force", "disarm"}
        BY <3>1 DEF Kinds
      <3> QED BY <3>1, <3>2, SpendCounts DEF TypeOK
    <2> QED BY <2>1, <2>2, <2>3
  <1>4. box' = box \/ \E word \in Word : Broadcast(word) /\ \A r \in Copies : box[r] = <<>>
    <2>1. /\ [disarm |-> FALSE, sec |-> label] \in Word /\ [disarm |-> FALSE, sec |-> 1 + SysErr] \in Word
          /\ [disarm |-> TRUE, sec |-> 0] \in Word
      BY DEF Word, SysErr, TypeOK, GuardTyped
    <2>2. CASE Poll \/ Look \/ Disciplines
      BY <2>2 DEF Poll, Look, Disciplines
    <2>3. CASE Store
      BY <2>1, <2>3 DEF Store
    <2>4. CASE ForceArm
      BY <2>1, <2>4 DEF ForceArm
    <2>5. CASE Disarm
      BY <2>1, <2>5 DEF Disarm
    <2> QED BY <2>2, <2>3, <2>4, <2>5 DEF GuardStep
  <1> QED BY <1>1, <1>2, <1>3, <1>4

LEMMA GuardStepTyped ==
  ASSUME TypeOK, Resets, GuardStep
  PROVE  TypeOK' /\ Resets'
  <1>1. UNCHANGED <<phase, pin, clk10, down, armed, arm_sec, sec, lk, pps_seen, cells>>
    BY GuardChanges DEF pins, copy
  <1>2. box' \in [Copies -> Seq(Word)] /\ \A r \in down : box'[r] = <<>>
    <2>1. CASE box' = box
      BY <2>1 DEF TypeOK, CopiesTyped, Resets
    <2>2. CASE \E word \in Word : Broadcast(word)
      <3>1. PICK word \in Word : box' = [r \in Copies |-> IF r \in down THEN <<>> ELSE <<word>>]
        BY <2>2 DEF Broadcast
      <3>2. <<word>> \in Seq(Word) /\ <<>> \in Seq(Word)
        OBVIOUS
      <3>3. down \subseteq Copies
        BY Bounds DEF TypeOK, PinsTyped
      <3> QED BY <3>1, <3>2, <3>3
    <2> QED BY <2>1, <2>2, GuardChanges
  <1>3. \A k \in Kinds : faults'[k] <= MaxFaults[k]
    <2>1. \A k \in Kinds : faults'[k] \in Nat /\ faults[k] \in Nat /\ MaxFaults[k] \in Nat
      BY GuardChanges, WrTimeAssumption DEF TypeOK, GuardTyped
    <2> QED BY <2>1, GuardChanges DEF TypeOK, GuardTyped
  <1>4. PinsTyped' /\ CopiesTyped' /\ GuardTyped'
    <2>1. PinsTyped'
      BY <1>1 DEF TypeOK, PinsTyped
    <2>2. CopiesTyped'
      BY <1>1, <1>2 DEF TypeOK, CopiesTyped
    <2>3. GuardTyped'
      BY <1>3, GuardChanges DEF GuardTyped
    <2> QED BY <2>1, <2>2, <2>3
  <1> QED BY <1>1, <1>2, <1>4 DEF TypeOK, Resets
LEMMA ResetsKept ==
  /\ \A r \in Copies, edge \in BOOLEAN, req \in BOOLEAN : TypeOK /\ Resets /\ Clk(r, edge, req) => Resets'
  /\ \A runs \in BOOLEAN, edge \in SUBSET (Copies \ down) : TypeOK /\ Resets /\ Tick(runs, edge) => Resets'
  <1>1. ASSUME TypeOK, Resets, NEW r \in Copies, NEW edge \in BOOLEAN, NEW req \in BOOLEAN, Clk(r, edge, req)
        PROVE  Resets'
    <2>1. \A q \in down : q # r /\ q \in Copies
      BY <1>1, ClkChanges, Bounds DEF TypeOK, PinsTyped
    <2>2. \A q \in down : ~armed'[q] /\ ~lk'[q] /\ ~pps_seen'[q] /\ box'[q] = <<>> /\ q \notin pin'
      BY <1>1, <2>1, ClkChanges DEF Resets
    <2>3. lk'[r] => pps_seen'[r]
      <3> DEFINE valid == edge /\ PpsValid(r)
                 load == valid /\ armed[r]
                 disarm == req /\ box[r][1].disarm
      <3>1. lk'[r] = Locks(r, load, disarm) /\ pps_seen'[r] = (pps_seen[r] \/ valid)
        BY <1>1 DEF Clk, TypeOK, CopiesTyped
      <3>2. Locks(r, load, disarm) => lk[r] \/ valid
        BY DEF Locks
      <3> HIDE DEF load, disarm
      <3> QED BY <1>1, <3>1, <3>2 DEF Resets
    <2>4. \A q \in Copies : lk'[q] => pps_seen'[q]
      BY <1>1, <2>3, ClkChanges DEF Resets
    <2>5. down' = down
      BY <1>1, ClkChanges
    <2> QED BY <2>2, <2>4, <2>5 DEF Resets
  <1>2. ASSUME TypeOK, Resets, NEW runs \in BOOLEAN, NEW edge \in SUBSET (Copies \ down), Tick(runs, edge)
        PROVE  Resets'
    <2>1. \A q \in down : q \in Copies
      BY <1>2, Bounds DEF TypeOK, PinsTyped
    <2>2. \A q \in Copies : lk'[q] => lk[q]
      BY <1>2, TickChanges
    <2>3. UNCHANGED <<armed, pps_seen, down, box>> /\ pin' = edge
      BY <1>2, TickChanges
    <2> QED BY <1>2, <2>1, <2>2, <2>3 DEF Resets
  <1> QED BY <1>1, <1>2

\* What a relock changes.
LEMMA RelockChanges ==
  ASSUME TypeOK, NEW r \in Copies, Relock(r)
  PROVE  /\ r \in Relocking \ down /\ r # Monitor /\ down' = down \cup {r} /\ Spend({"relock"})
         /\ UNCHANGED <<phase, clk10, guard, ntp>> /\ pin' = pin \ {r}
         /\ armed' = [armed EXCEPT ![r] = FALSE] /\ lk' = [lk EXCEPT ![r] = FALSE]
         /\ pps_seen' = [pps_seen EXCEPT ![r] = FALSE] /\ box' = [box EXCEPT ![r] = <<>>]
         /\ arm_sec' = [arm_sec EXCEPT ![r] = 0] /\ sec' = [sec EXCEPT ![r] = 0]
         /\ cells' = [cells EXCEPT ![r] = 0]
  BY Bounds DEF Relock

LEMMA RelockTyped ==
  ASSUME TypeOK, Resets, NEW r \in Copies, Relock(r) \/ Relocked(r)
  PROVE  TypeOK' /\ Resets'
  <1>1. CASE Relock(r)
    <2>1. PinsTyped'
      BY <1>1, RelockChanges DEF TypeOK, PinsTyped
    <2>2. CopiesTyped'
      <3>1. <<>> \in Seq(Word)
        OBVIOUS
      <3>2. box' \in [Copies -> Seq(Word)]
        BY ZenonT(30), <1>1, <3>1, RelockChanges DEF TypeOK, CopiesTyped
      <3>3. /\ armed' \in [Copies -> BOOLEAN] /\ lk' \in [Copies -> BOOLEAN]
            /\ pps_seen' \in [Copies -> BOOLEAN]
        BY <1>1, RelockChanges DEF TypeOK, CopiesTyped
      <3>4. /\ arm_sec' \in [Copies -> Int] /\ sec' \in [Copies -> Int] /\ cells' \in [Copies -> 0..SecTicks]
        <4>1. 0 \in 0..SecTicks /\ 0 \in Int
          BY Bounds
        <4>2. arm_sec' \in [Copies -> Int]
          BY <1>1, <4>1, RelockChanges DEF TypeOK, CopiesTyped
        <4>3. sec' \in [Copies -> Int]
          BY <1>1, <4>1, RelockChanges DEF TypeOK, CopiesTyped
        <4>4. cells' \in [Copies -> 0..SecTicks]
          BY <1>1, <4>1, RelockChanges DEF TypeOK, CopiesTyped
        <4> QED BY <4>2, <4>3, <4>4
      <3> QED BY <3>2, <3>3, <3>4 DEF CopiesTyped
    <2>3. GuardTyped'
      <3>1. {"relock"} \in SUBSET Kinds
        BY DEF Kinds
      <3>2. faults' \in [Kinds -> Nat] /\ \A k \in Kinds : faults'[k] <= MaxFaults[k]
        BY <1>1, <3>1, RelockChanges, SpendCounts DEF TypeOK
      <3> QED BY <1>1, <3>2, RelockChanges DEF TypeOK, GuardTyped, guard
    <2>4. Resets'
      <3>1. \A q \in Copies : IF q = r THEN ~armed'[q] /\ ~lk'[q] /\ ~pps_seen'[q] /\ box'[q] = <<>>
                              ELSE /\ armed'[q] = armed[q] /\ lk'[q] = lk[q]
                                   /\ pps_seen'[q] = pps_seen[q] /\ box'[q] = box[q]
        BY <1>1, RelockChanges DEF TypeOK, CopiesTyped
      <3>2. down' = down \cup {r} /\ pin' = pin \ {r} /\ down \subseteq Copies
        BY <1>1, Bounds, RelockChanges DEF TypeOK, PinsTyped
      <3> QED BY <3>1, <3>2 DEF Resets
    <2> QED BY <2>1, <2>2, <2>3, <2>4 DEF TypeOK
  <1>2. CASE Relocked(r)
    <2>1. UNCHANGED <<pins, copy, box, guard, ntp, faults>> /\ down' = down \ {r}
      BY <1>2 DEF Relocked
    <2> QED BY <2>1 DEF TypeOK, PinsTyped, CopiesTyped, GuardTyped, Resets, pins, copy, guard
  <1> QED BY <1>1, <1>2
-----------------------------------------------------------------------------
(***************************************************************************)
(* How far ahead a copy is.                                                *)
(***************************************************************************)
LEMMA ErrTyped ==
  ASSUME TypeOK, NEW r \in Copies
  PROVE  /\ TimeErr(r) = sec[r] * SecTicks + AtMost(cells[r], SecTicks - 1) - phase
         /\ AtMost(cells[r], SecTicks - 1) \in 0..SecTicks - 1
         /\ cells[r] >= MinCells => AtMost(cells[r], SecTicks - 1) >= MinCells
         /\ sec[r] \in Int /\ sec[r] * SecTicks \in Int /\ phase \in Int /\ TimeErr(r) \in Int
  <1>1. cells[r] \in 0..SecTicks /\ sec[r] \in Int /\ phase \in Int
    BY Bounds DEF TypeOK, CopiesTyped, PinsTyped
  <1>2. /\ AtMost(cells[r], SecTicks - 1) \in 0..SecTicks - 1
        /\ cells[r] >= MinCells => AtMost(cells[r], SecTicks - 1) >= MinCells
    BY <1>1, Bounds DEF AtMost
  <1>3. sec[r] * SecTicks \in Int
    BY <1>1, Times
  <1> QED BY <1>1, <1>2, <1>3, Bounds DEF TimeErr

\* No tick moves a copy ahead: it gains a cell at most, and the second begun is taken off.
LEMMA ErrFalls ==
  ASSUME TypeOK, NEW runs \in BOOLEAN, NEW edge \in SUBSET (Copies \ down), Tick(runs, edge),
         NEW r \in Copies, lk'[r]
  PROVE  TimeErr(r)' <= TimeErr(r)
  <1>1. TypeOK'
    BY TickTyped
  <1>2. PICK c \in Int : c = AtMost(cells[r], SecTicks - 1) /\ c \in 0..SecTicks - 1
    BY ErrTyped, Bounds
  <1>3. PICK d \in Int : d = AtMost(cells'[r], SecTicks - 1) /\ d \in 0..SecTicks - 1 /\ d <= c + 1
    <2>1. cells[r] \in 0..SecTicks
      BY DEF TypeOK, CopiesTyped
    <2>2. cells'[r] = cells[r] \/ cells'[r] = AtMost(cells[r] + 1, SecTicks)
      BY TickChanges
    <2> QED BY <1>2, <2>1, <2>2, Bounds DEF AtMost
  <1>4. TimeErr(r) = sec[r] * SecTicks + c - phase /\ sec[r] \in Int /\ phase \in 0..SecTicks - 1
    BY <1>2, ErrTyped DEF TypeOK, PinsTyped
  <1>5. TimeErr(r)' = sec'[r] * SecTicks + d - phase'
    BY <1>3 DEF TimeErr
  <1>6. sec[r] * SecTicks \in Int /\ (sec[r] - 1) * SecTicks = sec[r] * SecTicks - SecTicks
    BY <1>4, Times
  <1>7. CASE phase = SecTicks - 1
    <2>1. phase' = 0 /\ sec'[r] = sec[r] - 1
      BY <1>7, TickChanges DEF Older
    <2> QED BY <1>2, <1>3, <1>4, <1>5, <1>6, <1>7, <2>1, Bounds
  <1>8. CASE phase # SecTicks - 1
    <2>1. phase' = phase + 1 /\ sec'[r] = sec[r]
      BY <1>8, TickChanges DEF Older
    <2> QED BY <1>2, <1>3, <1>4, <1>5, <1>6, <2>1, Bounds
  <1> QED BY <1>7, <1>8

\* The labels that are kept somewhere stay those of a second to come, or older.
LEMMA TickLabels ==
  ASSUME TypeOK, Labels, NEW runs \in BOOLEAN, NEW edge \in SUBSET (Copies \ down), Tick(runs, edge)
  PROVE  Labels'
  <1>1. phase \in 0..SecTicks - 1 /\ phase' = (IF phase = SecTicks - 1 THEN 0 ELSE phase + 1)
    BY TickChanges DEF TypeOK, PinsTyped
  <1>2. ASSUME NEW n \in Int, Labelled(n), NEW m \in Int, m = Older(n, phase = SecTicks - 1)
        PROVE  Labelled(m)'
    BY <1>1, <1>2, Bounds DEF Labelled, Older
  <1>3. gpc' = "look" => ntp'
    BY TickChanges DEF Labels
  <1>4. gpc' = "store" => Labelled(label)'
    <2> SUFFICES ASSUME gpc' = "store" PROVE Labelled(label)'
      OBVIOUS
    <2>1. gpc = "store" /\ label \in Int /\ label' = Older(label, phase = SecTicks - 1)
      BY TickChanges DEF TypeOK, GuardTyped
    <2>2. label' \in Int
      BY TickTyped DEF TypeOK, GuardTyped
    <2>3. Labelled(label)
      BY <2>1 DEF Labels
    <2>4. PICK m \in Int : m = label'
      BY <2>2
    <2>5. Labelled(m)'
      BY <1>2, <2>1, <2>3, <2>4
    <2> QED BY <2>4, <2>5 DEF Labelled
  <1>5. ASSUME NEW r \in Copies PROVE OnArm(r)' => Labelled(box[r][1].sec)'
    <2>1. box[r] = <<>> /\ box' = box
      BY TickChanges DEF Settled
    <2> QED BY <2>1 DEF OnArm
  <1>6. ASSUME NEW r \in Copies, armed'[r] PROVE Labelled(arm_sec[r])'
    <2>1. armed[r] /\ arm_sec[r] \in Int /\ arm_sec'[r] = Older(arm_sec[r], phase = SecTicks - 1)
      <3>1. arm_sec \in [Copies -> Int] /\ arm_sec[r] \in Int
        BY DEF TypeOK, CopiesTyped
      <3>2. armed' = armed
        BY TickChanges
      <3>3. arm_sec'[r] = IF armed[r] THEN Older(arm_sec[r], phase = SecTicks - 1) ELSE 0
        BY TickChanges
      <3> QED BY <1>6, <3>1, <3>2, <3>3
    <2>2. arm_sec'[r] \in Int
      BY TickTyped DEF TypeOK, CopiesTyped
    <2>3. Labelled(arm_sec[r])
      BY <2>1 DEF Labels
    <2>4. PICK m \in Int : m = arm_sec'[r]
      BY <2>2
    <2>5. Labelled(m)'
      BY <1>2, <2>1, <2>3, <2>4
    <2> QED BY <2>4, <2>5 DEF Labelled
  <1> QED BY <1>3, <1>4, <1>5, <1>6 DEF Labels
LEMMA TickAhead ==
  ASSUME TypeOK, Ahead, MaxFaults["glitch"] <= 1,
         NEW runs \in BOOLEAN, NEW edge \in SUBSET (Copies \ down), Tick(runs, edge)
  PROVE  Ahead' /\ Spurious'
  <1>1. FaultyTick(runs, edge) \in SUBSET Kinds /\ "glitch" \in Kinds
    BY DEF FaultyTick, Kinds
  <1>2. /\ faults'["glitch"] \in Nat /\ faults["glitch"] \in Nat /\ MaxFaults["glitch"] \in Nat
        /\ faults'["glitch"] <= faults["glitch"] /\ faults["glitch"] <= MaxFaults["glitch"]
        /\ "glitch" \in FaultyTick(runs, edge) => faults["glitch"] > 0 /\ faults'["glitch"] = faults["glitch"] - 1
    BY <1>1, TickChanges, SpendCounts DEF TypeOK
  <1>3. pin' = edge /\ (pin' # {} /\ phase' # 0 => "glitch" \in FaultyTick(runs, edge))
    BY TickChanges DEF FaultyTick, Kinds
  <1>4. Unspent("glitch")' \/ (pin' # {} /\ phase' # 0) => Unspent("glitch")
    BY <1>2, <1>3 DEF Unspent
  <1>5. Spurious'
    BY <1>2, <1>3 DEF Spurious, Unspent
  <1>6. ASSUME NEW r \in Copies, lk'[r]
        PROVE  /\ TimeErr(r)' < MinCells
               /\ Unspent("glitch")' \/ (r \in pin' /\ phase' # 0) => TimeErr(r)' <= 0
    <2>1. lk[r] /\ TimeErr(r)' <= TimeErr(r) /\ TimeErr(r) \in Int
      BY <1>6, TickChanges, ErrFalls, ErrTyped
    <2>2. TimeErr(r)' \in Int
      <3>1. TypeOK'
        BY TickTyped
      <3>2. PICK s \in Int, c \in Int, p \in Int : s = sec'[r] /\ c = AtMost(cells'[r], SecTicks - 1) /\ p = phase'
        BY SMTT(30), <3>1, Bounds DEF TypeOK, CopiesTyped, PinsTyped, AtMost
      <3> QED BY <3>2, Times, Bounds DEF TimeErr
    <2>3. TimeErr(r) < MinCells /\ (Unspent("glitch") => TimeErr(r) <= 0)
      BY <2>1 DEF Ahead
    <2> QED BY <1>4, <2>1, <2>2, <2>3, Bounds
  <1> QED BY <1>5, <1>6 DEF Ahead

\* What an edge that passes the filter does to a copy, and one that does not.
LEMMA EdgeMet ==
  ASSUME TypeOK, NEW r \in Copies, NEW edge \in BOOLEAN, NEW req \in BOOLEAN, Clk(r, edge, req)
  PROVE  LET valid == edge /\ PpsValid(r)
             load == valid /\ armed[r]
         IN  /\ armed'[r] => /\ armed[r] \/ OnArm(r)
                             /\ arm_sec'[r] = IF req /\ OnArm(r) THEN box[r][1].sec ELSE arm_sec[r]
                             /\ (req /\ OnArm(r)) \/ armed[r]
             /\ lk'[r] => /\ IF load THEN clk10 ELSE lk[r]
                          /\ sec'[r] = IF load THEN arm_sec[r] ELSE IF valid THEN sec[r] + 1 ELSE sec[r]
             /\ cells'[r] = IF valid THEN 0 ELSE cells[r]
  <1> DEFINE valid == edge /\ PpsValid(r)
             load == valid /\ armed[r]
             disarm == req /\ box[r][1].disarm
             arm == req /\ ~box[r][1].disarm
             arms == ~load /\ ~disarm /\ (armed[r] \/ arm)
  <1>1. arm <=> req /\ OnArm(r)
    BY ClkChanges DEF OnArm
  <1>2. armed' = [armed EXCEPT ![r] = arms]
    BY DEF Clk
  <1>3. armed'[r] = arms
    BY <1>2 DEF TypeOK, CopiesTyped
  <1>4. /\ arm_sec'[r] = (IF ~armed'[r] THEN 0 ELSE IF arm THEN box[r][1].sec ELSE arm_sec[r])
        /\ lk'[r] = Locks(r, load, disarm)
        /\ sec'[r] = (IF ~lk'[r] THEN 0 ELSE IF load THEN arm_sec[r] ELSE IF valid THEN sec[r] + 1 ELSE sec[r])
        /\ cells'[r] = (IF valid THEN 0 ELSE cells[r])
    BY DEF Clk, TypeOK, CopiesTyped
  <1>5. Locks(r, load, disarm) => IF load THEN clk10 ELSE lk[r]
    BY DEF Locks
  <1> HIDE DEF valid, disarm
  <1> QED BY <1>1, <1>3, <1>4, <1>5 DEF valid

LEMMA ClkLabels ==
  ASSUME TypeOK, Labels, NEW r \in Copies, NEW edge \in BOOLEAN, NEW req \in BOOLEAN, Clk(r, edge, req)
  PROVE  Labels'
  <1>1. phase' = phase /\ gpc' = gpc /\ label' = label /\ ntp' = ntp
    BY ClkChanges DEF guard
  <1>2. \A q \in Copies : box'[q] = box[q] \/ box'[q] = <<>>
    BY ClkChanges
  <1>3. \A q \in Copies : OnArm(q)' => Labelled(box[q][1].sec)'
    BY <1>1, <1>2 DEF Labels, OnArm, Labelled
  <1>4. \A q \in Copies : armed'[q] => Labelled(arm_sec[q])'
    <2> SUFFICES ASSUME NEW q \in Copies, armed'[q] PROVE Labelled(arm_sec[q])'
      OBVIOUS
    <2>1. CASE q = r
      <3>1. \/ OnArm(r) /\ arm_sec'[r] = box[r][1].sec
            \/ armed[r] /\ arm_sec'[r] = arm_sec[r]
        BY <2>1, EdgeMet
      <3> QED BY <1>1, <2>1, <3>1 DEF Labels, Labelled
    <2>2. CASE q # r
      <3>1. armed[q] /\ arm_sec'[q] = arm_sec[q]
        BY <2>2, ClkChanges
      <3> QED BY <1>1, <3>1 DEF Labels, Labelled
    <2> QED BY <2>1, <2>2
  <1> QED BY <1>1, <1>3, <1>4 DEF Labels, Labelled

\* An edge that passes the filter leaves a copy less than the filter ahead, and a
\* genuine one not at all: the cells that let it pass are those of a second.
LEMMA EdgeAhead ==
  ASSUME TypeOK, Resets, Labels, Ahead, Spurious, NEW r \in Copies, NEW edge \in BOOLEAN, NEW req \in BOOLEAN,
         Clk(r, edge, req), edge /\ PpsValid(r), lk'[r]
  PROVE  TimeErr(r)' < MinCells /\ (Unspent("glitch") => TimeErr(r)' <= 0)
  <1>1. cells'[r] = 0 /\ phase' = phase /\ r \in pin /\ phase \in 0..SecTicks - 1
    BY EdgeMet, ClkChanges DEF TypeOK, PinsTyped
  <1>2. AtMost(cells'[r], SecTicks - 1) = 0
    BY <1>1, Bounds DEF AtMost
  <1>3. PICK s \in Int : s = sec'[r]
    BY ClkTyped DEF TypeOK, CopiesTyped
  <1>4. TimeErr(r)' = s * SecTicks + 0 - phase /\ s * SecTicks \in Int
    BY <1>1, <1>2, <1>3, Times DEF TimeErr
  <1>5. phase # 0 => ~Unspent("glitch")
    BY <1>1 DEF Spurious
  <1>6. CASE armed[r]
    <2>1. s = arm_sec[r] /\ Labelled(s)
      BY <1>3, <1>6, EdgeMet DEF Labels
    <2>2. CASE s <= 0
      <3>1. s * SecTicks <= 0
        BY <2>2, Times
      <3> QED BY <1>1, <1>4, <3>1, Bounds
    <2>3. CASE s = 1 /\ phase >= ArmLo
      <3>1. s * SecTicks = SecTicks
        BY <2>3, Times
      <3> QED BY <1>1, <1>4, <1>5, <2>3, <3>1, Bounds
    <2> QED BY <2>1, <2>2, <2>3 DEF Labelled
  <1>7. CASE ~armed[r]
    <2>1. lk[r] /\ s = sec[r] + 1 /\ pps_seen[r]
      BY <1>3, <1>7, EdgeMet DEF Resets
    <2>2. PICK c \in 0..SecTicks - 1 : c = AtMost(cells[r], SecTicks - 1) /\ c >= MinCells
      BY <2>1, ErrTyped DEF PpsValid
    <2>3. /\ TimeErr(r) = sec[r] * SecTicks + c - phase /\ sec[r] * SecTicks \in Int /\ sec[r] \in Int
          /\ TimeErr(r) \in Int
      BY <2>2, ErrTyped
    <2>4. TimeErr(r) < MinCells /\ (phase # 0 => TimeErr(r) <= 0)
      BY <1>1, <2>1 DEF Ahead
    <2>5. /\ s * SecTicks = sec[r] * SecTicks + SecTicks
          /\ sec[r] * SecTicks < 0 => s * SecTicks <= 0
      BY <2>1, <2>3, Times
    <2>6. CASE phase = 0
      BY <1>4, <2>2, <2>3, <2>4, <2>5, <2>6, Bounds
    <2>7. CASE phase # 0
      BY <1>1, <1>4, <1>5, <2>2, <2>3, <2>4, <2>5, <2>7, Bounds
    <2> QED BY <2>6, <2>7
  <1> QED BY <1>6, <1>7

LEMMA ClkAhead ==
  ASSUME TypeOK, Resets, Labels, Ahead, Spurious, NEW r \in Copies, NEW edge \in BOOLEAN, NEW req \in BOOLEAN,
         Clk(r, edge, req)
  PROVE  Ahead' /\ Spurious'
  <1>1. pin' \subseteq pin /\ phase' = phase /\ faults' = faults
    BY ClkChanges
  <1>2. Spurious'
    BY <1>1 DEF Spurious, Unspent
  <1>3. ASSUME NEW q \in Copies, lk'[q]
        PROVE  /\ TimeErr(q)' < MinCells
               /\ Unspent("glitch")' \/ (q \in pin' /\ phase' # 0) => TimeErr(q)' <= 0
    <2>1. CASE lk[q] /\ sec'[q] = sec[q] /\ cells'[q] = cells[q]
      <3>1. TimeErr(q)' = TimeErr(q)
        BY <1>1, <2>1 DEF TimeErr
      <3> QED BY <1>1, <2>1, <3>1 DEF Ahead, Unspent
    <2>2. CASE q = r /\ edge /\ PpsValid(r)
      <3>1. r \notin pin'
        BY <2>2, ClkChanges
      <3> QED BY <1>1, <1>3, <2>2, <3>1, EdgeAhead DEF Unspent
    <2>3. CASE q = r /\ ~(edge /\ PpsValid(r))
      BY <1>3, <2>1, <2>3, EdgeMet
    <2>4. CASE q # r
      BY <1>3, <2>1, <2>4, ClkChanges
    <2> QED BY <2>2, <2>3, <2>4
  <1> QED BY <1>2, <1>3 DEF Ahead
\* Before chrony has corrected the clock nothing that the two tools say, nor the lack of
\* an answer, passes the clock guard.
LEMMA NotTrusted ==
  ASSUME ~ntp, NEW said \in Says
  PROVE  ~Trustworthy(said) /\ \A heard \in Silent(said) : ~Trustworthy(heard)
  <1>1. SysErr * SecTicks = SecTicks /\ ~(SecTicks <= MaxArmOffset)
    <2>1. MaxArmOffset \in Nat /\ 2 * MaxArmOffset < SecTicks
      BY WrTimeAssumption
    <2> QED BY <2>1, Bounds, Times DEF SysErr
  <1>2. \A s : ~Trustworthy(NoReference(s))
    BY DEF Trustworthy, NoReference
  <1>3. \A s : ~Trustworthy(Reference(s))
    BY <1>1 DEF Trustworthy, Reference
  <1>4. said \in {NoReference(FALSE), Reference(FALSE), Reference(TRUE)}
    BY DEF Says
  <1>5. ~Trustworthy([said EXCEPT !.timedatectl = FALSE])
    BY <1>4 DEF Trustworthy, NoReference, Reference
  <1>6. ~Trustworthy([said EXCEPT !.ref_id = {}, !.unsynchronised = FALSE, !.system_time = {}])
    BY <1>4 DEF Trustworthy, NoReference, Reference
  <1>7. \A heard \in Silent(said) : ~Trustworthy(heard)
    BY <1>2, <1>5, <1>6 DEF Silent
  <1> QED BY <1>2, <1>3, <1>4, <1>7

LEMMA GuardLabels ==
  ASSUME TypeOK, Labels, GuardStep, Unspent("force"), Unspent("force")'
  PROVE  Labels'
  <1>1. phase' = phase /\ armed' = armed /\ arm_sec' = arm_sec
    BY GuardChanges DEF pins, copy
  <1>2. gpc' = "look" => ntp'
    <2>1. CASE Poll
      <3>1. ntp' = ntp
        BY <2>1 DEF Poll
      <3>2. ASSUME ~ntp PROVE gpc' # "look"
        BY <2>1, <3>2, NotTrusted DEF Poll
      <3> QED BY <3>1, <3>2
    <2>2. CASE Look \/ Store \/ ForceArm \/ Disarm \/ Disciplines
      BY <2>2 DEF Look, Store, ForceArm, Disarm, Disciplines, guard, Labels
    <2> QED BY <2>1, <2>2 DEF GuardStep
  <1>3. gpc' = "store" => Labelled(label)'
    <2>1. CASE Look
      <3>1. label' = 1 /\ phase >= ArmLo
        <4>1. ntp /\ label' = 1 + SysErr /\ phase \in ArmLo..ArmHi
          BY <2>1 DEF Look, Labels
        <4> QED BY <4>1, Bounds DEF SysErr
      <3> QED BY <1>1, <3>1 DEF Labelled
    <2>2. CASE Poll \/ Store
      BY <2>2 DEF Poll, Store
    <2>3. CASE ForceArm \/ Disarm \/ Disciplines
      BY <1>1, <2>3 DEF ForceArm, Disarm, Disciplines, guard, Labels, Labelled
    <2> QED BY <2>1, <2>2, <2>3 DEF GuardStep
  <1>4. ASSUME NEW r \in Copies, OnArm(r)' PROVE Labelled(box[r][1].sec)'
    <2>1. CASE box' = box
      BY <1>1, <1>4, <2>1 DEF Labels, OnArm, Labelled
    <2>2. CASE Store
      <3>1. Labelled(label) /\ box' = [q \in Copies |-> IF q \in down THEN <<>> ELSE <<[disarm |-> FALSE, sec |-> label]>>]
        BY <2>2 DEF Store, Broadcast, Labels
      <3>2. box'[r][1].sec = label
        BY <1>4, <3>1 DEF OnArm
      <3> QED BY <1>1, <3>1, <3>2 DEF Labelled
    <2>3. CASE Disarm
      <3>1. box' = [q \in Copies |-> IF q \in down THEN <<>> ELSE <<[disarm |-> TRUE, sec |-> 0]>>]
        BY <2>3 DEF Disarm, Broadcast
      <3> QED BY <1>4, <3>1 DEF OnArm
    <2>4. ~ForceArm
      <3>1. ASSUME ForceArm PROVE FALSE
        <4>1. faults["force"] \in Nat /\ faults'["force"] = faults["force"] - 1
          <5>1. {"force"} \in SUBSET Kinds /\ "force" \in Kinds /\ Spend({"force"})
            BY <3>1 DEF Kinds, ForceArm
          <5> QED BY <5>1, SpendCounts DEF TypeOK
        <4> QED BY <4>1 DEF Unspent
      <3> QED BY <3>1
    <2> QED BY <2>1, <2>2, <2>3, <2>4 DEF GuardStep, Poll, Look, Disciplines
  <1> QED BY <1>1, <1>2, <1>3, <1>4 DEF Labels, Labelled

LEMMA GuardAhead ==
  ASSUME TypeOK, Ahead, Spurious, GuardStep
  PROVE  Ahead' /\ Spurious'
  <1>1. UNCHANGED <<phase, pin, lk, sec, cells>>
    BY GuardChanges DEF pins, copy
  <1>2. faults'["glitch"] = faults["glitch"]
    BY GuardChanges DEF Kinds
  <1> QED BY <1>1, <1>2 DEF Ahead, Spurious, Unspent, TimeErr

LEMMA RelockFast ==
  ASSUME TypeOK, Labels, Ahead, Spurious, NEW r \in Copies, Relock(r) \/ Relocked(r)
  PROVE  Labels' /\ Ahead' /\ Spurious'
  <1>1. CASE Relock(r)
    <2>1. \A q \in Copies :
            IF q = r THEN ~armed'[q] /\ ~lk'[q] /\ box'[q] = <<>>
            ELSE /\ armed'[q] = armed[q] /\ lk'[q] = lk[q] /\ box'[q] = box[q]
                 /\ arm_sec'[q] = arm_sec[q] /\ sec'[q] = sec[q] /\ cells'[q] = cells[q]
      BY <1>1, RelockChanges DEF TypeOK, CopiesTyped
    <2>2. phase' = phase /\ pin' \subseteq pin /\ gpc' = gpc /\ label' = label /\ ntp' = ntp
      BY <1>1, RelockChanges DEF guard
    <2>3. faults'["glitch"] = faults["glitch"]
      <3>1. {"relock"} \in SUBSET Kinds /\ "glitch" \in Kinds
        BY DEF Kinds
      <3> QED BY <1>1, <3>1, RelockChanges, SpendCounts DEF TypeOK
    <2>4. Labels'
      BY <2>1, <2>2 DEF Labels, OnArm, Labelled
    <2>5. Ahead'
      <3>1. \A q \in Copies : lk'[q] => q # r /\ lk[q] /\ TimeErr(q)' = TimeErr(q)
        BY <2>1, <2>2 DEF TimeErr
      <3> QED BY <2>2, <2>3, <3>1 DEF Ahead, Unspent
    <2> QED BY <2>2, <2>3, <2>4, <2>5 DEF Spurious, Unspent
  <1>2. CASE Relocked(r)
    <2>1. UNCHANGED <<phase, pin, armed, arm_sec, sec, lk, cells, box, gpc, label, ntp, faults>>
      BY <1>2 DEF Relocked, pins, copy, guard
    <2> QED BY <2>1 DEF Labels, OnArm, Labelled, Ahead, Spurious, Unspent, TimeErr
  <1> QED BY <1>1, <1>2
-----------------------------------------------------------------------------
(***************************************************************************)
(* In time: as long as nothing disturbs the copies, no edge is rejected.   *)
(***************************************************************************)
LEMMA Few ==
  ASSUME TypeOK, Undisturbed
  PROVE  Lost \in Nat /\ Lost <= SecTicks - MinCells
  <1>1. "clk10" \in Kinds
    BY DEF Kinds
  <1>2. faults["clk10"] \in Nat /\ MaxFaults["clk10"] \in Nat /\ faults["clk10"] <= MaxFaults["clk10"]
    BY <1>1, WrTimeAssumption DEF TypeOK, GuardTyped
  <1> QED BY <1>2, Bounds DEF Lost, Undisturbed

\* What disturbs them once is never undone.
LEMMA StillUndisturbed ==
  ASSUME TypeOK, faults' \in [Kinds -> Nat], \A k \in Kinds : faults'[k] <= faults[k], Undisturbed'
  PROVE  Undisturbed /\ faults'["glitch"] = faults["glitch"] /\ faults'["late"] = faults["late"]
  <1>1. {"clk10", "glitch", "late"} \subseteq Kinds
    BY DEF Kinds
  <1>2. \A k \in Kinds : /\ faults[k] \in Nat /\ faults'[k] \in Nat /\ MaxFaults[k] \in Nat
                         /\ faults[k] <= MaxFaults[k] /\ faults'[k] <= faults[k]
    BY WrTimeAssumption DEF TypeOK, GuardTyped
  <1>3. \A k \in {"glitch", "late"} : faults[k] = MaxFaults[k] /\ faults'[k] = faults[k]
    BY <1>1, <1>2 DEF Undisturbed
  <1>4. MaxFaults["clk10"] - faults["clk10"] <= SecTicks - MinCells
    <2>1. MaxFaults["clk10"] - faults'["clk10"] <= SecTicks - MinCells
      BY DEF Undisturbed
    <2> QED BY <1>1, <1>2, <2>1, Bounds
  <1> QED BY <1>3, <1>4 DEF Undisturbed

LEMMA TickInTime ==
  ASSUME TypeOK, Resets, Undisturbed', Undisturbed => InTime,
         NEW runs \in BOOLEAN, NEW edge \in SUBSET (Copies \ down), Tick(runs, edge)
  PROVE  Undisturbed /\ InTime' /\ phase' <= phase + 1 /\ (edge # {} => edge = Copies \ down)
  <1>1. FaultyTick(runs, edge) \in SUBSET Kinds /\ {"glitch", "late", "clk10"} \subseteq Kinds
    BY DEF FaultyTick, Kinds
  <1>2. /\ faults' \in [Kinds -> Nat]
        /\ \A k \in Kinds : /\ faults'[k] = IF k \in FaultyTick(runs, edge) THEN faults[k] - 1 ELSE faults[k]
                            /\ faults'[k] <= faults[k] /\ faults[k] \in Nat /\ MaxFaults[k] \in Nat
    BY <1>1, TickChanges, SpendCounts DEF TypeOK
  <1>3. Undisturbed /\ faults'["glitch"] = faults["glitch"] /\ faults'["late"] = faults["late"]
    BY <1>2, StillUndisturbed
  <1>4. "glitch" \notin FaultyTick(runs, edge) /\ "late" \notin FaultyTick(runs, edge)
    BY <1>1, <1>2, <1>3
  <1>5. (edge # {} => phase = SecTicks - 1) /\ gpc # "store"
    BY <1>1, <1>4 DEF FaultyTick
  <1>6. /\ phase \in 0..SecTicks - 1 /\ phase' = (IF phase = SecTicks - 1 THEN 0 ELSE phase + 1)
        /\ pin' = edge /\ UNCHANGED <<pps_seen, box>> /\ Settled
        /\ gpc' = IF gpc = "wait" THEN "poll" ELSE gpc
    BY TickChanges DEF TypeOK, PinsTyped
  <1>7. Lost \in Nat /\ Lost' = (IF runs THEN Lost ELSE Lost + 1)
    <2>1. "clk10" \in FaultyTick(runs, edge) <=> ~runs
      BY <1>1 DEF FaultyTick
    <2> QED BY <1>1, <1>2, <1>3, <2>1, Few DEF Lost
  <1>8. ASSUME NEW r \in Copies, pps_seen'[r] PROVE cells'[r] >= phase + 1 - Lost'
    <2>1. pps_seen[r] /\ r \notin down
      BY <1>6, <1>8 DEF Resets
    <2>2. cells[r] >= phase - Lost /\ cells[r] \in 0..SecTicks
      BY <1>3, <2>1 DEF InTime, TypeOK, CopiesTyped
    <2>3. cells'[r] = IF runs THEN AtMost(cells[r] + 1, SecTicks) ELSE cells[r]
      BY <2>1, TickChanges
    <2> QED BY <1>6, <1>7, <2>2, <2>3, Bounds DEF AtMost
  <1>9. ASSUME NEW r \in Copies
        PROVE  /\ OnArm(r)' => phase' # 0
               /\ pps_seen'[r] => cells'[r] >= phase' - Lost'
               /\ pps_seen'[r] /\ r \in pin' => cells'[r] >= SecTicks - Lost'
    <2>1. ~OnArm(r)'
      BY <1>6 DEF OnArm, Settled
    <2>2. r \in pin' => phase + 1 = SecTicks
      BY <1>5, <1>6, Bounds
    <2>3. cells'[r] \in 0..SecTicks /\ Lost' \in Nat
      <3>1. TypeOK'
        BY TickTyped
      <3>2. cells'[r] \in 0..SecTicks
        BY <3>1 DEF TypeOK, CopiesTyped
      <3> QED BY <1>7, <3>2
    <2>4. phase' <= phase + 1 /\ phase' \in Nat
      BY <1>6, Bounds
    <2> QED BY <1>6, <1>8, <2>1, <2>2, <2>3, <2>4, Bounds
  <1>10. pin' # {} => phase' = 0
    BY <1>5, <1>6
  <1>11. gpc' # "store"
    BY <1>5, <1>6
  <1>12. (edge # {} => edge = Copies \ down) /\ phase' <= phase + 1
    BY <1>5, <1>6, TickChanges, Bounds
  <1> QED BY <1>3, <1>9, <1>10, <1>11, <1>12 DEF InTime

\* In time, every edge passes the filter, and none meets an arm.
LEMMA EdgePasses ==
  ASSUME TypeOK, Undisturbed, InTime, NEW r \in Copies
  PROVE  (r \in pin => PpsValid(r)) /\ (OnArm(r) => r \notin pin)
  <1>1. cells[r] \in 0..SecTicks
    BY DEF TypeOK, CopiesTyped
  <1>2. r \in pin => PpsValid(r)
    BY <1>1, Few, Bounds DEF InTime, PpsValid
  <1> QED BY <1>2 DEF InTime

LEMMA ClkInTime ==
  ASSUME TypeOK, Undisturbed, InTime,
         NEW r \in Copies, NEW edge \in BOOLEAN, NEW req \in BOOLEAN, Clk(r, edge, req)
  PROVE  InTime'
  <1>1. /\ pin' \subseteq pin /\ phase' = phase /\ gpc' = gpc /\ faults' = faults
        /\ \A q \in Copies : box'[q] = box[q] \/ box'[q] = <<>>
    BY ClkChanges DEF guard
  <1>2. Lost' = Lost /\ Lost \in Nat
    BY <1>1, Few DEF Lost
  <1>3. ASSUME NEW q \in Copies
        PROVE  /\ pps_seen'[q] => cells'[q] >= phase' - Lost'
               /\ pps_seen'[q] /\ q \in pin' => cells'[q] >= SecTicks - Lost'
    <2>1. CASE pps_seen'[q] = pps_seen[q] /\ cells'[q] = cells[q]
      BY <1>1, <1>2, <2>1 DEF InTime
    <2>2. CASE q = r /\ edge
      <3>1. cells'[q] = 0 /\ q \notin pin' /\ phase = 0
        <4>1. r \in pin /\ r \notin pin' /\ PpsValid(r)
          BY <2>2, ClkChanges, EdgePasses
        <4>2. cells'[r] = 0
          BY <2>2, <4>1, EdgeMet
        <4> QED BY <2>2, <4>1, <4>2 DEF InTime
      <3> QED BY <1>1, <1>2, <3>1
    <2>3. CASE q = r /\ ~edge
      <3>1. pps_seen'[q] = (pps_seen[q] \/ FALSE)
        BY <2>3 DEF Clk, TypeOK, CopiesTyped
      <3>2. pps_seen[q] \in BOOLEAN
        BY DEF TypeOK, CopiesTyped
      <3> QED BY <2>1, <2>3, <3>1, <3>2, EdgeMet
    <2>4. CASE q # r
      BY <2>1, <2>4, ClkChanges
    <2> QED BY <2>2, <2>3, <2>4
  <1> QED BY <1>1, <1>3 DEF InTime, OnArm
\* A copy that meets the edge, or the word, comes to hold what it was to hold.
LEMMA WillsMet ==
  ASSUME TypeOK, Undisturbed, InTime,
         NEW r \in Copies, NEW edge \in BOOLEAN, NEW req \in BOOLEAN, Clk(r, edge, req)
  PROVE  \A q \in Copies :
           /\ WillArm(q)' <=> WillArm(q)
           /\ WillLock(q)' <=> WillLock(q)
           /\ WillArm(q) => WillArmSec(q)' = WillArmSec(q)
           /\ WillLock(q) => WillSec(q)' = WillSec(q) /\ WillCells(q)' = WillCells(q)
  <1>1. \A q \in Copies \ {r} : (q \in pin' <=> q \in pin) /\ clk10' = clk10
    BY ClkChanges
  <1>2. ASSUME NEW q \in Copies \ {r}
        PROVE  /\ WillArm(q)' <=> WillArm(q)
               /\ WillLock(q)' <=> WillLock(q)
               /\ WillArmSec(q)' = WillArmSec(q)
               /\ WillSec(q)' = WillSec(q) /\ WillCells(q)' = WillCells(q)
    <2>1. /\ box'[q] = box[q] /\ armed'[q] = armed[q] /\ arm_sec'[q] = arm_sec[q] /\ lk'[q] = lk[q]
          /\ sec'[q] = sec[q] /\ cells'[q] = cells[q] /\ clk10' = clk10 /\ (q \in pin' <=> q \in pin)
      BY <1>1, ClkChanges
    <2> QED BY <2>1 DEF WillArm, WillLock, WillArmSec, WillSec, WillCells, OnArm, OnDisarm
  <1> DEFINE load == edge /\ armed[r]
             disarm == req /\ OnDisarm(r)
             arm == req /\ OnArm(r)
  <1>3. /\ armed'[r] = (~load /\ ~disarm /\ (armed[r] \/ arm))
        /\ lk'[r] = (~disarm /\ (IF load THEN clk10 ELSE lk[r]))
        /\ armed'[r] => arm_sec'[r] = IF arm THEN box[r][1].sec ELSE arm_sec[r]
        /\ lk'[r] => sec'[r] = IF load THEN arm_sec[r] ELSE IF edge THEN sec[r] + 1 ELSE sec[r]
        /\ cells'[r] = IF edge THEN 0 ELSE cells[r]
    <2>1. (edge /\ PpsValid(r) <=> edge) /\ (req => box[r] # <<>>)
      BY ClkChanges, EdgePasses
    <2>2. /\ armed'[r] = (~(edge /\ PpsValid(r) /\ armed[r]) /\ ~(req /\ box[r][1].disarm)
                            /\ (armed[r] \/ (req /\ ~box[r][1].disarm)))
          /\ lk'[r] = Locks(r, edge /\ PpsValid(r) /\ armed[r], req /\ box[r][1].disarm)
      BY DEF Clk, TypeOK, CopiesTyped
    <2>3. (disarm <=> req /\ box[r][1].disarm) /\ (arm <=> req /\ ~box[r][1].disarm)
      BY <2>1 DEF OnDisarm, OnArm
    <2>4. armed'[r] = (~load /\ ~disarm /\ (armed[r] \/ arm))
      BY <2>1, <2>2, <2>3
    <2>5. lk'[r] = (~disarm /\ (IF load THEN clk10 ELSE lk[r]))
      BY <2>1, <2>2, <2>3 DEF Locks
    <2> QED BY <2>1, <2>4, <2>5, EdgeMet
  <1>4. /\ box'[r] = (IF req THEN <<>> ELSE box[r]) /\ (req => box[r] # <<>>)
        /\ (r \in pin' <=> r \in pin /\ ~edge) /\ (edge => r \in pin) /\ clk10' = clk10 /\ (edge \/ req)
        /\ (OnArm(r) => r \notin pin)
    <2>1. edge \/ req
      BY DEF Clk
    <2> QED BY <2>1, ClkChanges, EdgePasses
  <1>5. (OnArm(r)' <=> ~req /\ OnArm(r)) /\ (OnDisarm(r)' <=> ~req /\ OnDisarm(r)) /\ ~(OnArm(r) /\ OnDisarm(r))
        /\ (box[r] # <<>> => OnArm(r) \/ OnDisarm(r))
    BY <1>4 DEF OnArm, OnDisarm
  <1>6. (WillArm(r)' <=> WillArm(r)) /\ (WillLock(r)' <=> WillLock(r))
    <2>1. WillArm(r)' <=> WillArm(r)
      BY <1>3, <1>4, <1>5 DEF WillArm
    <2>2. WillLock(r)' <=> WillLock(r)
      BY <1>3, <1>4, <1>5 DEF WillLock
    <2> QED BY <2>1, <2>2
  <1>7. WillArm(r) => WillArmSec(r)' = WillArmSec(r)
    BY <1>3, <1>4, <1>5 DEF WillArm, WillArmSec
  <1>8. WillLock(r) => WillSec(r)' = WillSec(r) /\ WillCells(r)' = WillCells(r)
    BY <1>3, <1>4, <1>5 DEF WillLock, WillSec, WillCells
  <1> QED BY <1>2, <1>6, <1>7, <1>8
-----------------------------------------------------------------------------
(***************************************************************************)
(* In step.                                                                *)
(***************************************************************************)
LEMMA TickInStep ==
  ASSUME TypeOK, Resets, Undisturbed, InTime, NEW r \in Copies, InStep(r),
         NEW runs \in BOOLEAN, NEW edge \in {{}, Copies \ down}, Tick(runs, edge)
  PROVE  InStep(r)'
  <1> DEFINE m == Monitor
  <1>1. edge \in SUBSET (Copies \ down) /\ m \in Copies /\ m \notin down
    BY Bounds DEF TypeOK, PinsTyped
  <1>2. \A q \in Copies : box[q] = <<>> /\ q \notin pin
    BY <1>1, TickChanges DEF Settled
  <1>3. /\ armed[r] => armed[m] /\ arm_sec[r] = arm_sec[m]
        /\ lk[r] /\ armed[m] => armed[r]
        /\ lk[r] /\ lk[m] => sec[r] = sec[m] /\ cells[r] = cells[m]
    BY <1>1, <1>2 DEF InStep, WillArm, WillArmSec, WillLock, WillSec, WillCells, OnArm, OnDisarm
  <1>4. \A q \in {r, m} :
          /\ box'[q] = <<>> /\ armed'[q] = armed[q] /\ (q \in pin' <=> q \in edge)
          /\ cells'[q] = (IF runs /\ q \notin down THEN AtMost(cells[q] + 1, SecTicks) ELSE cells[q])
          /\ lk'[q] => lk[q]
          /\ sec'[q] = (IF lk'[q] THEN Older(sec[q], phase = SecTicks - 1) ELSE 0)
          /\ arm_sec'[q] = (IF armed[q] THEN Older(arm_sec[q], phase = SecTicks - 1) ELSE 0)
    BY <1>1, <1>2, TickChanges
  <1>5. \A q \in {r, m} : ~OnArm(q)' /\ ~OnDisarm(q)'
    BY <1>4 DEF OnArm, OnDisarm
  <1>6. r \in down => ~armed[r] /\ ~lk[r]
    BY DEF Resets
  <1>7. CASE edge = {}
    <2>1. \A q \in {r, m} : /\ WillArm(q)' <=> armed[q]
                            /\ WillLock(q)' <=> lk'[q]
                            /\ WillArmSec(q)' = arm_sec'[q] /\ WillSec(q)' = sec'[q] /\ WillCells(q)' = cells'[q]
      BY <1>4, <1>5, <1>7 DEF WillArm, WillArmSec, WillLock, WillSec, WillCells
    <2>2. armed[r] => armed[m] /\ arm_sec'[r] = arm_sec'[m]
      BY <1>3, <1>4
    <2>3. lk'[r] /\ armed[m] => armed[r]
      BY <1>3, <1>4
    <2>4. lk'[r] /\ lk'[m] => sec'[r] = sec'[m] /\ cells'[r] = cells'[m]
      BY <1>1, <1>3, <1>4, <1>6
    <2> QED BY <2>1, <2>2, <2>3, <2>4 DEF InStep
  <1>8. CASE edge = Copies \ down /\ r \notin down
    <2>1. r \in pin' /\ m \in pin'
      BY <1>1, <1>4, <1>8
    <2>2. \A q \in {r, m} : /\ ~WillArm(q)'
                            /\ WillLock(q)' => (IF armed[q] THEN clk10' ELSE lk'[q])
                            /\ WillSec(q)' = IF armed[q] THEN arm_sec'[q] ELSE sec'[q] + 1
                            /\ WillCells(q)' = 0
      BY <1>4, <1>5, <2>1 DEF WillArm, WillLock, WillSec, WillCells
    <2>3. ASSUME WillLock(r)', WillLock(m)' PROVE WillSec(r)' = WillSec(m)'
      <3>1. CASE armed[r]
        BY <1>3, <1>4, <2>2, <3>1
      <3>2. CASE ~armed[r]
        <4>1. lk'[r] /\ ~armed[m] /\ lk'[m]
          BY <1>3, <1>4, <2>2, <2>3, <3>2
        <4> QED BY <1>3, <1>4, <2>2, <3>2, <4>1
      <3> QED BY <3>1, <3>2
    <2> QED BY <2>2, <2>3 DEF InStep
  <1>9. CASE edge = Copies \ down /\ r \in down
    <2>1. r \notin pin' /\ ~armed[r] /\ ~lk'[r]
      BY <1>4, <1>6, <1>9
    <2>2. ~WillArm(r)' /\ ~WillLock(r)'
      BY <1>4, <1>5, <2>1 DEF WillArm, WillLock
    <2> QED BY <2>2 DEF InStep
  <1> QED BY <1>7, <1>8, <1>9

LEMMA ClkInStep ==
  ASSUME TypeOK, Undisturbed, InTime, \A q \in Copies : InStep(q),
         NEW r \in Copies, NEW edge \in BOOLEAN, NEW req \in BOOLEAN, Clk(r, edge, req)
  PROVE  \A q \in Copies : InStep(q)'
  <1>1. Monitor \in Copies
    BY Bounds
  <1> SUFFICES ASSUME NEW q \in Copies PROVE InStep(q)'
    OBVIOUS
  <1>2. \A c \in {q, Monitor} :
           /\ WillArm(c)' <=> WillArm(c)
           /\ WillLock(c)' <=> WillLock(c)
           /\ WillArm(c) => WillArmSec(c)' = WillArmSec(c)
           /\ WillLock(c) => WillSec(c)' = WillSec(c) /\ WillCells(c)' = WillCells(c)
    BY <1>1, WillsMet
  <1> QED BY <1>2 DEF InStep

\* A word goes to every copy that is not in reset, and an arm comes when no edge does.
LEMMA GuardInStep ==
  ASSUME TypeOK, Resets, Undisturbed', Undisturbed => InTime /\ \A q \in Copies : InStep(q), GuardStep
  PROVE  InTime' /\ \A q \in Copies : InStep(q)'
  <1>1. Undisturbed /\ faults'["clk10"] = faults["clk10"]
    BY GuardChanges, StillUndisturbed DEF Kinds
  <1>2. Lost' = Lost
    BY <1>1 DEF Lost
  <1>3. UNCHANGED <<phase, pin, clk10, down, armed, arm_sec, sec, lk, pps_seen, cells>>
    BY GuardChanges DEF pins, copy
  <1>4. gpc' = "store" => phase # 0
    <2>1. CASE Look
      BY <2>1, Bounds DEF Look
    <2>2. CASE Poll \/ Store \/ ForceArm \/ Disarm \/ Disciplines
      BY <1>1, <2>2 DEF Poll, Store, ForceArm, Disarm, Disciplines, guard, InTime
    <2> QED BY <2>1, <2>2 DEF GuardStep
  <1>5. CASE box' = box
    BY <1>1, <1>2, <1>3, <1>4, <1>5
       DEF InTime, InStep, OnArm, OnDisarm, WillArm, WillLock, WillArmSec, WillSec, WillCells
  <1>6. CASE \E word \in Word : Broadcast(word) /\ \A r \in Copies : box[r] = <<>>
    <2>1. PICK word \in Word : /\ box' = [r \in Copies |-> IF r \in down THEN <<>> ELSE <<word>>]
                               /\ \A r \in Copies : box[r] = <<>>
      BY <1>6 DEF Broadcast
    <2>2. word.disarm \in BOOLEAN
      BY DEF Word
    <2>3. \A r \in Copies : /\ OnArm(r)' <=> r \notin down /\ ~word.disarm
                            /\ OnDisarm(r)' <=> r \notin down /\ word.disarm
                            /\ r \notin down => box'[r][1] = word
                            /\ ~OnArm(r) /\ ~OnDisarm(r)
      BY <2>1 DEF OnArm, OnDisarm
    <2>4. Monitor \in Copies /\ Monitor \notin down
      BY Bounds DEF TypeOK, PinsTyped
    <2>5. ~word.disarm => phase # 0
      <3>1. CASE Store
        BY <1>1, <3>1 DEF Store, InTime
      <3>2. CASE ForceArm
        BY <3>2, Bounds DEF ForceArm
      <3>3. CASE Disarm
        <4>1. box' = [r \in Copies |-> IF r \in down THEN <<>> ELSE <<[disarm |-> TRUE, sec |-> 0]>>]
          BY <3>3 DEF Disarm, Broadcast
        <4>2. <<word>> = <<[disarm |-> TRUE, sec |-> 0]>>
          BY <2>1, <2>4, <4>1
        <4> QED BY <4>2
      <3>4. CASE Poll \/ Look \/ Disciplines
        <4>1. box' = box
          BY <3>4 DEF Poll, Look, Disciplines
        <4> QED BY <2>1, <2>4, <4>1
      <3> QED BY <3>1, <3>2, <3>3, <3>4 DEF GuardStep
    <2>6. InTime'
      BY <1>1, <1>2, <1>3, <1>4, <2>3, <2>5 DEF InTime
    <2>7. ASSUME NEW q \in Copies PROVE InStep(q)'
      <3>1. q \in down => ~armed[q] /\ ~lk[q] /\ q \notin pin
        BY DEF Resets
      <3>2. CASE word.disarm
        <4>1. ~WillArm(q)' /\ ~WillLock(q)'
          BY <1>3, <2>3, <3>1, <3>2 DEF WillArm, WillLock
        <4> QED BY <4>1 DEF InStep
      <3>3. CASE ~word.disarm /\ q \in down
        <4>1. ~WillArm(q)' /\ ~WillLock(q)'
          BY <1>3, <2>3, <3>1, <3>3 DEF WillArm, WillLock
        <4> QED BY <4>1 DEF InStep
      <3>4. CASE ~word.disarm /\ q \notin down
        <4>1. \A c \in {q, Monitor} : WillArm(c)' /\ WillArmSec(c)' = word.sec
          BY <2>3, <2>4, <3>4 DEF WillArm, WillArmSec
        <4>2. \A c \in {q, Monitor} : /\ WillLock(c)' <=> WillLock(c)
                                      /\ WillSec(c)' = WillSec(c) /\ WillCells(c)' = WillCells(c)
          BY <1>3, <2>3, <2>4, <3>4 DEF WillLock, WillSec, WillCells
        <4> QED BY <1>1, <4>1, <4>2 DEF InStep
      <3> QED BY <3>2, <3>3, <3>4
    <2> QED BY <2>6, <2>7
  <1> QED BY <1>5, <1>6, GuardChanges
LEMMA RelockInStep ==
  ASSUME TypeOK, Resets, Undisturbed', Undisturbed => InTime /\ \A q \in Copies : InStep(q),
         NEW r \in Copies, Relock(r) \/ Relocked(r)
  PROVE  InTime' /\ \A q \in Copies : InStep(q)'
  <1>1. CASE Relocked(r)
    <2>1. UNCHANGED <<phase, pin, clk10, armed, arm_sec, sec, lk, pps_seen, cells, box, gpc, faults>>
      BY <1>1 DEF Relocked, pins, copy, guard
    <2>2. Undisturbed
      BY <2>1 DEF Undisturbed
    <2> QED BY <2>1, <2>2
        DEF InTime, InStep, Lost, OnArm, OnDisarm, WillArm, WillLock, WillArmSec, WillSec, WillCells
  <1>2. CASE Relock(r)
    <2>1. Undisturbed /\ Lost' = Lost
      <3>1. {"relock"} \in SUBSET Kinds /\ "clk10" \in Kinds
        BY DEF Kinds
      <3>2. /\ faults' \in [Kinds -> Nat] /\ \A k \in Kinds : faults'[k] <= faults[k]
            /\ faults'["clk10"] = faults["clk10"]
        BY <1>2, <3>1, RelockChanges, SpendCounts DEF TypeOK
      <3> QED BY <3>2, StillUndisturbed DEF Lost
    <2>2. /\ ~armed'[r] /\ ~lk'[r] /\ ~pps_seen'[r] /\ box'[r] = <<>> /\ r \notin pin' /\ r # Monitor
          /\ UNCHANGED <<phase, clk10, gpc>> /\ pin' \subseteq pin
      BY <1>2, RelockChanges DEF TypeOK, CopiesTyped, guard
    <2>3. ASSUME NEW q \in Copies, q # r
          PROVE  /\ armed'[q] = armed[q] /\ lk'[q] = lk[q] /\ box'[q] = box[q] /\ pps_seen'[q] = pps_seen[q]
                 /\ arm_sec'[q] = arm_sec[q] /\ sec'[q] = sec[q] /\ cells'[q] = cells[q]
                 /\ (q \in pin' <=> q \in pin)
      BY <1>2, <2>3, RelockChanges DEF TypeOK, CopiesTyped
    <2>4. InTime'
      BY <2>1, <2>2, <2>3 DEF InTime, OnArm
    <2>5. ASSUME NEW q \in Copies PROVE InStep(q)'
      <3>1. CASE q = r
        BY <2>2, <3>1 DEF InStep, WillArm, WillLock, OnArm, OnDisarm
      <3>2. CASE q # r
        <4>1. Monitor \in Copies
          BY Bounds
        <4>2. \A c \in {q, Monitor} :
                /\ WillArm(c)' <=> WillArm(c)
                /\ WillLock(c)' <=> WillLock(c)
                /\ WillArmSec(c)' = WillArmSec(c) /\ WillSec(c)' = WillSec(c) /\ WillCells(c)' = WillCells(c)
          BY <2>2, <2>3, <3>2, <4>1 DEF WillArm, WillLock, WillArmSec, WillSec, WillCells, OnArm, OnDisarm
        <4> QED BY <2>1, <4>2 DEF InStep
      <3> QED BY <3>1, <3>2
    <2> QED BY <2>4, <2>5
  <1> QED BY <1>1, <1>2

-----------------------------------------------------------------------------
LEMMA InitHolds == Init => IInv
  <1> SUFFICES ASSUME Init PROVE IInv
    OBVIOUS
  <1>1. TypeOK
    <2>1. PinsTyped
      BY Bounds DEF Init, PinsTyped
    <2>2. CopiesTyped
      <3>1. <<>> \in Seq(Word) /\ 0 \in 0..SecTicks
        BY Bounds
      <3> QED BY <3>1 DEF Init, CopiesTyped
    <2>3. GuardTyped
      <3>1. MaxFaults \in [Kinds -> Nat] /\ \A k \in Kinds : MaxFaults[k] \in Nat
        BY WrTimeAssumption
      <3>2. faults \in [Kinds -> Nat] /\ \A k \in Kinds : faults[k] <= MaxFaults[k]
        BY <3>1 DEF Init
      <3>3. gpc = "poll" /\ label = 0
        BY DEF Init
      <3>4. ntp = FALSE
        BY DEF Init
      <3>5. ntp \in BOOLEAN
        BY <3>4
      <3> QED BY <3>2, <3>3, <3>5 DEF GuardTyped
    <2> QED BY <2>1, <2>2, <2>3 DEF TypeOK
  <1>2. Resets
    BY DEF Init, Resets
  <1>3. Spurious /\ FastInv
    BY DEF Init, Spurious, FastInv, Labels, Ahead, OnArm
  <1>4. InTime
    BY DEF Init, InTime, OnArm
  <1>5. \A r \in Copies : InStep(r)
    BY Bounds DEF Init, InStep, WillArm, WillLock, OnArm
  <1> QED BY <1>1, <1>2, <1>3, <1>4, <1>5 DEF IInv, StepInv

\* The faults left go down.
LEMMA FaultsFall ==
  ASSUME TypeOK, TypeOK', Next
  PROVE  /\ \A k \in Kinds : faults'[k] <= faults[k]
         /\ Unspent("force")' => Unspent("force")
  <1>1. \A k \in Kinds : faults'[k] <= faults[k]
    <2>1. faults' = faults \/ \E kinds \in SUBSET Kinds : Spend(kinds)
      <3>1. CASE TimePasses
        <4>1. PICK runs \in BOOLEAN, edge \in SUBSET (Copies \ down) : Tick(runs, edge)
          BY <3>1 DEF TimePasses
        <4>2. FaultyTick(runs, edge) \in SUBSET Kinds /\ Spend(FaultyTick(runs, edge))
          BY <4>1, TickChanges DEF FaultyTick
        <4> QED BY <4>2
      <3>2. CASE Poll \/ Look \/ Store \/ ForceArm \/ Disarm \/ Disciplines
        BY <3>2 DEF Poll, Look, Store, ForceArm, Disarm, Disciplines, Kinds
      <3>3. CASE \E r \in Copies : CopyClk(r) \/ Relock(r) \/ Relocked(r)
        BY <3>3 DEF CopyClk, Clk, Relock, Relocked, Kinds
      <3> QED BY <3>1, <3>2, <3>3 DEF Next
    <2>2. CASE faults' = faults
      BY <2>2 DEF TypeOK, GuardTyped
    <2> QED BY <2>1, <2>2, SpendCounts DEF TypeOK
  <1>2. "force" \in Kinds
    BY DEF Kinds
  <1>3. faults["force"] \in Nat /\ MaxFaults["force"] \in Nat /\ faults["force"] <= MaxFaults["force"]
        /\ faults'["force"] \in Nat
    BY <1>2, WrTimeAssumption DEF TypeOK, GuardTyped
  <1> QED BY <1>1, <1>2, <1>3 DEF Unspent

LEMMA TypedNext ==
  ASSUME TypeOK, Resets, Next
  PROVE  TypeOK' /\ Resets'
  <1>1. CASE TimePasses
    BY <1>1, TickTyped, ResetsKept DEF TimePasses
  <1>2. CASE GuardStep
    BY <1>2, GuardStepTyped
  <1>3. ASSUME NEW r \in Copies, CopyClk(r) PROVE TypeOK' /\ Resets'
    BY <1>3, ClkTyped, ResetsKept DEF CopyClk
  <1>4. ASSUME NEW r \in Copies, Relock(r) \/ Relocked(r) PROVE TypeOK' /\ Resets'
    BY <1>4, RelockTyped
  <1> QED BY <1>1, <1>2, <1>3, <1>4 DEF Next, GuardStep

LEMMA FastNext ==
  ASSUME TypeOK, Resets, Spurious, FastInv, MaxFaults["glitch"] <= 1, Next
  PROVE  Spurious' /\ FastInv'
  <1>1. Unspent("force")' => Unspent("force") /\ Labels /\ Ahead
    BY TypedNext, FaultsFall DEF FastInv
  <1>2. Spurious'
    <2>1. CASE TimePasses
      <3>1. PICK runs \in BOOLEAN, edge \in SUBSET (Copies \ down) : Tick(runs, edge)
        BY <2>1 DEF TimePasses
      <3>2. "glitch" \in Kinds /\ FaultyTick(runs, edge) \in SUBSET Kinds
        BY DEF Kinds, FaultyTick
      <3>3. pin' # {} /\ phase' # 0 => "glitch" \in FaultyTick(runs, edge)
        BY <3>1, <3>2, TickChanges DEF FaultyTick
      <3>4. /\ faults["glitch"] \in Nat /\ faults["glitch"] <= MaxFaults["glitch"] /\ MaxFaults["glitch"] \in Nat
            /\ "glitch" \in FaultyTick(runs, edge) => faults'["glitch"] = faults["glitch"] - 1
        BY <3>1, <3>2, TickChanges, SpendCounts DEF TypeOK
      <3> QED BY <3>3, <3>4 DEF Spurious, Unspent
    <2>2. CASE GuardStep
      <3>1. phase' = phase /\ pin' = pin /\ faults'["glitch"] = faults["glitch"]
        BY <2>2, GuardChanges DEF pins, Kinds
      <3> QED BY <3>1 DEF Spurious, Unspent
    <2>3. ASSUME NEW r \in Copies, CopyClk(r) PROVE Spurious'
      <3>1. pin' \subseteq pin /\ phase' = phase /\ faults' = faults
        BY <2>3, ClkChanges DEF CopyClk
      <3> QED BY <3>1 DEF Spurious, Unspent
    <2>4. ASSUME NEW r \in Copies, Relock(r) \/ Relocked(r) PROVE Spurious'
      <3>1. pin' \subseteq pin /\ phase' = phase
        BY <2>4 DEF Relock, Relocked, pins
      <3>2. faults'["glitch"] = faults["glitch"]
        <4>1. {"relock"} \in SUBSET Kinds /\ "glitch" \in Kinds
          BY DEF Kinds
        <4>2. faults' = faults \/ Spend({"relock"})
          BY <2>4 DEF Relock, Relocked
        <4> QED BY <4>1, <4>2, SpendCounts DEF TypeOK
      <3> QED BY <3>1, <3>2 DEF Spurious, Unspent
    <2> QED BY <2>1, <2>2, <2>3, <2>4 DEF Next, GuardStep
  <1>3. ASSUME Unspent("force")' PROVE Labels' /\ Ahead'
    <2>1. Labels /\ Ahead /\ Unspent("force")
      BY <1>1, <1>3
    <2>2. CASE TimePasses
      BY <2>1, <2>2, TickLabels, TickAhead DEF TimePasses
    <2>3. CASE GuardStep
      BY <1>3, <2>1, <2>3, GuardLabels, GuardAhead
    <2>4. ASSUME NEW r \in Copies, CopyClk(r) PROVE Labels' /\ Ahead'
      BY <2>1, <2>4, ClkLabels, ClkAhead DEF CopyClk
    <2>5. ASSUME NEW r \in Copies, Relock(r) \/ Relocked(r) PROVE Labels' /\ Ahead'
      BY <2>1, <2>5, RelockFast
    <2> QED BY <2>2, <2>3, <2>4, <2>5 DEF Next, GuardStep
  <1> QED BY <1>2, <1>3 DEF FastInv

LEMMA StepNext ==
  ASSUME TypeOK, Resets, StepInv, Next
  PROVE  StepInv'
  <1> SUFFICES ASSUME Undisturbed' PROVE InTime' /\ \A q \in Copies : InStep(q)'
    BY DEF StepInv
  <1>1. Undisturbed => InTime /\ \A q \in Copies : InStep(q)
    BY DEF StepInv
  <1>2. CASE TimePasses
    <2>1. PICK runs \in BOOLEAN, edge \in SUBSET (Copies \ down) : Tick(runs, edge)
      BY <1>2 DEF TimePasses
    <2>2. Undisturbed /\ InTime' /\ edge \in {{}, Copies \ down}
      BY <1>1, <2>1, TickInTime
    <2> QED BY <1>1, <2>1, <2>2, TickInStep
  <1>3. CASE GuardStep
    BY <1>1, <1>3, GuardInStep
  <1>4. ASSUME NEW r \in Copies, CopyClk(r) PROVE InTime' /\ \A q \in Copies : InStep(q)'
    <2>1. PICK edge \in BOOLEAN, req \in BOOLEAN : Clk(r, edge, req)
      BY <1>4 DEF CopyClk
    <2>2. Undisturbed
      BY <2>1, ClkChanges DEF Undisturbed
    <2> QED BY <1>1, <2>1, <2>2, ClkInTime, ClkInStep
  <1>5. ASSUME NEW r \in Copies, Relock(r) \/ Relocked(r) PROVE InTime' /\ \A q \in Copies : InStep(q)'
    BY <1>1, <1>5, RelockInStep
  <1> QED BY <1>2, <1>3, <1>4, <1>5 DEF Next, GuardStep

THEOREM Invariance == Spec => []IInv
  <1>1. IInv /\ [Next]_vars => IInv'
    <2> SUFFICES ASSUME IInv, [Next]_vars PROVE IInv'
      OBVIOUS
    <2>1. CASE Next
      BY <2>1, TypedNext, FastNext, StepNext DEF IInv
    <2>2. CASE UNCHANGED vars
      <3>1. UNCHANGED <<phase, pin, clk10, armed, arm_sec, sec, lk, pps_seen, cells, down, box, gpc, label, ntp, faults>>
        BY <2>2 DEF vars, pins, copy, guard
      <3>2. TypeOK' /\ Resets'
        BY <3>1 DEF IInv, TypeOK, PinsTyped, CopiesTyped, GuardTyped, Resets
      <3>3. (Spurious => Spurious') /\ (FastInv => FastInv')
        BY <3>1 DEF Spurious, FastInv, Unspent, Labels, Labelled, OnArm, Ahead, TimeErr
      <3>4. StepInv'
        BY <3>1 DEF IInv, StepInv, Undisturbed, InTime, InStep, Lost, OnArm, OnDisarm, WillArm, WillLock,
                    WillArmSec, WillSec, WillCells
      <3> QED BY <3>2, <3>3, <3>4 DEF IInv
    <2> QED BY <2>1, <2>2
  <1> QED BY <1>1, InitHolds, PTL DEF Spec

\* With one spurious edge at most, and unless an arm was forced, no locked copy is ever a
\* second in the future (wr_timebase.sv:25-37, clock_guard.py:1-22).
THEOREM NeverFast == MaxFaults["glitch"] <= 1 => (Spec => []NeverASecondFast)
  <1> SUFFICES ASSUME MaxFaults["glitch"] <= 1 PROVE Spec => []NeverASecondFast
    OBVIOUS
  <1>1. IInv => NeverASecondFast
    <2> SUFFICES ASSUME IInv, Unspent("force"), NEW r \in Copies, lk[r] PROVE TimeErr(r) < SecTicks
      BY DEF NeverASecondFast, Unspent
    <2>1. TimeErr(r) < MinCells /\ TimeErr(r) \in Int
      BY ErrTyped DEF IInv, FastInv, Ahead
    <2> QED BY <2>1, Bounds
  <1> QED BY <1>1, Invariance, PTL

\* When all copies are locked and the monitor is on true time, so is every other, as long
\* as nothing has parted them (wr_time.py:241-253, aclk_pipeline_bd_top.v:398-401).
THEOREM AuditIsEnough == Spec => []AuditCoversCopies
  <1>1. IInv => AuditCoversCopies
    <2> SUFFICES ASSUME IInv, Undisturbed, Settled, ~Unlocked, TimeErr(Monitor) = 0, NEW r \in Copies
                 PROVE  TimeErr(r) = 0
      BY DEF AuditCoversCopies
    <2>1. Monitor \in Copies /\ \A q \in Copies : lk[q] /\ box[q] = <<>> /\ q \notin pin
      BY Bounds DEF Settled, Unlocked
    <2>2. sec[r] = sec[Monitor] /\ cells[r] = cells[Monitor]
      BY <2>1 DEF IInv, StepInv, InStep, WillLock, WillSec, WillCells, OnDisarm
    <2> QED BY <2>2 DEF TimeErr
  <1> QED BY <1>1, Invariance, PTL

-----------------------------------------------------------------------------
(***************************************************************************)
(* The registers (WrTimeAxi), for every set of readers and of copies,      *)
(* every length of the second and every bound: a pair that is read         *)
(* undisturbed is one moment, and a loss of lock shows.                    *)
(***************************************************************************)
Moments == [sec : Nat, ns : Nat]
Reads == [by : Readers, reg : {"SEC_NOW", "NS_NOW"}]

AxiTypeOK ==
    /\ ts \in Moments
    /\ locked \in [AxiCopies -> BOOLEAN] /\ sync1 \in [AxiCopies -> BOOLEAN]
    /\ sync2 \in [AxiCopies -> BOOLEAN] /\ seen \in [AxiCopies -> BOOLEAN]
    /\ low \in [AxiCopies -> Nat]
    /\ lost_lock \in BOOLEAN /\ ns_latch \in Nat
    /\ rd \in Reads \cup {NoRead} /\ arready \in BOOLEAN /\ rvalid \in BOOLEAN /\ rdata \in Nat
    /\ pc \in [Readers -> {"sec", "ns", "done"}]
    /\ pair \in [Readers -> Moments] /\ at \in [Readers -> Moments] /\ alone \in [Readers -> BOOLEAN]

\* The read channel answers one read at a time, and it is the one its reader is at.
OneRead ==
    /\ arready <=> ~rvalid
    /\ rvalid => rd \in Reads
    /\ rd \in Reads => \/ rd.reg = "SEC_NOW" /\ pc[rd.by] = "sec"
                       \/ rd.reg = "NS_NOW" /\ pc[rd.by] = "ns"

\* The seconds are on their way to their reader, or are there, and the latch holds the
\* nanoseconds of the same moment until somebody else's seconds are read.
Latched(p) == alone[p] => ns_latch = at[p].ns
SecondsKept ==
    \A p \in Readers :
        /\ pc[p] = "ns" => pair[p].sec = at[p].sec /\ Latched(p)
        /\ rvalid /\ rd.by = p /\ pc[p] = "sec" => rdata = at[p].sec /\ Latched(p)
        /\ rvalid /\ rd.by = p /\ pc[p] = "ns" => (alone[p] => rdata = at[p].ns)

\* How far a loss has come after so many clocks: out of the first flip-flop, out of the
\* second, seen by the edge detector.
LossOnItsWay ==
    /\ seen["mon"] = sync1["mon"]
    /\ \A c \in AxiCopies : low[c] = 1 => ~sync1[c] /\ sync2[c]
    /\ \A c \in Replicas : low[c] = 2 => ~sync2[c] /\ seen[c]

AxiInv == AxiTypeOK /\ OneRead /\ SecondsKept /\ PairIsOneMoment /\ LossOnItsWay /\ LossShows

-----------------------------------------------------------------------------
LEMMA AxiInitInv == AxiInit => AxiInv
  <1> SUFFICES ASSUME AxiInit PROVE AxiInv
    OBVIOUS
  <1>1. AxiTypeOK
    BY AxiAssumption DEF AxiInit, AxiTypeOK, Moments, Unsync, NoRead
  <1>2. OneRead /\ SecondsKept /\ PairIsOneMoment
    BY DEF AxiInit, OneRead, SecondsKept, PairIsOneMoment, Reads, NoRead
  <1>3. LossOnItsWay /\ LossShows
    BY DEF AxiInit, LossOnItsWay, LossShows, AxiCopies
  <1> QED BY <1>1, <1>2, <1>3 DEF AxiInv

\* What the readers and the read channel have is touched by them alone.
LEMMA ReadersStay ==
  ASSUME AxiInv, UNCHANGED <<readCh, readers, ns_latch>>
  PROVE  (OneRead /\ SecondsKept /\ PairIsOneMoment)'
  BY DEF AxiInv, readCh, readers, OneRead, SecondsKept, Latched, PairIsOneMoment

\* So is what shows a loss by the lock bits and the clock.
LEMMA LossStays ==
  ASSUME AxiInv, UNCHANGED <<sync1, sync2, seen, lost_lock>>,
         \A c \in AxiCopies : low'[c] \in {0, low[c]}
  PROVE  (LossOnItsWay /\ LossShows)'
  <1>1. LossOnItsWay'
    BY DEF AxiInv, LossOnItsWay, AxiCopies
  <1>2. LossShows'
    BY DEF AxiInv, LossShows, AxiCopies
  <1> QED BY <1>1, <1>2

-----------------------------------------------------------------------------
\* The monitor's time goes on, a copy locks or loses its lock.
LEMMA CopyStep ==
  ASSUME AxiInv, MonTick \/ \E c \in AxiCopies : Lock(c) \/ Fall(c)
  PROVE  AxiInv'
  <1>1. UNCHANGED <<readCh, readers, ns_latch, sync1, sync2, seen, lost_lock>>
    BY DEF MonTick, Lock, Fall, bits, regs
  <1>2. ts' \in Moments /\ locked' \in [AxiCopies -> BOOLEAN] /\ low' \in [AxiCopies -> Nat]
    <2>1. CASE MonTick
      BY <2>1 DEF MonTick, bits, AxiInv, AxiTypeOK, Moments
    <2>2. ASSUME NEW c \in AxiCopies, Lock(c)
          PROVE  ts' \in Moments /\ locked' \in [AxiCopies -> BOOLEAN] /\ low' \in [AxiCopies -> Nat]
      BY <2>2 DEF Lock, AxiInv, AxiTypeOK, Moments
    <2>3. ASSUME NEW c \in AxiCopies, Fall(c)
          PROVE  ts' \in Moments /\ locked' \in [AxiCopies -> BOOLEAN] /\ low' \in [AxiCopies -> Nat]
      BY <2>3 DEF Fall, AxiInv, AxiTypeOK, Moments, Unsync
    <2> QED BY <2>1, <2>2, <2>3
  <1>3. \A c \in AxiCopies : low'[c] \in {0, low[c]}
    BY DEF MonTick, Lock, Fall, bits, AxiInv, AxiTypeOK
  <1>4. AxiTypeOK'
    BY <1>1, <1>2 DEF AxiInv, AxiTypeOK, readCh, readers
  <1> QED BY <1>1, <1>3, <1>4, ReadersStay, LossStays DEF AxiInv

\* A store on its way touches neither.
LEMMA StoreStep ==
  ASSUME AxiInv, StoreReg \/ Present
  PROVE  AxiInv'
  <1>1. UNCHANGED <<ts, bits, regs, readCh, readers>>
    BY DEF StoreReg, Present
  <1>2. AxiTypeOK'
    BY <1>1 DEF AxiInv, AxiTypeOK, bits, regs, readCh, readers
  <1>3. \A c \in AxiCopies : low'[c] \in {0, low[c]}
    BY <1>1 DEF bits
  <1> QED BY <1>1, <1>2, <1>3, ReadersStay, LossStays DEF AxiInv, bits, regs

\* A load starts where its reader is; a reader that starts again has no pair.
LEMMA ReaderStep ==
  ASSUME AxiInv, NEW p \in Readers, Load(p) \/ Again(p)
  PROVE  AxiInv'
  <1>1. UNCHANGED <<bits, lost_lock>> /\ \A c \in AxiCopies : low'[c] \in {0, low[c]}
    BY DEF Load, Again, bits, regs
  <1>2. AxiTypeOK'
    <2>1. CASE Load(p)
      BY <2>1 DEF Load, AxiInv, AxiTypeOK, Reads, bits, regs, readers
    <2>2. CASE Again(p)
      BY <2>2 DEF Again, AxiInv, AxiTypeOK, Moments, Unsync, bits, regs, readCh
    <2> QED BY <2>1, <2>2
  <1>3. (OneRead /\ SecondsKept /\ PairIsOneMoment)'
    <2>1. CASE Load(p)
      <3>1. ~rvalid
        BY <2>1 DEF Load, AxiInv, OneRead, Reads, NoRead
      <3> QED BY <2>1, <3>1 DEF Load, AxiInv, AxiTypeOK, OneRead, SecondsKept, Latched, PairIsOneMoment,
                  Reads, regs, readers
    <2>2. CASE Again(p)
      BY <2>2 DEF Again, AxiInv, AxiTypeOK, OneRead, SecondsKept, Latched, PairIsOneMoment,
                  Reads, regs, readCh
    <2> QED BY <2>1, <2>2
  <1> QED BY <1>1, <1>2, <1>3, LossStays DEF AxiInv, bits

-----------------------------------------------------------------------------
\* The read half of a clock: a load is taken, or answered, or nothing happens.
LEMMA ReadTyped ==
  ASSUME AxiInv, ReadClk
  PROVE  /\ ns_latch' \in Nat /\ rd' \in Reads \cup {NoRead}
         /\ arready' \in BOOLEAN /\ rvalid' \in BOOLEAN /\ rdata' \in Nat
         /\ pc' \in [Readers -> {"sec", "ns", "done"}]
         /\ pair' \in [Readers -> Moments] /\ at' \in [Readers -> Moments]
         /\ alone' \in [Readers -> BOOLEAN]
  <1>1. CASE TakesRead
    <2>1. rd \in Reads /\ ~rvalid
      BY <1>1 DEF AxiInv, AxiTypeOK, OneRead, TakesRead
    <2>2. ts.sec \in Nat /\ ts.ns \in Nat
      BY DEF AxiInv, AxiTypeOK, Moments
    <2>3. rd.by \in Readers /\ ReadWord(rd.reg) \in Nat
      BY <2>1, <2>2 DEF Reads, ReadWord, AxiInv, AxiTypeOK
    <2>4. at' \in [Readers -> Moments] /\ alone' \in [Readers -> BOOLEAN]
      BY <1>1, <2>1, <2>3 DEF ReadClk, AxiInv, AxiTypeOK
    <2> QED BY <1>1, <2>1, <2>2, <2>3, <2>4 DEF ReadClk, AxiInv, AxiTypeOK
  <1>2. CASE ~TakesRead /\ rvalid
    <2>1. rd \in Reads
      BY <1>2 DEF AxiInv, OneRead
    <2>2. rd.by \in Readers /\ Returned(rd.by)
      BY <1>2, <2>1 DEF ReadClk, Reads
    <2>3. pair[rd.by] \in Moments /\ rdata \in Nat
      BY <2>2 DEF AxiInv, AxiTypeOK
    <2>4. pair' \in [Readers -> Moments]
      BY <2>2, <2>3 DEF Returned, AxiInv, AxiTypeOK, Moments
    <2>5. pc' \in [Readers -> {"sec", "ns", "done"}]
      BY <2>2 DEF Returned, AxiInv, AxiTypeOK
    <2> QED BY <1>2, <2>1, <2>4, <2>5 DEF ReadClk, AxiInv, AxiTypeOK
  <1>3. CASE ~TakesRead /\ ~rvalid
    BY <1>3 DEF ReadClk, readCh, AxiInv, AxiTypeOK
  <1> QED BY <1>1, <1>2, <1>3

\* The load of the seconds fixes the moment and starts to disturb the others; that of
\* the nanoseconds reads the latch.
LEMMA TakeStep ==
  ASSUME AxiInv, ReadClk, TakesRead
  PROVE  (OneRead /\ SecondsKept /\ PairIsOneMoment)'
  <1>1. rd \in Reads /\ ~rvalid /\ rd.by \in Readers
    BY DEF AxiInv, AxiTypeOK, OneRead, TakesRead, Reads
  <1>2. /\ rvalid' = TRUE /\ arready' = FALSE /\ rdata' = ReadWord(rd.reg)
        /\ UNCHANGED <<rd, pc, pair>>
    BY <1>1 DEF ReadClk
  <1>3. CASE rd.reg = "SEC_NOW"
    <2>1. /\ pc[rd.by] = "sec" /\ ns_latch' = ts.ns /\ rdata' = ts.sec
          /\ at' = [at EXCEPT ![rd.by] = ts] /\ alone' = [p \in Readers |-> pc[p] = "sec"]
      BY <1>1, <1>2, <1>3 DEF ReadClk, ReadWord, AxiInv, OneRead, TakesRead
    <2> QED BY <1>1, <1>2, <2>1 DEF AxiInv, AxiTypeOK, OneRead, SecondsKept, Latched, PairIsOneMoment
  <1>4. CASE rd.reg = "NS_NOW"
    <2>1. /\ pc[rd.by] = "ns" /\ ns_latch' = ns_latch /\ rdata' = ns_latch
          /\ UNCHANGED <<at, alone>>
      BY <1>1, <1>2, <1>4 DEF ReadClk, ReadWord, AxiInv, OneRead
    <2> QED BY <1>1, <1>2, <2>1 DEF AxiInv, AxiTypeOK, OneRead, SecondsKept, Latched, PairIsOneMoment
  <1> QED BY <1>1, <1>3, <1>4 DEF Reads

\* The reader has its word, and with the second of them its pair.
LEMMA AnswerStep ==
  ASSUME AxiInv, ReadClk, rvalid
  PROVE  (OneRead /\ SecondsKept /\ PairIsOneMoment)'
  <1>1. rd \in Reads /\ rd.by \in Readers /\ ~TakesRead
    BY DEF AxiInv, OneRead, TakesRead, Reads
  <1>2. /\ rvalid' = FALSE /\ arready' = TRUE /\ rd' = NoRead /\ Returned(rd.by)
        /\ UNCHANGED <<rdata, at, alone, ns_latch>>
    BY <1>1 DEF ReadClk
  <1>3. NoRead \notin Reads
    BY DEF NoRead, Reads
  <1>4. CASE pc[rd.by] = "sec"
    <2>1. /\ pair' = [pair EXCEPT ![rd.by].sec = rdata] /\ pc' = [pc EXCEPT ![rd.by] = "ns"]
          /\ pair[rd.by] \in Moments
      BY <1>1, <1>2, <1>4 DEF Returned, AxiInv, AxiTypeOK
    <2>2. pair'[rd.by].sec = at[rd.by].sec /\ Latched(rd.by)
      BY <1>1, <1>4, <2>1 DEF AxiInv, AxiTypeOK, SecondsKept, Moments
    <2>3. \A p \in Readers \ {rd.by} : pair'[p] = pair[p] /\ pc'[p] = pc[p]
      BY <1>1, <2>1 DEF AxiInv, AxiTypeOK
    <2>4. pc'[rd.by] = "ns"
      BY <1>1, <2>1 DEF AxiInv, AxiTypeOK
    <2>5. SecondsKept'
      BY <1>2, <2>2, <2>3, <2>4 DEF AxiInv, SecondsKept, Latched
    <2> QED BY <1>2, <1>3, <2>3, <2>4, <2>5 DEF AxiInv, OneRead, PairIsOneMoment
  <1>5. CASE pc[rd.by] = "ns"
    <2>1. /\ pair' = [pair EXCEPT ![rd.by].ns = rdata] /\ pc' = [pc EXCEPT ![rd.by] = "done"]
          /\ pair[rd.by] \in Moments
      BY <1>1, <1>2, <1>5 DEF Returned, AxiInv, AxiTypeOK
    <2>2. /\ pair'[rd.by].sec = at[rd.by].sec
          /\ alone[rd.by] => pair'[rd.by].ns = at[rd.by].ns
      BY <1>1, <1>5, <2>1 DEF AxiInv, AxiTypeOK, SecondsKept, Moments
    <2>3. \A p \in Readers \ {rd.by} : pair'[p] = pair[p] /\ pc'[p] = pc[p]
      BY <1>1, <2>1 DEF AxiInv, AxiTypeOK
    <2>4. pc'[rd.by] = "done"
      BY <1>1, <2>1 DEF AxiInv, AxiTypeOK
    <2>5. PairIsOneMoment'
      BY <1>2, <2>2, <2>3 DEF AxiInv, PairIsOneMoment
    <2> QED BY <1>2, <1>3, <2>3, <2>4, <2>5 DEF AxiInv, OneRead, SecondsKept, Latched
  <1> QED BY <1>1, <1>4, <1>5 DEF AxiInv, OneRead

\* The flip-flops move on, and a loss that has come out of them is latched whatever
\* the write half does.
LEMMA LossStep ==
  ASSUME AxiInv, AxiClk
  PROVE  (LossOnItsWay /\ LossShows)'
  <1>1. /\ sync1' = [c \in AxiCopies |-> locked[c]] /\ sync2' = sync1
        /\ seen' = [c \in AxiCopies |-> IF c = "mon" THEN locked[c] ELSE sync2[c]]
        /\ low' = [c \in AxiCopies |-> IF locked[c] THEN 0
                                    ELSE IF sync1[c] THEN 1
                                    ELSE IF low[c] \in 1..3 THEN low[c] + 1 ELSE 0]
        /\ lost_lock' = LostLockNext
    BY DEF AxiClk, WriteClk
  <1>2. "mon" \in AxiCopies /\ Replicas \subseteq AxiCopies /\ "mon" \notin Replicas
    BY AxiAssumption DEF AxiCopies
  <1>3. LossOnItsWay'
    BY <1>1, <1>2 DEF AxiInv, AxiTypeOK, LossOnItsWay
  <1>4. ASSUME NEW c \in Replicas, low'[c] = 3
        PROVE  lost_lock'
    <2>1. low[c] = 2 /\ c # "mon" /\ c \in AxiCopies
      BY <1>1, <1>2, <1>4 DEF AxiInv, AxiTypeOK
    <2> QED BY <1>1, <1>2, <2>1 DEF AxiInv, LossOnItsWay, LostLockNext, LockFall
  <1>5. low'["mon"] = 1 => lost_lock'
    BY <1>1, <1>2 DEF AxiInv, AxiTypeOK, LossOnItsWay, LostLockNext, LockFall
  <1> QED BY <1>3, <1>4, <1>5 DEF LossShows

LEMMA AxiStep ==
  ASSUME AxiInv, AxiClk
  PROVE  AxiInv'
  <1>1. ReadClk
    BY DEF AxiClk
  <1>2. AxiTypeOK'
    <2>1. /\ ts' = ts /\ locked' = locked
          /\ sync1' \in [AxiCopies -> BOOLEAN] /\ sync2' \in [AxiCopies -> BOOLEAN]
          /\ seen' \in [AxiCopies -> BOOLEAN] /\ low' \in [AxiCopies -> Nat]
      BY DEF AxiClk, AxiInv, AxiTypeOK
    <2>2. lost_lock' \in BOOLEAN
      BY DEF AxiClk, WriteClk, LostLockNext, LockFall, AxiInv, AxiTypeOK
    <2> QED BY <1>1, <2>1, <2>2, ReadTyped DEF AxiInv, AxiTypeOK
  <1>3. (OneRead /\ SecondsKept /\ PairIsOneMoment)'
    <2>1. CASE ~TakesRead /\ ~rvalid
      <3>1. UNCHANGED <<readCh, readers, ns_latch>>
        BY <1>1, <2>1 DEF ReadClk, readers
      <3> QED BY <3>1, ReadersStay
    <2> QED BY <1>1, <2>1, TakeStep, AnswerStep
  <1> QED BY <1>2, <1>3, LossStep DEF AxiInv

-----------------------------------------------------------------------------
LEMMA AxiNextInv ==
  ASSUME AxiInv, [AxiNext]_axi_vars
  PROVE  AxiInv'
  <1>1. CASE UNCHANGED axi_vars
    <2>1. UNCHANGED <<readCh, readers, ns_latch, sync1, sync2, seen, lost_lock, ts, locked, low>>
      BY <1>1 DEF axi_vars, bits, regs
    <2>2. AxiTypeOK'
      BY <2>1 DEF AxiInv, AxiTypeOK, readCh, readers
    <2> QED BY <2>1, <2>2, ReadersStay, LossStays DEF AxiInv
  <1> QED BY <1>1, CopyStep, StoreStep, ReaderStep, AxiStep DEF AxiNext

\* The inductive invariant: the read channel answers one read at a time, the latch holds
\* the nanoseconds that belong to an undisturbed reader's seconds, and a loss moves
\* through the flip-flops to the sticky bit (wr_timebase_axi.sv:112-214).
THEOREM AxiInvariance == AxiSpec => []AxiInv
  <1> QED BY AxiInitInv, AxiNextInv, PTL DEF AxiSpec

\* For any number of readers and any second's length: an undisturbed pair is one moment.
THEOREM NoTornPair == AxiSpec => []PairIsOneMoment
  <1>1. AxiInv => PairIsOneMoment
    BY DEF AxiInv
  <1> QED BY <1>1, AxiInvariance, PTL

\* For any number of copies: a loss shows, whatever is cleared and written meanwhile.
THEOREM NoLossHidden == AxiSpec => []LossShows
  <1>1. AxiInv => LossShows
    BY DEF AxiInv
  <1> QED BY <1>1, AxiInvariance, PTL
=============================================================================
