---------------------------- MODULE AclkEncoder ----------------------------
(***************************************************************************)
(* aclk_tclk_encoder with its transmit gearbox: a TCLK event crosses into  *)
(* the transmit clock by a toggle, is counted in a RAM of one count per    *)
(* code, and waits for the next frame; a frame leaves every six clocks, an *)
(* event if one waits and all ones (Null) if not.                          *)
(*                                                                         *)
(* The registers are a record e.  A packet is a code with its count; a     *)
(* word on the link is the i-th of the six of a frame, and k marks the     *)
(* comma.  The CRC byte is part of the frame: what it tells is Intact in   *)
(* AclkReceiver.                                                           *)
(***************************************************************************)
EXTENDS Integers, Sequences, SequencesExt

CONSTANT LastCode                    \* codes are 0..LastCode (255 in the code)
ASSUME EncoderAssumption == LastCode \in Nat \ {0}

Codes == 0..LastCode
Null == [code |-> -1, n |-> -1]      \* all ones
Zero == [code |-> 0, n |-> 0]        \* the reset value
WordOf(pkt, i) == [k |-> i = 0, pkt |-> pkt, i |-> i]
ZeroWord == [k |-> FALSE, pkt |-> Zero, i |-> 0]

\* The registers after a reset; the count RAM has none.
EncoderReset(ram) ==
    [toggle |-> FALSE, byte |-> 0, sync |-> <<FALSE, FALSE, FALSE>>,
     ctr |-> 0, adv0 |-> FALSE, adv1 |-> FALSE, crc |-> <<FALSE, FALSE, FALSE>>,
     event |-> 0, st |-> "start", zero |-> 0, ram |-> ram, q |-> 0,
     or_null |-> FALSE, tclk |-> Zero, aclk |-> Zero,
     gear |-> Zero, gctr |-> 0, word |-> ZeroWord]

\* clk_40m: a strobe of the receiver latches the byte and flips the toggle.
Strobe(e, code) == [e EXCEPT !.toggle = ~@, !.byte = code]

NewEvent(e) == e.sync[2] # e.sync[3]
CrcValid(e) == e.crc[3]

\* Mutant: the counts of before a reset are kept.
NextStateNoSweep(e) ==
    CASE e.st = "start" -> "wait"
      [] e.st = "wait"  -> IF NewEvent(e) THEN "read" ELSE "wait"
      [] e.st = "read"  -> "settle"
      [] e.st = "settle" -> "store"
      [] e.st = "store" -> "wait"

\* The FSM: sweep the RAM, wait for an event, let the RAM's read port follow, store.
NextState(e) ==
    CASE e.st = "start" -> "sweep"
      [] e.st = "sweep" -> IF e.zero = LastCode THEN "wait" ELSE "sweep"
      [] e.st = "wait"  -> IF NewEvent(e) THEN "read" ELSE "wait"
      [] e.st = "read"  -> "settle"
      [] e.st = "settle" -> "store"
      [] e.st = "store" -> "wait"

Sweeping(e) == e.st \in {"start", "sweep"}
Addr(e) == IF Sweeping(e) THEN e.zero ELSE e.event
StoresEvent(e) == e.st = "store"

RamWrite(e) ==
    IF Sweeping(e) THEN [e.ram EXCEPT ![e.zero] = 0]
    ELSE IF StoresEvent(e) THEN [e.ram EXCEPT ![e.event] = e.q + 1]
    ELSE e.ram

\* Mutant: the priorities are swapped.
OrNullLost(e) == ~e.adv0 /\ (e.or_null \/ StoresEvent(e))

\* An event stored in the very clock of a frame's start waits for the next frame.
OrNull(e) == StoresEvent(e) \/ (e.or_null /\ ~e.adv0)

\* One edge of clk_tx.
ClkTx(e) ==
    [toggle |-> e.toggle, byte |-> e.byte, sync |-> <<e.toggle>> \o Front(e.sync),
     ctr |-> (e.ctr + 1) % 6, adv0 |-> e.ctr = 3, adv1 |-> e.ctr = 4, crc |-> <<e.adv1>> \o Front(e.crc),
     event |-> IF NewEvent(e) THEN e.byte ELSE e.event,
     st |-> NextState(e), zero |-> IF e.st = "sweep" THEN (e.zero + 1) % (LastCode + 1) ELSE 0,
     ram |-> RamWrite(e), q |-> e.ram[Addr(e)],
     or_null |-> OrNull(e),
     tclk |-> IF StoresEvent(e) THEN [code |-> e.event, n |-> e.q + 1] ELSE e.tclk,
     aclk |-> IF e.adv0 THEN (IF e.or_null THEN e.tclk ELSE Null) ELSE e.aclk,
     gear |-> IF CrcValid(e) THEN e.aclk ELSE e.gear,
     gctr |-> IF CrcValid(e) THEN 0 ELSE (e.gctr + 1) % 16,
     word |-> IF e.gear # Zero /\ e.gctr \in 0..5 THEN WordOf(e.gear, e.gctr) ELSE ZeroWord]
=============================================================================
