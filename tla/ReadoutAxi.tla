----------------------------- MODULE ReadoutAxi -----------------------------
(***************************************************************************)
(* One readout: the event filter, counters and FIFO of                     *)
(* rtl/aclk_readout/aclk_readout_axi.sv and aclk_readout_core.sv, its      *)
(* AXI4-Lite register block, and the board-side drain loop that reads it   *)
(* (deploy/readout_common.py).                                             *)
(*                                                                         *)
(* Three actors run concurrently: the receive clock (RxClk), the AXI clock *)
(* (AxiClk), and the processor (PsIssue), whose loads and stores reach the *)
(* slave through an interconnect that presents the write address and the   *)
(* write data independently (PresentAW, PresentW) and takes the responses  *)
(* when it likes (rready, bready). The processor has one access            *)
(* outstanding: the registers are mapped as device memory. The FIFO is the *)
(* bounded queue that AsyncFifo implements.                                *)
(***************************************************************************)
EXTENDS Integers, Sequences, SequencesExt

CONSTANTS
  Depth,       \* words in the FIFO
  Codes,       \* event codes
  NullCode,    \* the code of null packets (low byte 0xFF)
  DROP_NULL,   \* TRUE: drop nulls (ACLK); FALSE: keep all (TCLK)
  HasData,     \* the codes whose events carry a 64-bit payload (FLAGS bit 0)
  DropCodes,   \* the codes the publisher asks the hardware to drop, in order
  EventGap,    \* receive clocks from one event to the next, at least: a packet takes six
  MaxEvents    \* bound: events that arrive in a behaviour

ASSUME ReadoutAssumption ==
  /\ Depth \in Nat \ {0}
  /\ NullCode \in Codes
  /\ DROP_NULL \in BOOLEAN
  /\ HasData \subseteq Codes
  /\ DropCodes \in Seq(Codes)
  /\ EventGap \in Nat /\ EventGap >= 3
  /\ MaxEvents \in Nat

VARIABLES
  \* the FIFO
  queue, full, empty, overflow,
  \* receive-clock domain
  mask_fly,                            \* the mask before a change in flight
  mask_ff1, drop_mask_rx,              \* synchronizer of the drop mask
  event_count, null_count, filtered_count,
  gap,                                 \* clocks since the last event
  \* AXI slave
  arready, rvalid, rdata,
  awready, wready, bvalid, waddr, wdata, pop, drop_mask,
  \* the bus: what the interconnect presents
  arvalid, awvalid, wvalid,
  aw_todo, w_todo,                     \* a store accepted, not yet presented
  \* the processor
  pc,                                  \* the register it is about to access
  busy,                                \* its access is outstanding
  todo,                                \* drop codes not written yet
  got,                                 \* the fields of the event read so far
  \* history
  accepted, lost, collected, misfiltered

fifo == <<queue, full, empty, overflow>>
rx == <<mask_fly, mask_ff1, drop_mask_rx, event_count, null_count, filtered_count, gap>>
rdChan == <<arready, rvalid, rdata>>
wrChan == <<awready, wready, bvalid, waddr, wdata, pop, drop_mask>>
bus == <<arvalid, awvalid, wvalid, aw_todo, w_todo>>
ps == <<pc, busy, todo, got>>
history == <<accepted, lost, collected, misfiltered>>
vars == <<fifo, rx, rdChan, wrChan, bus, ps, history>>

\* An event as the packed FIFO word: which arrival it was, and its code.
Words == [id : 1 .. MaxEvents, code : Codes]

Fifo == INSTANCE BoundedFifo WITH Data <- Words

NoValue == [empty |-> FALSE, entry |-> <<>>]

FieldRegs == {"EVENT", "DATA_HI", "DATA_LO", "TS_HI", "TS_LO"}

Init ==
  /\ Fifo!FifoInit
  /\ mask_fly = {} /\ mask_ff1 = {} /\ drop_mask_rx = {} /\ gap = EventGap
  /\ event_count = 0 /\ null_count = 0 /\ filtered_count = 0
  /\ arready = TRUE /\ rvalid = FALSE /\ rdata = NoValue
  /\ awready = TRUE /\ wready = TRUE /\ bvalid = FALSE
  /\ waddr = "STATUS" /\ wdata = NullCode /\ pop = FALSE /\ drop_mask = {}
  /\ arvalid = FALSE /\ awvalid = FALSE /\ wvalid = FALSE
  /\ aw_todo = FALSE /\ w_todo = FALSE
  /\ pc = IF DropCodes = <<>> THEN "STATUS" ELSE "FILTER_CFG"
  /\ busy = FALSE /\ todo = DropCodes /\ got = <<>>
  /\ accepted = <<>> /\ lost = 0 /\ collected = <<>> /\ misfiltered = 0

-----------------------------------------------------------------------------
(***************************************************************************)
(* The receive clock.                                                      *)
(***************************************************************************)
IsNull(code) == DROP_NULL /\ code = NullCode

\* Never drop a null: the mask is for events.
DropThis(code) == code \in drop_mask_rx /\ ~IsNull(code)

Pushed(code) == ~DropThis(code) /\ ~IsNull(code)

\* How many events arrived before this one.
Arrived == event_count + null_count + filtered_count

\* A variant with a defect: the synchronizer's second flop is never clocked.
SyncMaskStuck ==
  /\ mask_ff1' \in {mask_fly, drop_mask}
  /\ mask_fly' = drop_mask
  /\ UNCHANGED drop_mask_rx

\* The mask crosses through two flops. A write changes one bit, so a capture
\* in flight is the old mask or the new one.
SyncMask ==
  /\ mask_ff1' \in {mask_fly, drop_mask}
  /\ mask_fly' = drop_mask
  /\ drop_mask_rx' = mask_ff1

\* posedge rx_clk with no event.
RxIdle ==
  /\ SyncMask
  /\ gap' = IF gap < EventGap THEN gap + 1 ELSE gap
  /\ Fifo!WriteEdge(FALSE, [id |-> 1, code |-> NullCode])
  /\ UNCHANGED <<event_count, null_count, filtered_count>>
  /\ UNCHANGED <<rdChan, wrChan, bus, ps, history>>

\* A variant with a defect: the counter takes the event before the mask does.
RxEventCountedEarly(code) ==
  LET word == [id |-> Arrived + 1, code |-> code]
      push == Pushed(code)
  IN  /\ gap = EventGap /\ Arrived < MaxEvents
      /\ gap' = 1
      /\ SyncMask
      /\ event_count' = event_count + (IF IsNull(code) THEN 0 ELSE 1)
      /\ null_count' = null_count + (IF IsNull(code) THEN 1 ELSE 0)
      /\ filtered_count' = filtered_count + (IF DropThis(code) THEN 1 ELSE 0)
      /\ Fifo!WriteEdge(push, word)
      /\ accepted' = IF push /\ ~full THEN Append(accepted, word) ELSE accepted
      /\ lost' = lost + (IF push /\ full THEN 1 ELSE 0)
      /\ UNCHANGED <<misfiltered, collected, rdChan, wrChan, bus, ps>>

\* posedge rx_clk with aclk_valid and an event of this code: the null test,
\* the mask, the counters and the push into the FIFO.
RxEvent(code) ==
  LET word == [id |-> Arrived + 1, code |-> code]
      push == Pushed(code)
  IN  /\ gap = EventGap /\ Arrived < MaxEvents
      /\ gap' = 1
      /\ SyncMask
      /\ event_count' = event_count + (IF push THEN 1 ELSE 0)
      /\ null_count' = null_count + (IF IsNull(code) THEN 1 ELSE 0)
      /\ filtered_count' = filtered_count + (IF DropThis(code) THEN 1 ELSE 0)
      /\ Fifo!WriteEdge(push, word)
      /\ accepted' = IF push /\ ~full THEN Append(accepted, word) ELSE accepted
      /\ lost' = lost + (IF push /\ full THEN 1 ELSE 0)
      /\ misfiltered' = misfiltered + (IF push /\ code \in drop_mask THEN 1 ELSE 0)
      /\ UNCHANGED <<collected, rdChan, wrChan, bus, ps>>

RxClk == RxIdle \/ \E code \in Codes : RxEvent(code)

-----------------------------------------------------------------------------
(***************************************************************************)
(* The processor's accesses on their way to the slave.                     *)
(***************************************************************************)
IsStore(reg) == reg \in {"FILTER_CFG", "POP"}

\* The processor issues its next load or store (RegIO.rd, wr and pulse: one
\* bus transaction each).
PsIssue ==
  /\ ~busy
  /\ busy' = TRUE
  /\ arvalid' = ~IsStore(pc)
  /\ aw_todo' = IsStore(pc) /\ w_todo' = IsStore(pc)
  /\ UNCHANGED <<awvalid, wvalid, pc, todo, got>>
  /\ UNCHANGED <<fifo, rx, rdChan, wrChan, history>>

\* The interconnect presents a store's address, and its data, in any order.
PresentAW ==
  /\ aw_todo
  /\ aw_todo' = FALSE /\ awvalid' = TRUE
  /\ UNCHANGED <<arvalid, wvalid, w_todo, fifo, rx, rdChan, wrChan, ps, history>>

PresentW ==
  /\ w_todo
  /\ w_todo' = FALSE /\ wvalid' = TRUE
  /\ UNCHANGED <<arvalid, awvalid, aw_todo, fifo, rx, rdChan, wrChan, ps, history>>

-----------------------------------------------------------------------------
(***************************************************************************)
(* The AXI clock.                                                          *)
(***************************************************************************)
\* What a register reads: the empty bit of the status, or a field of the entry
\* at the FIFO's head.
RegValue(reg) ==
  [empty |-> reg = "STATUS" /\ empty,
   entry |-> IF reg = "STATUS" \/ queue = <<>> THEN <<>> ELSE <<Head(queue)>>]

\* Variants with a defect: a read channel that never takes a second address; a
\* POP that stays high.
ReadChannelOnce(rready) ==
  LET take == arready /\ arvalid
  IN  /\ rdata' = IF take THEN RegValue(pc) ELSE rdata
      /\ arready' = (arready /\ ~take)
      /\ rvalid' = (take \/ (rvalid /\ ~rready))
      /\ arvalid' = (arvalid /\ ~arready)

WriteChannelPopHeld(bready) ==
  LET takeAW == awvalid /\ awready
      takeW == wvalid /\ wready
      fire == ~awready /\ ~wready /\ ~bvalid
      done == bvalid /\ bready
  IN  /\ awready' = ((awready /\ ~takeAW) \/ done)
      /\ wready' = ((wready /\ ~takeW) \/ done)
      /\ waddr' = IF takeAW THEN pc ELSE waddr
      /\ wdata' = IF takeW /\ pc = "FILTER_CFG" THEN Head(todo) ELSE wdata
      /\ bvalid' = ((bvalid \/ fire) /\ ~done)
      /\ pop' = ((pop \/ fire) /\ waddr = "POP" /\ ~done /\ ~empty)
      /\ UNCHANGED drop_mask
      /\ mask_fly' = drop_mask
      /\ awvalid' = (awvalid /\ ~awready)
      /\ wvalid' = (wvalid /\ ~wready)

\* The read channel: latch the register, hold it until it is taken.
ReadChannel(rready) ==
  LET take == arready /\ arvalid
      release == ~take /\ rvalid /\ rready
  IN  /\ rdata' = IF take THEN RegValue(pc) ELSE rdata
      /\ arready' = ((arready /\ ~take) \/ release)
      /\ rvalid' = (take \/ (rvalid /\ ~release))
      /\ arvalid' = (arvalid /\ ~arready)

\* The write channel: address and data are latched each on its own; when both
\* are in, the write takes effect and is answered.
WriteChannel(bready) ==
  LET takeAW == awvalid /\ awready
      takeW == wvalid /\ wready
      fire == ~awready /\ ~wready /\ ~bvalid
      done == bvalid /\ bready
  IN  /\ awready' = ((awready /\ ~takeAW) \/ done)
      /\ wready' = ((wready /\ ~takeW) \/ done)
      /\ waddr' = IF takeAW THEN pc ELSE waddr
      /\ wdata' = IF takeW /\ pc = "FILTER_CFG" THEN Head(todo) ELSE wdata
      /\ bvalid' = ((bvalid \/ fire) /\ ~done)
      /\ pop' = (fire /\ waddr = "POP" /\ ~empty)
      /\ drop_mask' = IF fire /\ waddr = "FILTER_CFG"
                        THEN drop_mask \cup {wdata} ELSE drop_mask
      /\ mask_fly' = drop_mask
      /\ awvalid' = (awvalid /\ ~awready)
      /\ wvalid' = (wvalid /\ ~wready)

\* The register that the drain loop reads after this one (drain_events and
\* read_event): the payload only when the event has one.
NextReg(reg, value) ==
  CASE reg = "STATUS"  -> IF value.empty THEN "STATUS" ELSE "EVENT"
    [] reg = "EVENT"   -> IF value.entry # <<>> /\ value.entry[1].code \in HasData
                            THEN "DATA_HI" ELSE "TS_HI"
    [] reg = "DATA_HI" -> "DATA_LO"
    [] reg = "DATA_LO" -> "TS_HI"
    [] reg = "TS_HI"   -> "TS_LO"
    [] reg = "TS_LO"   -> "POP"

\* A load returns to the processor.
PsLoaded ==
  /\ busy' = FALSE
  /\ pc' = NextReg(pc, rdata)
  /\ got' = IF pc = "STATUS" THEN got ELSE Append(got, <<pc, rdata.entry>>)
  /\ UNCHANGED <<todo, collected>>

\* A store is answered: one more code masked, or one event popped and handed
\* on to the publisher.
PsStored ==
  /\ busy' = FALSE
  /\ IF pc = "POP"
       THEN /\ pc' = "STATUS" /\ got' = <<>>
            /\ collected' = Append(collected, got)
            /\ UNCHANGED todo
       ELSE /\ todo' = Tail(todo)
            /\ pc' = IF todo' = <<>> THEN "STATUS" ELSE pc
            /\ UNCHANGED <<got, collected>>

\* posedge s_axi_aclk.
AxiClk(rready, bready) ==
  /\ ReadChannel(rready)
  /\ WriteChannel(bready)
  /\ Fifo!ReadEdge(pop)
  /\ CASE rvalid /\ rready -> PsLoaded
       [] bvalid /\ bready -> PsStored
       [] OTHER -> UNCHANGED <<ps, collected>>
  /\ UNCHANGED <<mask_ff1, drop_mask_rx, event_count, null_count, filtered_count, gap>>
  /\ UNCHANGED <<aw_todo, w_todo, accepted, lost, misfiltered>>

Next ==
  \/ RxClk
  \/ PsIssue \/ PresentAW \/ PresentW
  \/ \E rready, bready \in BOOLEAN : AxiClk(rready, bready)

Spec == Init /\ [][Next]_vars

(***************************************************************************)
(* The AXI clock runs, the interconnect presents what it accepted and      *)
(* takes the answers, the loop goes on, and a word in the FIFO is seen     *)
(* some day (FlagsFall of AsyncFifo). Nothing makes events arrive.         *)
(***************************************************************************)
Fairness ==
  /\ WF_vars(PsIssue) /\ WF_vars(PresentAW) /\ WF_vars(PresentW)
  /\ WF_vars(AxiClk(TRUE, TRUE))
  /\ SF_vars(AxiClk(TRUE, TRUE) /\ ~empty')

FairSpec == Spec /\ Fairness

-----------------------------------------------------------------------------
\* The registers that an event's readout goes through.
FieldsOf(word) ==
  <<"EVENT">> \o (IF word.code \in HasData THEN <<"DATA_HI", "DATA_LO">> ELSE <<>>)
              \o <<"TS_HI", "TS_LO">>

\* The readout of one event: every field is read from that event's entry.
ReadoutOf(word) == [i \in DOMAIN FieldsOf(word) |-> <<FieldsOf(word)[i], <<word>>>>]

\* Every event that the FIFO accepted reaches the publisher once, in order
\* and whole: no field comes from a neighbour, no POP discards an unread
\* event and none leaves a read one behind (readout_common.py:211-224,
\* aclk_readout_axi.sv:205-224, 261-277).
CollectedExactlyOnce ==
  LET done == Len(accepted) - Len(queue)
  IN  /\ queue = SubSeq(accepted, done + 1, Len(accepted))
      /\ Len(collected) \in {done - 1, done}
      /\ collected = [i \in 1 .. Len(collected) |-> ReadoutOf(accepted[i])]
      /\ Len(collected) < done => pc = "POP" /\ got = ReadoutOf(accepted[done])
      /\ got # <<>> /\ Len(collected) = done =>
           queue # <<>> /\ IsPrefix(got, ReadoutOf(Head(queue)))

\* The ledger of the statistics report: what EVENT_COUNT counted has been
\* collected, is being collected, is in the FIFO, or was lost, and a loss
\* raises the overflow flag (aclk_readout_axi.sv:156-169).
LedgerBalances ==
  /\ event_count = Len(accepted) + lost
  /\ overflow <=> lost > 0

\* A mask write is quasi-static configuration: "a transient during a mid-run
\* change at worst mis-filters one event" (aclk_readout_axi.sv:98). After
\* each code's bit is set at most one event of a masked code gets through.
AtMostOneMisfiltered == misfiltered <= Len(DropCodes)

\* Every event that the FIFO accepted is collected some day: every load and every
\* store is answered, whichever of address and data comes first
\* (aclk_readout_axi.sv:238-277, readout_common.py:211-224).
EventuallyCollected ==
  \A n \in 1 .. MaxEvents : (Len(accepted) >= n) ~> (Len(collected) >= n)
=============================================================================
