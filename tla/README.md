# TCLK/ACLK bridge: TLA+ models, checks and proofs

This directory models the FPGA pipeline under `rtl/` and the board-side
software under `deploy/` that reads it out, checks the models with TLC on small
instances and proves the safety of most of them with TLAPS for every instance.
`PROJECT.json` is the index: the components, the runs, the source lines that
each definition stands for, the hazards and the properties that cover them, a
seeded defect for every property, and the theorems.

## 1. The system

```
 TCLK line -> serdec -> deserializer -> readout 1 -+-> FIFO -> AXI slave -> drain loop -> publisher -> Redis
 (Manchester)                              |            ^                   (readout_common)  |          |
                                           v            |                                     |          v
                                       encoder       PPS, 10 MHz, arm                     stats log   archiver,
                                           |            |                                             loss check
                                     gearbox, GT     3 timebases  <-- AXI block <-- wr_time.py guard
                                           |            |
                                     gearbox, receiver  v
                                           +-------> readout 2 (same block) -> FIFO -> ...
                                           +-------> ACLK-Lite bridge
```

| component | state | operations | meets the others by | what is hard |
|---|---|---|---|---|
| Dual-clock FIFO (`async_fifo.sv`) | memory, two pointers, two Gray pointers in two-flop synchronizers, registered `full`, `empty`, `overflow` | a write edge, a read edge, a reset of either side | shared by receive clock and AXI clock, and by TCLK and ACLK-Lite clocks | a pointer sampled in flight, the wrap, a reset of one side only |
| Diagnostic counter crossing (`cdc_gray_count.sv`) | a counter, its Gray code in flight, two flops, a register | count, sample, decode | receive clock to AXI clock | the Gray code is not registered before it crosses |
| Readout block (`aclk_readout_core.sv`, `aclk_readout_axi.sv`) | FIFO, drop mask and its synchronizer, counters, AXI handshake registers | filter, count and push an event; AXI load; AXI store to POP or FILTER_CFG | AXI with the processor | stores whose address and data come apart; POP exactly once; five loads per event while events arrive |
| Drain loop (`readout_common.py`) | none between events | set filter; read STATUS; read fields; POP | the AXI block; a callback to the publisher | the head must not change between its field reads |
| Publisher (`redis_publish.py`, `redis_sink.py`) | bounded queue, batch, ID guard, statistics, watchdog | submit with eviction; batch; pipeline of XADDs; reconnect; stop | two threads; a Redis that fails or stalls; Ctrl-C, kill and relaunch | every interleaving of queue operations; the unknown fate of a broken pipeline; times that step back |
| Timebase copies (`wr_timebase.sv`) | `armed`, `sec`, `lk`, `cells`, `pps_seen`, two watchdogs | PPS edge, 10 MHz edge, arm, disarm, expiry | two pins, a word crossing each, three clock domains | spurious, missing and late edges; an arm and an edge in one clock; copies that differ |
| Word crossing (`cdc_word_pulse.sv`) | word, toggle, synchronizer, warm-up | send, sample, strobe, reset | AXI clock to each copy's clock | a reset with the toggle high; words too close |
| Timebase block and guard (`wr_timebase_axi.sv`, `wr_time.py`, `clock_guard.py`) | label register, status; last arm time | poll, audit, arm mid-second, disarm | AXI stores broadcast to the copies | an arm that goes stale before its PPS |
| TCLK receiver and fine time (`serdec4_9MHz.v`, `TCLK_DESERIALIZER2.v`, `tclk_readout_top.sv`, `tclk_fine_tdc.sv`) | sampler, shift registers, parity, lockout, edge capture, delay line | frame, parity error, stamp, align | strobes to readout and encoder | a hunt inside a bad frame; pairing an event with the stamp of its own edge |
| TCLK to ACLK encoder, gearboxes, GT receiver, recovery FSM (`aclk_tclk_encoder.v`, `gearbox_96_to_16.v`, `GEARBOX_16_TO_96.v`, `ACLK_REV.v`, `aclk_pipeline_bd_top.v`) | hold register, counters in RAM, packet schedule; lane, sequence counter, CRC pipeline; recovery state | store, sweep, pack; align, assemble, check, strobe; search, lock, lose, recover | two clock domains, a fibre, resets | an event in the clock of a packet; a damaged or forged comma; recovery in the middle of a packet |
| ACLK-Lite bridge and its receiver (`aclk_lite_bridge.v`, `aclk_lite_encoder.sv`, `clk_rcv.sv`, `clk_byte_framer.sv`) | FIFO, hand-off FSM, pending latch, cell engine; byte and packet framing | push, pop, start, cell; bit, byte, packet | FIFO, a serial line | a late busy; a flipped sample that makes frame ends |
| Archiver (`stream_archive.py`) | cursor file, day file | drain a stream in pages, roll, save, restart | a stream that Redis trims; `run_pipeline.sh` | a crash between write and save; trimmed entries |
| Smoke test (`redis_smoketest.py`) | a sink and a connection of its own, its keys | submit, wait, read the watchdog, read back, delete | the sink's writer thread; the server | a field between HSET and HEXPIRE; commands that run late |
| Statistics log and report (`stats_log.py`, `stats_report.py`, `plot_stats.py`) | the log file | snapshot, find the run, reconcile | hardware and software counters read one after the other | restarts beside a readout that goes on |
| Loss check and analysis (`verify_no_loss.py`, `qa_report.py`, `gps_calibrate.py`, `tclk_faithfulness.py`, `marker_timing.py`, `supercycle_plot.py`, `wr_pps_live.py`, `plot_pps_log.py`) | none | functions of streams, archives and logs | what a capture left behind | lost, late and repeated markers; restarts; trimmed streams |
| Consoles, figures, build scripts | none that outlives a call | printing, drawing, synthesis | the register block, files | one reader owns the FIFO at a time |

### What makes each component correct

* FIFO: words come out once, in order; `full` and `empty` never lie in the unsafe
  direction and never stay wrong; a synchronizer never holds a pointer the other
  side did not have.
* Counter crossing: a read is a number the counter had, or the bound on its error
  is known; after the last event the read is exact.
* Readout and drain loop: each accepted event is collected exactly once, whole
  and in order; each lost one is counted and flagged; each bus access ends.
* Publisher: each drained event is published, counted as dropped, or still held;
  no entry twice; IDs rise in every stream; a stop always ends the writer.
* Word crossing and timebase: no word torn, doubled, replayed after a reset; no copy
  gains a second from a glitch; all copies return to true time; a pair of
  registers is one moment; a loss of lock is never cleared unseen.
* TCLK receiver: each frame is answered once, with its byte and the stamp of an edge of its own.
* Encoder and link: one packet per event with the event's own count; nothing is
  delivered that was not sent; after a fault the link comes back.
* Bridge: events are framed in order, none lost or sent twice; a data or parity bit turned
  over harms its own frame and no later one; a framer out of step finds back on a quiet line.
* Archiver: the cursor passes over nothing that the stream still has; what a restart
  repeats is what was not saved.
* Smoke test: a pass is true, and it leaves nothing behind.
* Reports: what a tool calls lost was lost; a restart is no loss; markers keep their slots.

## 2. The modules

| module | models | state and actions |
|---|---|---|
| `GrayCode` | Gray code and its inverse as in `async_fifo.sv:73` and `cdc_gray_count.sv:39`, a code as the set of the bits that are one; what a capture of a code in flight may read | pure operators, no recursion |
| `BoundedFifo` | what a FIFO promises: a queue with conservative flags | one write edge and one read edge |
| `AsyncFifo` | `async_fifo.sv` with `synchronizer.sv` | `WrClk` and `RdClk` are the `always_ff` blocks of the two domains; `wr_fly`, `rd_fly` hold the pointer before a change that the other domain's next edge may meet bit by bit |
| `GrayCount` | `cdc_gray_count.sv` | `GraySrcClk`, `GrayDstClk`. The XOR gates of an unregistered code may be caught with any mixture of the old and new bits of the counter |
| `WordChannel` | what a word-plus-pulse crossing promises | send, deliver, down, up |
| `CdcWordPulse` | `cdc_word_pulse.sv` with `synchronizer.sv` | source edges with and without a word, destination edges, its asynchronous reset, its clock running or standing still in reset |
| `ReadoutAxi` | `aclk_readout_axi.sv`, `aclk_readout_core.sv`, and `drain_events`, `read_event`, `apply_drop_filter` of `readout_common.py` | the receive clock, the AXI clock (all `always_ff` parts of one edge together), the interconnect (address and data of a store apart, responses taken late), the processor (one access at a time) |
| `TclkReceiver` | the TCLK front end up to the stamped event, and a line (`tb/tclk_tx_model.py`) that loses edges and flips parity bits | one 200 MHz period a step; the 80 MHz sampling clock ticks in two of five, once with that clock and once in the middle of its period; the line is in any alignment to them (`src.phase`, `src.part`) |
| `AclkEncoder`, `AclkReceiver`, `AclkLink` | encoder with transmit gearbox; receive gearbox, receiver and recovery FSM; the two over a fibre with faults | the registers of each block are one record, a clock is a function of it; `AclkLink` adds TCLK events, `Damage`, `Forge`, `Slip`, `TxReset` and the ledger of what is owed |
| `LiteBridge` | bridge, serial encoder, line, byte framer | a step is a clock of either side |
| `WrTime` | `wr_timebase.sv` (copies), the store and broadcast part of `wr_timebase_axi.sv`, `cmd_guard`, `cmd_arm`, `arm --force` and `disarm` of `wr_time.py`, `clock_guard.py` | `Tick` moves time by a fraction of a second and runs the watchdogs; `Clk` is a clock edge of a copy that meets a PPS edge, a word, or both; `Poll`, `Look`, `Store` are the guard; the system clock may be wrong until chrony disciplines it |
| `WrTimeAxi` | `wr_timebase_axi.sv`, and the processes that read and write it | read and write channels, the SEC_NOW latch, `lost_lock`, the lock synchronizers |
| `RedisSink` | `redis_sink.py`, `on_event` and `main` of `redis_publish.py`, the relaunch of `run_pipeline.sh` | main thread, writer thread, Redis, operator. Each queue operation, flag test and command of a pipeline is a step |
| `SmokeTest` | `redis_smoketest.py` on the same sink | the test's main thread, beside the writer of `RedisSink` |
| `Archive` | `stream_archive.py` in follow mode | XADDs with trimming, pages, day files, the cursor, errors, crash and restart at any step |
| `Reports` | what the offline tools decide and count | pure operators on sequences of stamps, counts and snapshots |
| `Capture` | readout, publisher and statistics log as a source of what `Reports` reads | slots with an event each, the drain thread, Ctrl-C between POP and hand-over, batches that fail or are cut, kills, restarts, a second reader in between |
| `GrayCode_proofs`, `AsyncFifo_proofs`, `Crossings_proofs`, `RedisSink_proofs`, `Aclk_proofs`, `Drains_proofs`, `WrTime_proofs`, `Capture_proofs` | theorems (section 4) | `Crossings_proofs` is about `CdcWordPulse` and `GrayCount`, `RedisSink_proofs` also about `SmokeTest`, `Aclk_proofs` about `AclkLink` and `LiteBridge`, `Drains_proofs` about `ReadoutAxi` and `Archive`, `WrTime_proofs` also about `WrTimeAxi`, `Capture_proofs` about `Capture` and `Reports` |
| `MCAsyncFifo`, `MCCrossings`, `MCDrains`, `MCRedisSink`, `MCLiteBridge`, `MCWrTime`, `MCStamps`, `MCCapture` | instances for TLC | `MCCrossings`, `MCDrains` and `MCStamps` hold two independent models each: a behaviour is one of either, so that no product is built |

How they compose. `AsyncFifo` implements `BoundedFifo` (checked and proved), and
`ReadoutAxi` and `LiteBridge` are built on the actions of `BoundedFifo`, so they are checked
on what the FIFO is known to promise. `CdcWordPulse` implements `WordChannel` (checked and
proved), and `WrTime` delivers its arm and disarm words with that contract: once,
whole, or lost while the receiver is down. `AclkLink` joins encoder and receiver.
`SmokeTest` runs on `RedisSink`'s own writer. `Capture` joins a coarse readout and a coarse
publisher, whose details are in `ReadoutAxi` and `RedisSink`, with the tools of `Reports`.

### Abstractions

* Words, event codes and payloads are model values or small sets. Timestamps of
  the publisher are small naturals in any order, 0 standing for UNSYNC. Whether an
  event carries a payload depends on its code.
* A change in flight is caught bit by bit at one destination edge at most: the
  two-flop synchronizers are assumed to do their work (metastability is resolved to
  either value), and the next edge finds it settled.
* `CdcWordPulse`: words are `Spacing` destination clocks apart, as the contract in `cdc_word_pulse.sv:15-17` asks of
  the sender; what is checked and proved is that this is enough. Words that come faster, which are lost silently, are not modelled.
* The FIFO and the bridge are reset at power-up, both sides together. The pipeline top
  resets the write side alone on a GT relock (section 5).
* `TclkReceiver`: the two clocks have the fixed ratio of the 80 MHz build, and the line any alignment to
  them that a register can tell: 15 of them, each kept for a whole behaviour, since an oscillator drifts slowly.
  Of the four quarters in which `tclk_fine_tdc.sv` places an edge, the model tells the part of the period that decides
  which clock samples it first; the number of the quarter (`tclk_fine_decode.sv`) is left out.
* `AclkLink`: a CRC fits its own frame and no other, so that a collision is left out;
  TCLK events are six clocks apart at least, where the board has 75. The encoder needs no more, and
  events that come so fast meet it in every state, in its sweep as well.
* `LiteBridge`: what noise does to a cell is that its bit is turned over, at a cell's end; the
  biphase samples within a cell are not. A word is any sequence of bytes, of any number of bits.
* `WrTime` keeps seconds relative to the true second, and ticks instead of
  10 MHz cells: a copy's error is `TimeErr`. The value of `sec` in an unlocked copy
  and of `arm_sec` in a disarmed one, which nothing reads, is normalised to 0.
  The TCLK copy has the reset of the monitor, so two copies stand for three.
  That a next arm is at least `arm_retry` away is weakened to one tick.
* `WrTimeAxi`: the processor takes each response at once, as one load at a time does.
* `Archive`: a process crash loses what Python had not flushed and nothing else; a power
  loss is not modelled.
* `SmokeTest` submits two events where the code submits three; its queue is larger than that.
* `Capture`: one code, one event per slot, the hardware counters read at rest but for STATUS,
  which is read before them. Neither the log nor the streams act on anything, so a
  behaviour keeps one of them. The records of a publisher that is killed or that ends are gone.
* `Reports`: integer times. The slope is compared as a fraction, without rounding.

## 3. The runs

Every run is exhaustive within its bounds; each property of a passing run has a seeded defect of
a mapped definition (`mutants`) that makes it fail.

| run | instance | shows |
|---|---|---|
| `async_fifo` | depth 4, two words, 110 080 states | `FlagsConservative`; `CodesAreReal`; the refinement of `BoundedFifo`; both flags fall again (`FlagsFall`) |
| `crossings` | two words with spacing 3; a counter of 3 bits; 41 429 states | `NoReplay` and the refinement of `WordChannel`; `ErrorConfinedToCarry`: exactly how wrong a read can be; a word and a resting count arrive |
| `drains` | FIFO of 2, 3 events of 3 codes, one masked; a stream that keeps 2, pages of 2, 2 days, 4 entries, an error and a crash; 146 460 states | `CollectedExactlyOnce`, `LedgerBalances`, `AtMostOneMisfiltered`, every accepted event is collected; `NothingIsPassedOver`, `RepeatsOnlyUnsaved`, every entry is archived or trimmed |
| `redis_sink` | queue 1, batch 2, 2 events, 2 starts, 2 codes, 674 815 states | `SinkKeepsItsLedger`, `AtMostOnceInOrder`, `GuardCoversServer`, `StopEnds`; `SmokeToldTrue`, `SmokeLeavesNothing` |
| `smoke_ttl` | the same, violation | disagreement 2 |
| `wr_time` | 5 ticks to the second, two copies, up to 3 faults, 377 832 states | `NeverASecondFast`, `AuditCoversCopies`, `Converges` |
| `stamps` | 2 data bits, 15 alignments, 1 fault; two readers, 2 ns to the second, 2 seconds, 1 fall, 1 write; 1.75 million states, symmetric in the readers | `NothingInvented`, `AnsweredInTime`, `StampOfItsFrame`; `PairIsOneMoment`, `LossShows` |
| `stamp_edge` | the receiver without faults, violation | disagreement 3 |
| `aclk_link` | 2 codes, 2 events 6 clocks apart or more, 1 fault, windows of 2, 2.4 million states | `SentAsCounted`, `DeliveredAsSent`, `SentAndDeliveredInTime`, `RelocksInTime` |
| `aclk_crc` | the same, violation | disagreement 1 |
| `lite_bridge` | FIFO of 2, bytes of 2 bits, packets of 5, 3 events, 1 bit turned over, 594 000 states | `FramedInOrder`, `PacketsAreSent`, `CleanFramesArrive`, `EventuallyMirrored` |
| `reports` | FIFO of 1, queue and batch of 2, 2 starts; logs of 3 slots, streams of 6; 1.55 million states | `ReportTellsTheLoss`, `LossCheckIsSound`, `MarkersToldTrue` |

Why the bounds are enough. A FIFO of depth 4 has pointers of three bits, so that every
kind of carry, the wrap and the full lap occur; the theorems cover every other depth. Three
bits do the same for the counter. In `ReadoutAxi` a FIFO of 2 with 3 events fills, overflows
and drains while the processor is between any two accesses; a third code is filtered
while the mask changes. In `Archive` a stream that keeps 2 of 4 entries is trimmed before,
within and after a page. In `RedisSink` a queue of 1 makes every submit meet a full
queue, a batch of 2 breaks between its records and between the three XADDs of one, and two starts
are needed for a guard that forgets; equal, rising and falling times all occur with
two times. In `WrTime` 5 ticks put the filter at 4, the PPS timeout at 6
and the arm window at 2 to 3, which keeps the order of the real 0.9 s, 1.1 s and
0.1 to 0.8 s and the relation that makes them work: an arm taken in the window cannot meet
an edge that the filter would let through early (`SecTicks < 2 * MinCells` among the assumptions). Two ticks without the 10 MHz leave 3 cells of 5
and make a genuine edge fail the filter. Three faults allow any pair to
be followed by one more; one spurious edge is the bound of `NeverASecondFast`,
since the code itself excepts the first edge after a reset
(`wr_timebase.sv:36-37`) and two spurious edges, the first right after a reset,
do add up to a second. In `AclkLink` the time bounds (`SendsIn`, `ArrivesIn`, `CutFor`, `Relock`)
are what the pipeline takes at worst, in link clocks; `Relock` is `LossWindow + RecoverLen` and eleven frames,
since a reset of the transmitter and a slip right after it can find the FSM in its search with good verdicts
still on their way: it locks on them with the GT out of alignment, and the loss window is run through as well
(two faults and other windows, tried beside the runs up to 3.6 million states, agree). Two data bits give `TclkReceiver` frames of
every parity, and the one fault may be a lost edge or a wrong parity bit (two of them, and a reset that ends
anywhere in a cell with the line at either level, tried beside the runs in 10.6 million states of the receiver alone, agree). In the run the reset ends at
the start of a cell with the line low; a frame with wrong parity or a lost edge turns the level of the later frames over. The registers meet both readers at once, or the stores and one reader at a time: their read and write
channels share no register (all of it at once, tried beside the runs in 1.54 million states, agrees). In `Capture` a FIFO of 1 loses an event as soon as the thread waits, and a batch of 2 is
larger than the report's tolerance; a late marker needs two good ones on each side,
and a fit four that are left, hence six slots.

`CHECK_DEADLOCK FALSE` is set where the processes really end: the publisher and the smoke test
after their stop (`redis_sink`, `smoke_ttl`), the capture after its last start (`reports`).

### Fairness

* FIFO, counter, crossing: the clocks run (`WF` of a clock edge). `ReadoutAxi` and `LiteBridge`,
  which see the FIFO as `BoundedFifo`, take from `FlagsFall` that a look at `empty` is not
  unlucky for ever (`SF` of a read edge with a fresh flag).
* `ReadoutAxi`: the AXI clock runs and the bus presents what was issued and takes
  responses; the drain loop is `while True` without an exit but Ctrl-C. The receive
  clock owes nothing. `EventGap`, at least 3 receive clocks, is an assumption of the module: an ACLK
  packet takes at least 6 and a TCLK frame far more.
* `LiteBridge`: the encoder's clock runs.
* `Archive`: the archiver takes its steps, and after a crash it is started again:
  `run_pipeline.sh:96-104` runs it in a `while true` loop. Redis owes nothing, and fails a bounded number of times.
* `RedisSink`, `SmokeTest`: the writer thread takes its steps. Redis, the main thread and the
  operator owe nothing; a blocking call of the client ends by its socket timeout.
* `WrTime`: time passes, the copies' clocks run out of reset, a relock ends, chrony
  disciplines the clock in the end, the guard polls
  for ever, and it looks at the clock every 20 ms (`wr_time.py:128-133`), hence `SF` of
  finding the middle of a second.

## 4. The proofs

Every theorem is about the specification that a run checks (`Spec`, `GraySpec`, `AxiSpec`, or the `MCSpec`
that chooses one of two models) and holds for all values of the constants that the modules' assumptions allow;
TLC evaluates these assumptions in the runs. The bounds (`MaxEvents`, `MaxRuns`, `Budget`, ...) are arbitrary
naturals in a theorem.

**`GrayCode_proofs`** (for every width). No two numbers share a code; half a ring ahead the two top bits are
inverted; a step of one, caught in flight, shows the old code or the new one; a code that gates compute,
caught in transition, reads right above the carry. The inductions over the bits go by the set of bits for
which a claim holds and its least element (`Induct`, `Descend`); `Least`, `Induct` and their like serve the
other modules too. What the provers do not know of powers of two is the hypothesis `Powers`: 2^i is positive
and doubles with i.

**`AsyncFifo_proofs`** (for every depth and every set of words). `FlagsConservative` is not inductive: nothing
in it says how old the synchronized pointers are. The invariant `IInv` measures every pointer value in the
design by how far it lies behind `wr_bin` on the ring of `2*DEPTH` values, and states that they form one
chain,

    wr_bin, its value in flight, first flop, second flop, rd_bin, its value in flight, first flop, second flop

of non-decreasing distance that is at most `DEPTH` in all, that each code in a flop is the code of a pointer,
and that a low flag leaves room in the part of the chain its domain can see. A clock edge moves some members
of the chain by one or replaces one by its neighbour, which the lemmas on `Dist` and `Succ` turn into
arithmetic. From it: `TypeCorrect`, `NoOverwriteNoUnderflow`, `SynchronizedCodesAreReal`, and `Refinement`:
the queue of the abstract FIFO is the memory between the pointers, and each edge is an edge of `BoundedFifo`
or a stutter. Assumed: `AddrWidthAssumption` (a width of at least 2) and `PowersOfTwo`, which is `Powers` for
the pointers' width; `MCAsyncFifo` evaluates it there and for every width from 3 to 12, those of the design
included.

**`Crossings_proofs`**. The word with its toggle, for every set of words and every spacing of at least 3:
`IInv` states that the toggle's changes stay apart in the chain of flops: from the first warm-up clock on, the
flops hold the new level from the source up to some point and the old one beyond, and the `gap` since the last
word bounds how far that point can be. Hence a new word finds the last flop settled (this is where the
contract's three clocks are needed), the word is stable when it is sampled, and what a reset adopts never
strobes. `ResetReplaysNothing` and `Refinement` follow, the latter with the word on its way defined as the
difference between the toggle and the level that the last flop will hold when the warm-up ends (`Adopted`).
The counter, for every width: `GrayInv` has each capture be one of a transition that the counter made (`met`),
and `CountConfined` follows from what a capture in transition can decode to. Assumed: `CountPowers`, the
`Powers` of this width, evaluated by `crossings`.

**`Drains_proofs`**. The board's loop (`ReadoutInvariance`): `Handshake` says which of a load and the two
halves of a store is under way, so that a store acts once and no load meets one; `Collects` says where the
entry is that the processor has in hand, and that what it has read of it is all of that one entry, a POP that
has acted but not yet answered included. `ExactlyOnce` and `LedgerAlwaysBalances` follow for every depth and
any number of events. `Masks` charges an event that is let through to the bit that was then on its way: a bit
at a time, since `EventGap >= 3` lets no second event in before the mask has settled (`OneMisfiltered`). The
archiver (`ArchiveInvariance`): entries are numbered, the page is a run of them that starts behind the drain,
and what is behind any of the three cursors is archived or was trimmed, whatever step a crash comes at.
`NothingPassedOver` follows, and the action property `OnlyUnsavedRepeats`.

**`RedisSink_proofs`** (for every set of codes, queue and batch size, any times, faults and starts; the
publisher and the smoke test). `LedgerConserved` needs where the two threads can be (`Places`, `Clients`).
Order needs more: the records still to be written are in line over batch, queue and hand; the IDs of all
entries that are stored, in the pipeline, **or in a connection that was given up and may still run** agree
with the order of their events (`AllAgree`), are covered by the guard's memory (`Covered`), and are older than
all that waits (`InTurn`). From these `LedgerCloses`, `AtMostOnce`, `GuardCovers`. The smoke test's events
follow each other without a gap through queue and batch (`Consecutive`), so that a count of `N` published ones
is its own `N`, and each of its findings still stands when it is used (`Found`): `ToldTrue`, `LeavesNothing`.
Assumed of the smoke test: its events are typed and their times rise, as the code makes them.

**`Aclk_proofs`**. The encoder's side of `AclkLink` (`LinkInvariance`, for any number of codes, any spacing of six
clocks or more, any faults and resets of the transmitter): an event's age tells where it is. Up to two clocks it is
in a flop of the crossing (`Crossing`), in the next three in a state of the FSM (`Counting`), then it waits for a
frame or is the one chosen (`Kept`), and `Pacing` ties the strobes between the choice and the first word to the
frame's six clocks. `Counted`: the RAM holds each code's count but for the event in hand, and behind the sweep's
counter it holds zeros, all of it in spite of what was there before a reset. `Owing` lists what is owed a frame: the
event chosen, the one that waits, the one in hand, with their ages. Six clocks are what the proof needs, so that no
event comes while one is in hand, and none is stored before the last one's frame has been chosen. `CountedFrames` and
`FramesInTime` (no event waits longer than the frame being sent) follow.
The return of the lock (`LockInvariance`, for all windows as well) says what is known of the receiver's side in
each clock since the last fault. While the GT is out of alignment (`Deaf`), garbage runs through the registers: after
eight clocks no good verdict is left, a search is not left for a lock any more, and in a lock the loss counter keeps
up with the clocks, so that a recovery begins `LossWindow + 9` clocks after the fault at the latest (`Recovering`). The
next comma then finds the GT free to align (`Audible`; `Starting` and `Framing` say that the transmitter, reset or not,
sends whole frames by then). From the frame after `Bound` clocks on the receiver is in step, on either lane, since
nothing resets it any more (`Together`, `LetAlone`), one frame later every verdict is good (`Presents`), and each adds
one to the pickup count: the fifth aligns it and the FSM locks (`PicksUp`). `LockReturns` follows.
The frames in flight (`FlightInvariance`) rest on both. They stand in the ledger by age, six clocks apart; one that met no
fault has seen no other fault either (`calm = Relock`), and in step its age tells where it is (`Matches`): in
the first register of the gearbox while its words come in, in the word being checked for the six clocks after, and
the strobe comes with the last of these (`Strobes`). So the readout gets the oldest frame's own packet before the
ledger has counted `ArrivesIn` clocks for it, and takes it off with all that was before it: `FramesArrive`
is the whole of `SentAndDeliveredInTime`. An invariant without `Strobes` is not inductive: a frame in the checked slot could stay there.
What is delivered (`PacketInvariance`) must also be traced through the clocks just after a fault, when words of two frames
may stand in the pipeline. On the sender's side no two packets owed are the same, and one that left is not owed again
(`Numbered`, `Past`); after a reset of the transmitter, when the numbers begin anew, the line is silent for ten clocks and its
next packet comes later than any that is still in a register (`Rebooted`, `Spent`). On the receiver's side each packet held,
in the gearbox's first register (`Register`), in the frame being assembled (`Filling`) or checked (`Stale`), was sent as many clocks
ago as its place says or fewer, so that no verdict can be taken for the packet that starts now (`Apart`). A frame that is complete
began six clocks before the comma that ended it, since a comma in between is a forged one, and none in its place a lost
one; it is still in flight while it is checked, and no other is (`Checking`, `Ours`). So a strobe is that of the frame
twelve clocks old, the oldest there is, unless `cut` says that a comma was cut less than `CutFor` clocks ago:
`OnlyWhatWasSent` is the whole of `DeliveredAsSent`. Without `Drained` (six clocks after a comma nothing of the frame
before it is left to check) the invariant is not inductive.
`LiteBridge` (for every depth, words, byte and packet lengths). `HandOff` says for each state of
the dispatch where the oldest word owed is: in the FIFO, in the register with a start on its way, or latched
as pending, and never in two of these. `InOrder` follows.
The far end (`FarEnd`, for any number of bits turned over): `Engine` has the cell engine send the frame of the
word on the line, `InStep` says what the framer has of it at each of its cells. Either it has every byte right
up to there (`Right`), or the frame is known to be bad, or exactly one bit of the byte in hand is wrong, which
its parity then tells (`Caught`: an even number of wrong bits would pass, and this is why a second flip in one
frame counts as `astray`). `Quiet` counts idle cells: a framer that was led out of step reads ones as data,
parity and a frame's end, and is back in `idle` before it has seen `DataBits + 3` of them, which is when
`Noise` takes it to be in step again. `WhatIsSent` and `WhatArrives` follow from what a step out of `InStep`
can give out. Assumed: `LiteAssumption`, among it that a packet's length fits the framer's four-bit count.

**`WrTime_proofs`** (any copies, any length of second, filter and arm window in the order of section 3; any
registers' readers). `NeverFast`, for any faults of which at most one is a spurious edge (the hypothesis
`MaxFaults["glitch"] <= 1`; two do add up to a second, section 3): labels are made within the arm window of
the second before (`Labels`), so that a locked copy's time is not ahead at all before a spurious edge, and by
less than the filter after it (`Ahead`), whose next edge is then rejected. Here `SecTicks < ArmLo + MinCells`
and `SecTicks < 2 * MinCells` are needed. `AuditIsEnough`: copies meet an edge and a word at different
moments, so that they are compared by what each WILL hold after both (`WillSec`, `WillLock`, ...), and are in
step in that (`InStep`) as long as nothing in `Undisturbed` has parted them. The registers: `SecondsKept` ties
the shared latch to the reader that was not disturbed, `LossOnItsWay` follows a loss through the flip-flops:
`NoTornPair`, `NoLossHidden`. Assumed there: "mon" names no replica.

**`Capture_proofs`** (any depth, queue and batch size, numbers of slots, snapshots and starts). A sum over a
sequence is the last of its partial sums (`PartialSums`), which turns what the tools add up into steps.
`StreamsInv`: stored, taken and queued records are in the order of their slots, any two are numbered by what
was handed over between them (`Chained`), and the run's own counter is ahead of each by what came after it
(`Ahead`). Adding up the steps of any retained end then counts the missing events: `LossCheckSound`. `LogInv`:
what the FIFO gave to others than this run (`Before`) does not change within a run, a run's first snapshot is
of its start, and each snapshot closes the account. So the difference of two snapshots is what was refused
between them, up to what the FIFO held and a cut event, which is all that the report sees: `ReportRight`, with
the restart it finds, the sum of its ledger, the verdict of the QA report on it and the curve of the figure.
Assumed: the tolerance of the tools is the FIFO's depth (`Depth = Residual`; it is 512 on the TCLK readout, which is
the one that is published, and 2048 on the ACLK readout, `aclk_pipeline_bd_top.v:475, 547`), and what else
`CaptureAssumption` and `ReportsAssumption` say.

Only model-checked, and why. Liveness: `Converges`, `StopEnds`, `EventuallyMirrored`, the arrivals, all of it
is out of this prover's reach. `NothingInvented`, `AnsweredInTime` and `StampOfItsFrame` of `TclkReceiver` count clocks
through a long pipeline of fixed shape, where TLC covers what a small instance has; their invariant is not
written yet. `MarkersToldTrue` is about sorted sequences and least-squares sums: `SortSeq` has no
definition that the provers know, and the rest would be inductions over data. `AclkLink`'s one other property,
in `aclk_crc`, is a disagreement.

## 5. Where the code and its words disagree

Shown by a run (the quotations are in `PROJECT.json`):

1. `aclk_crc`: "Only good frames are ever captured". After a damaged comma the receive gearbox presents the frame
   before it late, and loads its output again in the very clock in which the strobe of that good frame comes: what is
   handed over is a payload assembled since, which no CRC covers.
2. `smoke_ttl`: a watchdog field without an expiry is taken for an old server. The writer's HSET
   clears the expiry on every pass, and the test's HTTL may come between it and HEXPIRE.
3. `stamp_edge`: "This gives the coarse timestamp no resync jitter beyond the decode pipeline's own fixed latency"
   (`tclk_fine_tdc.sv:80-81`). The stamp is that of the edge held when the frame's strobe arrives. On a line of ones edges
   come every 50 ns, and the strobe's own latency, through the 80 MHz sampler and the 200 MHz clock, varies with the
   alignment of the line to the clocks: in 6 of the 15 alignments it is the edge one cell after the frame's end, in the
   others the next one (`LateStrobe`). The line drifts against the board's clocks, so a stamp may step by 50 ns. What does hold
   is `StampOfItsFrame`: for a given alignment it is the same edge after every frame, and never one of another frame.

Met while modelling, and described here with the property that bounds them:

* `aclk_readout_axi.sv:22` calls EVENT_COUNT the "events enqueued"; it counts the events that a full FIFO refused
  as well. The report's `missed_hw` relies on that (`ReportTellsTheLoss`).
* `aclk_readout_axi.sv:33-34` calls the counters "monotonic and glitch-free when read". The Gray code crosses
  unregistered; `ErrorConfinedToCarry` says how wrong a read can be.
* `redis_sink.py:16-18` says that XADD cannot fail for an ID. The guard's memory starts empty in each
  process, so after a relaunch an earlier time is refused; the refusal is counted (`SinkKeepsItsLedger`).
* `aclk_pipeline_bd_top.v:399-400` says that the copies stamp one timeline. A spurious edge that one copy resolves
  and another does not, with an arm pending over a missing edge, parts them by a second, and so does a long 10 MHz
  outage with a relock in it while a late or forced arm is pending; the guard's audit reads the monitor alone.
  `AuditCoversCopies` (see `Undisturbed`) and `Converges` say when the monitor does stand for all.
* `wr_timebase.sv:46-47` has the filter accept every genuine edge; a 10 MHz outage of a tenth of a second makes it
  reject one. `Converges` includes that outage.
* `async_fifo.sv:77-78` has the pointers gate what can be read. A reset of the write side in mid-run, which a GT relock
  causes (`aclk_pipeline_bd_top.v:292-299`), moves one pointer alone; `AsyncFifo` and its theorems do not cover it.
* `wr_time.py:57-58` calls its read of the pair atomic; the latch is shared, and a second process tears it.
  `PairIsOneMoment` is about undisturbed pairs.
* `aclk_tclk_encoder.v:5-7` has the encoder count and frame the decoded events it receives. After each reset of the
  transmitter it sweeps its counts for 256 clocks, and a TCLK event in that time gets neither a frame nor a count
  (`Heeds`). `SentAsCounted` is about the others.
* `docs/aclk-lite-framing.md:33` ends a frame with two terminal idle cells. The encoder owes the line one: an event
  that waits is started at the end of the first idle cell (`aclk_lite_encoder.sv:114-143`). The byte framer needs no more
  (`CleanFramesArrive`).
* `docs/aclk-lite-framing.md` and the note in `aclk_lite_encoder.sv:63-70` rely on the parity of each byte to tell errors. It
  tells any bit of a byte that was turned over (`PacketsAreSent`). A start bit lost or forged puts the framer out of step,
  and then, with bytes that fit, a packet comes out that was never sent: TLC shows one when `PacketsAreSent` leaves out `line.noise`.
* `qa_report.py:18-20` calls its LEDGER section the only one that can see a loss upstream. Its verdict is
  `ledger_ok`, and the hardware's loss is a term of the sum: what is left over is the batch in the writer's hands
  (`ReportTellsTheLoss`), so that it fails on a log that ends with a batch of more than the tolerance, and never for a loss.
* `verify_no_loss.py:9-15`: a loss at the end of the stream, or just before a restart, leaves no gap; the check counts
  no more than was lost, and may count less (`LossCheckIsSound`).
* `stats_report.py:46-48` cannot see a restart when the run before had drained nothing by its last snapshot.
* `plot_stats.py:35-53` does not look for restarts: its curve shows what an earlier run has drained as missing.
* `qa_report.py:257-269` sorts the markers and does not make them unique as `gps_calibrate.py` does: rows that the
  archiver repeated after a crash shift the later markers, and a short capture with a right clock fails (`RepeatsTell`
  in `MarkersToldTrue`).
* `redis_smoketest.py:178-181`: an exception at HTTL leaves its keys, and so do commands of a connection that was
  given up, when they run after the deletion; `SmokeLeavesNothing` is about the rest.

## 6. What the plan has left

1. The one-shot dump of the archiver (`--once`), the debounce of the 400 MHz build, the thermometer quarter of the fine time.
2. The reset of the receive domain in mid-run over `AsyncFifo` and `AclkLink` together.
3. `Pipeline`: an event's path from readout to archive as one abstract ledger that `ReadoutAxi`,
   `RedisSink` and `Archive` implement.
4. Proofs: the stamp of its own frame and the answer in time of `TclkReceiver`; more of `MarkersToldTrue`, slot
   arithmetic first (`SlotsOf` of a gap with one late end is the number of slots).

## 7. Not modelled

* Figures, histograms, residual statistics and the text of every report (`faithfulness_figure.py`, `fine_calibrate.py`,
  the drawing parts of the others): no decision depends on them.
* Console front ends (`aclk_read.py`, `tclk_read.py`, `tclk_flags_capture.py`, `tclk_filter.py`, `bench_drain.py`) beyond the
  loop they share, which is the other reader of `Capture`; `ra_consumer.py` prints what it reads.
* The timestamp counter, GT_CTRL, the lock and heartbeat registers, the packing of link status: copies and counters without a decision.
* The GT primitive, beyond its alignment and its commas.
* Build, simulation and launch scripts, test-bench runners, constraints. Of `run_pipeline.sh` the relaunch loops are modelled.
