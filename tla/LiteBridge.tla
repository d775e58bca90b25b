----------------------------- MODULE LiteBridge -----------------------------
(***************************************************************************)
(* ACLK events mirrored as ACLK-Lite: aclk_lite_bridge takes the events    *)
(* of the link through a FIFO to the encoder's clock and hands them one at *)
(* a time to aclk_lite_encoder, whose cell engine never stops; clk_rcv at  *)
(* the far end assembles the bytes again.  The FIFO is BoundedFifo.        *)
(*                                                                         *)
(* A step is a clock of either side.  A byte is a sequence of DataBits     *)
(* bits, a packet one of Full bytes, the last two of them placeholders; a  *)
(* word of the FIFO is the bytes of its event and data.  The receiver's    *)
(* serdec gives one bit a cell, 1 when the line turned in mid-cell; noise  *)
(* turns a bit over.                                                       *)
(***************************************************************************)
EXTENDS Integers, Sequences, SequencesExt, FiniteSets

CONSTANTS Depth,            \* of the FIFO: 16 in the code
          DataBits,         \* in a byte: 8
          Full,             \* bytes of a packet: 12; the framer counts them in four bits
          SamplesPerCell,   \* 8
          Words,            \* what the receiver of the link can deliver
          MaxEvents, MaxFlips

ASSUME LiteAssumption ==
    /\ Depth \in Nat \ {0} /\ DataBits \in Nat \ {0} /\ Full \in 5..15
    /\ SamplesPerCell \in Nat /\ SamplesPerCell % 2 = 0 /\ SamplesPerCell > 2
    /\ Words \subseteq [1..Full - 2 -> [1..DataBits -> {0, 1}]]
    /\ MaxEvents \in Nat /\ MaxFlips \in Nat

VARIABLES queue, full, empty, overflow,   \* the FIFO
          dropped,   \* dropped_count
          br,        \* the bridge: st, rd_en, enc_start, and the word at the encoder's inputs
          enc,       \* the encoder's cell engine
          fr,        \* the byte framer, and whether its strobes are up
          owed,      \* words accepted and not yet on the line
          line,      \* the last word put on the line, what noise did to it, got once delivered
          idle,      \* idle cells in a row since the noise, up to Settled for good
          events, flips
vars == <<queue, full, empty, overflow, dropped, br, enc, fr, owed, line, idle, events, flips>>

Fifo == INSTANCE BoundedFifo WITH Data <- Words

Byte(bit) == [i \in 1..DataBits |-> bit]
Settled == DataBits + 3               \* by then the framer waits for a start again
NoWord == [i \in 1..Full - 2 |-> Byte(0)]
Parity(byte) == Cardinality({i \in DOMAIN byte : byte[i] = 1}) % 2

\* A frame: each byte behind a start bit and before its parity, MSB first.
ByteOf(word, i) == IF i <= Full - 2 THEN word[i] ELSE Byte(0)
BitOf(byte, p) == IF p = 0 THEN 0 ELSE IF p <= DataBits THEN byte[p] ELSE Parity(byte)
FrameBits(word) ==
    [k \in 1..Full * (DataBits + 2) |->
        BitOf(ByteOf(word, ((k - 1) \div (DataBits + 2)) + 1), (k - 1) % (DataBits + 2))]

Init ==
    /\ Fifo!FifoInit /\ dropped = 0
    /\ br = [st |-> "idle", rd_en |-> FALSE, start |-> FALSE, word |-> NoWord]
    /\ enc = [pending |-> FALSE, busy |-> FALSE, bits |-> <<>>, idx |-> 1, cnt |-> 0, level |-> 1, half |-> 1]
    /\ fr = [st |-> "idle", cur |-> <<>>, n |-> 0, bad |-> FALSE, buf |-> <<>>, event |-> <<>>, error |-> FALSE]
    /\ owed = <<>> /\ line = [word |-> NoWord, noise |-> "none", got |-> TRUE]
    /\ idle = Settled /\ events = 0 /\ flips = 0

(******************************** rx_clk ***********************************)
IsReal(word) == word[2] # Byte(1)

RxClk(valid, word) ==
    LET real == valid /\ IsReal(word)
    IN  /\ Fifo!WriteEdge(real /\ ~full, word)
        /\ dropped' = IF real /\ full THEN dropped + 1 ELSE dropped
        /\ owed' = IF real /\ ~full THEN Append(owed, word) ELSE owed
        /\ events' = IF valid THEN events + 1 ELSE events
        /\ UNCHANGED <<br, enc, fr, line, idle, flips>>

(******************************* enc_clk ***********************************)
\* Mutant: the encoder is taken to be busy as soon as it was started.
NextStHasty(b, busy) ==
    CASE b.st = "idle"      -> IF ~empty /\ ~busy THEN "latch" ELSE "idle"
      [] b.st = "latch"     -> "start"
      [] b.st = "start"     -> "wait_done"
      [] b.st = "wait_done" -> IF busy THEN "wait_done" ELSE "idle"

\* The dispatch: pop, latch, start, wait for busy, wait for its end.
NextSt(b, busy) ==
    CASE b.st = "idle"      -> IF ~empty /\ ~busy THEN "latch" ELSE "idle"
      [] b.st = "latch"     -> "start"
      [] b.st = "start"     -> "wait_busy"
      [] b.st = "wait_busy" -> IF busy THEN "wait_done" ELSE "wait_busy"
      [] b.st = "wait_done" -> IF busy THEN "wait_done" ELSE "idle"

BridgeClk(b) ==
    [st |-> NextSt(b, enc.busy),
     rd_en |-> b.st = "idle" /\ ~empty /\ ~enc.busy,
     start |-> b.st = "start",
     word |-> IF b.st = "latch" THEN Head(queue) ELSE b.word]

CurBit(e) == IF e.busy THEN e.bits[e.idx] ELSE 1
CellEnds == enc.cnt = SamplesPerCell - 1
FrameStarts == CellEnds /\ ~enc.busy /\ enc.pending
LastBit(e) == e.idx = Len(e.bits)

\* A start is kept until the cell's end.  Mutant: it is not.
PendingNextShort(e) == br.start /\ ~e.busy
PendingNext(e) == ~FrameStarts /\ (e.pending \/ (br.start /\ ~e.busy))

\* The cell engine; a frame is taken from the inputs at its start.
EncoderClk(e) ==
    [pending |-> PendingNext(e),
     busy |-> FrameStarts \/ (e.busy /\ ~(CellEnds /\ LastBit(e))),
     bits |-> IF FrameStarts THEN FrameBits(br.word) ELSE e.bits,
     idx |-> IF ~CellEnds \/ ~e.busy THEN e.idx ELSE IF LastBit(e) THEN 1 ELSE e.idx + 1,
     cnt |-> (e.cnt + 1) % SamplesPerCell,
     level |-> IF e.cnt = 0 \/ (e.cnt = SamplesPerCell \div 2 /\ CurBit(e) = 1) THEN 1 - e.level ELSE e.level,
     half |-> IF e.cnt = SamplesPerCell \div 2 THEN e.level ELSE e.half]

(****************************** the framer *********************************)
\* A byte is whole: even parity makes or breaks the frame, and the buffer keeps Full bytes.
\* Mutant: the last byte alone decides.
EndByteLast(f, bit) ==
    [f EXCEPT !.st = "peek", !.bad = Parity(f.cur) # bit, !.n = (@ + 1) % 16,
              !.buf = IF Len(@) = Full THEN Append(Tail(@), f.cur) ELSE Append(@, f.cur)]
EndByte(f, bit) ==
    [f EXCEPT !.st = "peek", !.bad = @ \/ Parity(f.cur) # bit, !.n = (@ + 1) % 16,
              !.buf = IF Len(@) = Full THEN Append(Tail(@), f.cur) ELSE Append(@, f.cur)]

\* An idle cell after a byte ends the frame: 1 byte is TCLK, 2 an event, Full a packet.  The
\* newest bytes of the buffer count, and only as many as the count says, which may have wrapped.
EndFrame(f) ==
    LET ok == ~f.bad /\ f.n \in {1, 2, Full}
        size == Len(f.buf)
    IN  [f EXCEPT !.st = "idle", !.error = ~ok,
                  !.event = IF ~ok THEN <<>>
                            ELSE IF f.n = Full THEN SubSeq(f.buf, 1, Full - 2)
                            ELSE SubSeq(f.buf, size - f.n + 1, size)]

\* A start bit in idle.  Mutant: a bad frame makes the next one bad.
NewFrameBad(f) == [f EXCEPT !.st = "data", !.cur = <<>>, !.n = 0, !.buf = <<>>]
NewFrame(f) == [f EXCEPT !.st = "data", !.cur = <<>>, !.n = 0, !.bad = FALSE, !.buf = <<>>]

FramerBit(f, bit) ==
    LET g == [f EXCEPT !.event = <<>>, !.error = FALSE]
    IN  CASE f.st = "idle" /\ bit = 0 -> NewFrame(g)
          [] f.st = "idle" /\ bit = 1 -> g
          [] f.st = "data"   -> [g EXCEPT !.cur = Append(@, bit), !.st = IF Len(f.cur) = DataBits - 1 THEN "parity" ELSE "data"]
          [] f.st = "parity" -> EndByte(g, bit)
          [] f.st = "peek" /\ bit = 0 -> [g EXCEPT !.st = "data", !.cur = <<>>]
          [] f.st = "peek" /\ bit = 1 -> EndFrame(g)

Packet(f) == Len(f.event) = Full - 2

\* What noise has done: one data or parity bit of this frame is turned ("spoilt"), or more than
\* that, or the framer is out of step with the sender, as after a start bit lost or forged
\* ("astray" both, until the line has been quiet).
Noise(flip, quiet) ==
    CASE flip -> IF line.noise = "none" /\ fr.st \in {"data", "parity"} THEN "spoilt" ELSE "astray"
      [] ~flip /\ line.noise = "astray" /\ ~quiet -> "astray"
      [] ~flip /\ (line.noise # "astray" \/ quiet) ->
           IF FrameStarts THEN "none" ELSE IF line.noise = "astray" THEN "spoilt" ELSE line.noise

EncClk(flip) ==
    LET bit == IF (enc.level # enc.half) # flip THEN 1 ELSE 0
    IN  /\ flip => CellEnds /\ flips < MaxFlips
        /\ Fifo!ReadEdge(br.rd_en)
        /\ br' = BridgeClk(br) /\ enc' = EncoderClk(enc)
        /\ fr' = IF CellEnds THEN FramerBit(fr, bit) ELSE [fr EXCEPT !.event = <<>>, !.error = FALSE]
        /\ idle' = IF flip THEN 0 ELSE IF idle = Settled \/ ~CellEnds THEN idle
                   ELSE IF enc.busy THEN 0 ELSE idle + 1
        /\ line' = IF FrameStarts /\ owed # <<>>
                   THEN [word |-> Head(owed), noise |-> Noise(flip, idle' = Settled), got |-> FALSE]
                   ELSE [line EXCEPT !.noise = Noise(flip, idle' = Settled), !.got = @ \/ Packet(fr')]
        /\ owed' = IF FrameStarts /\ owed # <<>> THEN Tail(owed) ELSE owed
        /\ flips' = IF flip THEN flips + 1 ELSE flips
        /\ UNCHANGED <<dropped, events>>

Next ==
    \/ \E word \in Words : RxClk(events < MaxEvents, word)
    \/ \E flip \in BOOLEAN : EncClk(flip)

\* The encoder's clock runs, and an empty flag that stays wrong is refreshed in the end.
Spec == Init /\ [][Next]_vars /\ WF_vars(EncClk(FALSE)) /\ SF_vars(EncClk(FALSE) /\ ~empty')

(**************************** properties ***********************************)
\* The hand-off between the dispatch and the cell engine loses and doubles nothing: the frame the
\* engine takes from its inputs at a cell's end is the oldest event accepted and not yet sent.
FramedInOrder == FrameStarts => owed # <<>> /\ br.word = Head(owed)

\* What comes out at the far end is the packet on the line, whole and once, unless noise has put
\* the framer out of step: a data or parity bit turned over makes no event of any kind, neither of
\* this frame nor of the next.  (Out of step, a packet that was never sent may come out: parity is
\* all that is checked.)
PacketsAreSent ==
    [][fr' # fr /\ fr'.event # <<>> /\ line'.noise # "astray" => fr'.event = line.word /\ ~line.got]_vars

\* A frame that starts with the framer in step, and that no noise touches, has arrived by the
\* start of the next, even when one idle cell is all that lies between them.
CleanFramesArrive ==
    [][FrameStarts /\ enc' # enc /\ flips' = flips /\ line.noise = "none" => line.got \/ Packet(fr')]_vars

\* Every event the bridge accepted is put on the line and, noise apart, comes out.
EventuallyMirrored == <>[](owed = <<>> /\ (line.noise = "none" => line.got))
=============================================================================
