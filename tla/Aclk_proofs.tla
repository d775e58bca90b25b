---------------------------- MODULE Aclk_proofs ----------------------------
(***************************************************************************)
(* Proofs about the two ways on which events leave the board as ACLK.      *)
(*                                                                         *)
(* AclkLink: the encoder turns each TCLK event into one frame, with the    *)
(* count of its code, in order and in time, for every number of codes and  *)
(* every spacing of six clocks or more, whatever the fibre does and        *)
(* however often the transmitter is reset.  From any fault the receiver    *)
(* and the recovery FSM are back in lock within Relock clocks, and a frame *)
(* sent from then on that meets no fault is delivered in time.  What the   *)
(* receiver delivers is what was sent, in order and once, but for the nine *)
(* clocks after a comma was lost or forged.                                *)
(*                                                                         *)
(* LiteBridge: for every depth of the FIFO, width of a byte, length of a   *)
(* packet and of a cell, any events and any noise.  The hand-off from the  *)
(* bridge's dispatch to the encoder's cell engine loses, doubles and       *)
(* reorders nothing.  What the framer at the far end gives out while it is *)
(* in step with the sender is the packet on the line, whole and once: no   *)
(* bit turned over in a byte or its parity makes an event of any kind.     *)
(* Every frame that the noise leaves alone arrives before the next one     *)
(* starts, and an idle line of DataBits + 3 cells brings a framer that was *)
(* led astray back in step.                                                *)
(***************************************************************************)
EXTENDS LiteBridge, AclkLink, SequenceTheorems, FiniteSetTheorems, TLAPS

TypeOK ==
    /\ queue \in Seq(Words) /\ owed \in Seq(Words)
    /\ full \in BOOLEAN /\ empty \in BOOLEAN
    /\ br.st \in {"idle", "latch", "start", "wait_busy", "wait_done"}
    /\ br.rd_en \in BOOLEAN /\ br.start \in BOOLEAN
    /\ enc.pending \in BOOLEAN /\ enc.busy \in BOOLEAN

\* The word at the encoder's inputs is the oldest one owed, the others are in the FIFO.
Held == owed # <<>> /\ br.word = Head(owed) /\ queue = Tail(owed)

\* Where the oldest word owed is, and what the cell engine knows of it, in each state of
\* the dispatch.
HandOff ==
    /\ br.rd_en <=> br.st = "latch"
    /\ ~empty => queue # <<>>
    /\ br.st \in {"idle", "latch", "wait_done"} => owed = queue /\ ~br.start /\ ~enc.pending
    /\ br.st = "latch" => ~empty /\ ~enc.busy
    /\ br.st = "start" => Held /\ ~br.start /\ ~enc.pending /\ ~enc.busy
    /\ br.st = "wait_busy" =>
         IF enc.busy THEN owed = queue /\ ~br.start /\ ~enc.pending
         ELSE Held /\ (br.start \/ enc.pending) /\ ~(br.start /\ enc.pending)

IInv == TypeOK /\ HandOff

-----------------------------------------------------------------------------
LEMMA Pop ==
    ASSUME NEW s \in Seq(Words), s # <<>>
    PROVE  Tail(s) \in Seq(Words) /\ Head(s) \in Words
    BY HeadTailProperties

LEMMA Push ==
    ASSUME NEW s \in Seq(Words), NEW w \in Words
    PROVE  /\ Append(s, w) \in Seq(Words) /\ Append(s, w) # <<>>
           /\ s # <<>> => Head(Append(s, w)) = Head(s) /\ Tail(Append(s, w)) = Append(Tail(s), w)
    BY AppendProperties

LEMMA RxKeeps ==
    ASSUME IInv, NEW valid, NEW word \in Words, RxClk(valid, word)
    PROVE  IInv'
    <1> USE DEF IInv, TypeOK
    <1>1. UNCHANGED <<br, enc, empty>>
        BY DEF RxClk, Fifo!WriteEdge
    <1>2. full' \in BOOLEAN
        BY DEF RxClk, Fifo!WriteEdge, Fifo!Flag
    <1>3. \/ queue' = Append(queue, word) /\ owed' = Append(owed, word)
          \/ queue' = queue /\ owed' = owed
        BY DEF RxClk, Fifo!WriteEdge
    <1>4. CASE queue' = Append(queue, word) /\ owed' = Append(owed, word)
        <2>1. TypeOK'
            BY <1>1, <1>2, <1>4, Push
        <2>2. queue' # <<>> /\ (owed = queue => owed' = queue')
            BY <1>4, Push
        <2>3. Held => Held'
            BY <1>1, <1>4, Push DEF Held
        <2>4. HandOff'
            BY <1>1, <2>2, <2>3 DEF HandOff
        <2> QED BY <2>1, <2>4
    <1>5. CASE queue' = queue /\ owed' = owed
        BY <1>1, <1>2, <1>5 DEF HandOff, Held
    <1> QED BY <1>3, <1>4, <1>5

\* What a clock of the encoder's side does to the FIFO, the dispatch and the engine.
LEMMA EncChanges ==
    ASSUME IInv, NEW flip \in BOOLEAN, EncClk(flip)
    PROVE  /\ br' = BridgeClk(br)
           /\ enc'.pending = (~FrameStarts /\ (enc.pending \/ (br.start /\ ~enc.busy)))
           /\ enc'.busy = (FrameStarts \/ (enc.busy /\ ~(CellEnds /\ LastBit(enc))))
           /\ queue' = IF br.st = "latch" THEN Tail(queue) ELSE queue
           /\ empty' \in BOOLEAN /\ (~empty' => queue' # <<>>)
           /\ br.st # "latch" => (empty' => empty)
           /\ owed' = IF FrameStarts /\ owed # <<>> THEN Tail(owed) ELSE owed
           /\ UNCHANGED full
    <1>1. enc' = EncoderClk(enc) /\ Fifo!ReadEdge(br.rd_en) /\ br' = BridgeClk(br)
        BY DEF EncClk
    <1>2. br.rd_en <=> br.st = "latch"
        BY DEF IInv, HandOff
    <1>3. br.st = "latch" => ~empty
        BY DEF IInv, HandOff
    <1>4. /\ enc'.pending = (~FrameStarts /\ (enc.pending \/ (br.start /\ ~enc.busy)))
          /\ enc'.busy = (FrameStarts \/ (enc.busy /\ ~(CellEnds /\ LastBit(enc))))
        BY <1>1 DEF EncoderClk, PendingNext
    <1>5. queue' = IF br.st = "latch" THEN Tail(queue) ELSE queue
        BY <1>1, <1>2, <1>3 DEF Fifo!ReadEdge
    <1>6. empty' \in BOOLEAN /\ (~empty' => queue' # <<>>) /\ (br.st # "latch" => (empty' => empty))
        BY <1>1, <1>2 DEF Fifo!ReadEdge, Fifo!Flag
    <1>7. owed' = IF FrameStarts /\ owed # <<>> THEN Tail(owed) ELSE owed
        BY DEF EncClk
    <1> QED BY <1>1, <1>4, <1>5, <1>6, <1>7 DEF EncClk, Fifo!ReadEdge

LEMMA EncKeeps ==
    ASSUME IInv, NEW flip \in BOOLEAN, EncClk(flip)
    PROVE  IInv'
    <1> USE DEF IInv
    <1>1. /\ br'.st = NextSt(br, enc.busy)
          /\ br'.rd_en = (br.st = "idle" /\ ~empty /\ ~enc.busy)
          /\ br'.start = (br.st = "start")
          /\ br'.word = IF br.st = "latch" THEN Head(queue) ELSE br.word
        BY EncChanges DEF BridgeClk
    <1>2. FrameStarts => br.st = "wait_busy" /\ ~enc.busy /\ enc.pending
        BY DEF FrameStarts, HandOff, TypeOK
    <1>3. TypeOK'
        <2>1. queue' \in Seq(Words) /\ owed' \in Seq(Words)
            BY EncChanges, Pop DEF TypeOK, HandOff
        <2>2. br'.st \in {"idle", "latch", "start", "wait_busy", "wait_done"}
            BY <1>1 DEF NextSt, TypeOK
        <2>3. br'.rd_en \in BOOLEAN /\ br'.start \in BOOLEAN
            BY <1>1
        <2>4. enc'.pending \in BOOLEAN /\ enc'.busy \in BOOLEAN
            BY EncChanges
        <2>5. full' \in BOOLEAN /\ empty' \in BOOLEAN
            BY EncChanges DEF TypeOK
        <2> QED BY <2>1, <2>2, <2>3, <2>4, <2>5 DEF TypeOK
    <1>4. HandOff'
        <2>1. br'.rd_en <=> br'.st = "latch"
            BY <1>1 DEF NextSt, TypeOK
        <2>2. CASE br.st = "idle"
            <3>1. /\ owed' = owed /\ queue' = queue /\ ~br'.start /\ ~enc'.pending /\ owed' = queue'
                BY <1>1, <1>2, <2>2, EncChanges DEF HandOff
            <3>2. br'.st = "latch" => ~empty' /\ ~enc'.busy
                BY <1>1, <1>2, <2>2, EncChanges DEF HandOff, NextSt
            <3>3. br'.st \in {"idle", "latch"}
                BY <1>1, <2>2 DEF NextSt
            <3> QED BY <2>1, <3>1, <3>2, <3>3, EncChanges DEF HandOff
        <2>3. CASE br.st = "latch"
            <3>1. br'.st = "start" /\ ~br'.start /\ ~enc'.pending /\ ~enc'.busy
                BY <1>1, <1>2, <2>3, EncChanges DEF HandOff, NextSt
            <3>2. queue # <<>> /\ owed = queue /\ owed' = owed /\ queue' = Tail(queue) /\ br'.word = Head(queue)
                BY <1>1, <1>2, <2>3, EncChanges DEF HandOff
            <3>3. Held'
                BY <3>2 DEF Held
            <3> QED BY <2>1, <3>1, <3>3, EncChanges DEF HandOff
        <2>4. CASE br.st = "start"
            <3>1. br'.st = "wait_busy" /\ br'.start /\ ~enc'.pending /\ ~enc'.busy
                BY <1>1, <1>2, <2>4, EncChanges DEF HandOff, NextSt
            <3>2. Held'
                BY <1>1, <1>2, <2>4, EncChanges DEF HandOff, Held
            <3> QED BY <2>1, <3>1, <3>2, EncChanges DEF HandOff
        <2>5. CASE br.st = "wait_busy" /\ enc.busy
            <3>1. br'.st = "wait_done" /\ ~br'.start /\ ~enc'.pending /\ owed' = queue'
                BY <1>1, <1>2, <2>5, EncChanges DEF HandOff, NextSt
            <3> QED BY <2>1, <3>1, EncChanges DEF HandOff
        <2>6. CASE br.st = "wait_busy" /\ ~enc.busy
            <3>1. br'.st = "wait_busy" /\ ~br'.start /\ queue' = queue /\ br'.word = br.word /\ Held
                BY <1>1, <2>6, EncChanges DEF HandOff, NextSt
            <3>2. CASE FrameStarts
                <4>1. enc'.busy /\ ~enc'.pending /\ owed' = queue'
                    BY <3>1, <3>2, EncChanges DEF Held
                <4> QED BY <2>1, <3>1, <4>1, EncChanges DEF HandOff
            <3>3. CASE ~FrameStarts
                <4>1. ~enc'.busy /\ enc'.pending /\ owed' = owed
                    BY <2>6, <3>3, EncChanges DEF HandOff
                <4>2. Held'
                    BY <3>1, <4>1 DEF Held
                <4> QED BY <2>1, <3>1, <4>1, <4>2, EncChanges DEF HandOff
            <3> QED BY <3>2, <3>3
        <2>7. CASE br.st = "wait_done"
            <3>1. br'.st \in {"idle", "wait_done"} /\ ~br'.start /\ ~enc'.pending /\ owed' = queue'
                BY <1>1, <1>2, <2>7, EncChanges DEF HandOff, NextSt
            <3> QED BY <2>1, <3>1, EncChanges DEF HandOff
        <2> QED BY <2>2, <2>3, <2>4, <2>5, <2>6, <2>7 DEF TypeOK
    <1> QED BY <1>3, <1>4

\* Where every accepted word is, at every moment.
THEOREM Invariance == Spec => []IInv
    <1>1. Init => IInv
        <2> SUFFICES ASSUME Init PROVE IInv
            OBVIOUS
        <2>1. queue = <<>> /\ owed = <<>> /\ ~full /\ empty
            BY DEF Init, Fifo!FifoInit
        <2>2. br.st = "idle" /\ ~br.rd_en /\ ~br.start /\ ~enc.pending /\ ~enc.busy
            BY DEF Init
        <2>3. <<>> \in Seq(Words)
            BY EmptySeq
        <2>4. /\ br.rd_en \in BOOLEAN /\ br.start \in BOOLEAN
              /\ enc.pending \in BOOLEAN /\ enc.busy \in BOOLEAN
              /\ full \in BOOLEAN /\ empty \in BOOLEAN
            BY DEF Init, Fifo!FifoInit
        <2> QED BY <2>1, <2>2, <2>3, <2>4 DEF IInv, TypeOK, HandOff
    <1>2. IInv /\ [Next]_vars => IInv'
        <2> SUFFICES ASSUME IInv, [Next]_vars PROVE IInv'
            OBVIOUS
        <2>1. CASE UNCHANGED vars
            BY <2>1 DEF vars, IInv, TypeOK, HandOff, Held
        <2>2. CASE \E word \in Words : RxClk(events < MaxEvents, word)
            BY <2>2, RxKeeps
        <2>3. CASE \E flip \in BOOLEAN : EncClk(flip)
            BY <2>3, EncKeeps
        <2> QED BY <2>1, <2>2, <2>3 DEF Next
    <1> QED BY <1>1, <1>2, PTL DEF Spec

\* The frame that the cell engine takes from its inputs is the oldest event that the bridge
\* accepted and has not sent (aclk_lite_bridge.v, aclk_lite_encoder.v).
THEOREM InOrder == Spec => []FramedInOrder
    <1>1. IInv => FramedInOrder
        BY DEF IInv, TypeOK, HandOff, Held, FramedInOrder, FrameStarts
    <1> QED BY <1>1, Invariance, PTL

-----------------------------------------------------------------------------
(***************************************************************************)
(* The far end: where the framer is in the frame that the engine sends.    *)
(***************************************************************************)
P == DataBits + 2
Bits == {0, 1}
Bytes == [1..DataBits -> Bits]

Framer == [st : {"idle", "data", "parity", "peek"}, cur : Seq(Bits), n : 0..15, bad : BOOLEAN,
           buf : Seq(Seq(Bits)), event : Seq(Seq(Bits)), error : BOOLEAN]

TypesOK ==
    /\ enc.cnt \in 0..SamplesPerCell - 1 /\ enc.level \in Bits /\ enc.half \in Bits
    /\ idle \in 0..Settled /\ flips \in Nat
    /\ line \in [word : Words \cup {NoWord}, noise : {"none", "spoilt", "astray"}, got : BOOLEAN]
    /\ fr \in Framer /\ (fr.st = "data" => Len(fr.cur) < DataBits)
    /\ Len(fr.buf) <= Full /\ (Len(fr.buf) < Full => fr.n = Len(fr.buf))

\* The cell engine sends the frame of the word on the line, and a cell shows its bit from its
\* middle on.
Engine ==
    /\ IF enc.busy THEN line.word \in Words /\ enc.bits = FrameBits(line.word) ELSE enc.idx = 1
    /\ enc.cnt > SamplesPerCell \div 2 => (enc.level # enc.half <=> CurBit(enc) = 1)

\* The framer has taken q whole bytes and p cells of the next; its byte in hand is right ...
Sent(q) == ByteOf(line.word, q + 1)
Right(q, p) ==
    /\ line.noise = "none" /\ ~fr.bad
    /\ \A i \in 1..q : fr.buf[i] = Sent(i - 1)
    /\ \A i \in 1..p - 1 : fr.cur[i] = Sent(q)[i]
\* ... or the frame is known to be bad, or will be when the parity of that byte is compared.
Caught(q, p) ==
    /\ line.noise = "spoilt"
    /\ ~fr.bad => \E j \in 1..p - 1 : \A i \in 1..p - 1 : fr.cur[i] = Sent(q)[i] <=> i # j

\* The state of the framer there.
Where(q, p) ==
    /\ fr.st = IF p = 0 THEN "peek" ELSE IF p <= DataBits THEN "data" ELSE "parity"
    /\ fr.n = q /\ Len(fr.buf) = q
    /\ p > 0 => Len(fr.cur) = p - 1
    /\ Right(q, p) \/ Caught(q, p)

\* In step with the sender, unless noise has led the framer astray.
InStep ==
    line.noise # "astray" =>
      IF enc.busy
      THEN \E q \in 0..Full - 1, p \in 0..P - 1 :
             /\ enc.idx = q * P + p + 1 /\ ~line.got
             /\ IF q = 0 /\ p = 0 THEN fr.st = "idle" /\ line.noise = "none" ELSE Where(q, p)
      ELSE \/ fr.st = "idle" /\ (line.noise = "none" => line.got)
           \/ Where(Full, 0) /\ ~line.got

\* So many idle cells bring the framer back to where it waits for a start.
Quiet ==
    /\ line.noise = "astray" => idle < Settled
    /\ idle \in 1..Settled - 1 =>
         \/ fr.st = "idle"
         \/ fr.st = "data" /\ Len(fr.cur) >= idle
         \/ fr.st = "parity" /\ idle <= DataBits
         \/ fr.st = "peek" /\ idle <= DataBits + 1

LineInv == TypesOK /\ Engine /\ InStep /\ Quiet

-----------------------------------------------------------------------------
LEMMA Sizes ==
    /\ DataBits \in Nat \ {0} /\ Full \in 5..15 /\ P \in Nat /\ P = DataBits + 2 /\ P >= 3
    /\ SamplesPerCell \in Nat /\ SamplesPerCell > 2 /\ Settled = DataBits + 3
    BY LiteAssumption DEF P, Settled

LEMMA DivMod ==
    ASSUME NEW d \in Nat \ {0}, NEW q \in Nat, NEW p \in 0..d - 1
    PROVE  (q * d + p) \div d = q /\ (q * d + p) % d = p
    <1> DEFINE n == q * d + p
               h == n \div d
               r == n % d
    <1>1. q * d \in Nat /\ n \in Nat
        OBVIOUS
    <1>2. h \in Int /\ r \in 0..d - 1 /\ n = h * d + r
        <2> HIDE DEF n
        <2> QED BY <1>1
    <1>3. (q - h) * d = r - p
        <2>1. (q - h) * d = q * d - h * d
            BY <1>2
        <2>2. q * d + p = h * d + r
            BY <1>2
        <2>3. q * d \in Int /\ h * d \in Int /\ r \in Int /\ p \in Int
            BY <1>1, <1>2
        <2> QED BY <2>1, <2>2, <2>3
    <1>4. h = q
        <2> HIDE DEF h, r, n
        <2>1. CASE q - h >= 1
            <3>1. (q - h) * d >= d
                BY <1>2, <2>1
            <3> QED BY <1>2, <1>3, <3>1
        <2>2. CASE q - h <= -1
            <3>1. (q - h) * d <= -d
                BY <1>2, <2>2
            <3> QED BY <1>2, <1>3, <3>1
        <2> QED BY <1>2, <2>1, <2>2
    <1>5. r = p
        BY <1>2, <1>3, <1>4
    <1> QED BY <1>4, <1>5

\* The cell after q bytes and p bits of a frame.
LEMMA Position ==
    ASSUME NEW q \in 0..Full - 1, NEW p \in 0..P - 1
    PROVE  /\ q * P \in Nat /\ Full * P \in Nat /\ q * P + p + 1 \in 1..Full * P
           /\ (q * P + p + 1 = Full * P) <=> (q = Full - 1 /\ p = P - 1)
           /\ p = P - 1 => (q * P + p + 1) + 1 = (q + 1) * P + 0 + 1
    <1>1. P \in Nat \ {0} /\ Full \in Nat /\ q \in Nat /\ p \in Nat
        BY Sizes
    <1> DEFINE a == q * P
               z == Full * P
    <1>2. a \in Nat /\ z \in Nat /\ (q + 1) * P = a + P
        BY <1>1
    <1>3. q = Full - 1 => z = a + P
        BY <1>1, <1>2
    <1>4. q < Full - 1 => z >= a + P + P
        <2>1. (Full - (q + 2)) \in Int /\ z = a + P + P + (Full - (q + 2)) * P
            BY <1>1
        <2>2. q < Full - 1 => (Full - (q + 2)) * P \in Nat
            BY <1>1
        <2> QED BY <1>2, <1>1, <2>1, <2>2
    <1>5. p <= P - 1 /\ (q = Full - 1 \/ q < Full - 1)
        BY <1>1
    <1> HIDE DEF a, z
    <1>6. /\ a + p + 1 \in 1..z
          /\ (a + p + 1 = z) <=> (q = Full - 1 /\ p = P - 1)
        BY <1>1, <1>2, <1>3, <1>4, <1>5
    <1>7. p = P - 1 => (a + p + 1) + 1 = (q + 1) * P + 0 + 1
        BY <1>1, <1>2
    <1> QED BY <1>2, <1>6, <1>7 DEF a, z

LEMMA ByteTyped ==
    ASSUME NEW w \in Words, NEW i \in 1..Full
    PROVE  ByteOf(w, i) \in Bytes /\ (i <= Full - 2 => ByteOf(w, i) = w[i])
    BY LiteAssumption DEF ByteOf, Byte, Bytes, Bits

\* The bit that is sent there.
LEMMA FrameBit ==
    ASSUME NEW w \in Words, NEW q \in 0..Full - 1, NEW p \in 0..P - 1
    PROVE  /\ FrameBits(w)[q * P + p + 1] = BitOf(ByteOf(w, q + 1), p)
           /\ Len(FrameBits(w)) = Full * P
    <1> DEFINE k == q * P + p + 1
    <1>1. k \in 1..Full * P /\ Full * P \in Nat /\ q * P \in Nat
        BY Position
    <1>2. k - 1 = q * P + p
        BY <1>1, Sizes
    <1>3. (k - 1) \div P = q /\ (k - 1) % P = p
        <2>1. P \in Nat \ {0} /\ q \in Nat
            BY Sizes
        <2> QED BY <1>2, <2>1, DivMod
    <1>4. FrameBits(w) = [j \in 1..Full * P |-> BitOf(ByteOf(w, ((j - 1) \div P) + 1), (j - 1) % P)]
        BY DEF FrameBits, P
    <1>5. FrameBits(w)[k] = BitOf(ByteOf(w, q + 1), p)
        BY <1>1, <1>3, <1>4
    <1>6. Len(FrameBits(w)) = Full * P
        BY <1>1, <1>4
    <1> QED BY <1>5, <1>6

\* One more one makes the parity the other.
LEMMA OneMore ==
    ASSUME NEW S, IsFiniteSet(S), NEW j, j \notin S
    PROVE  Cardinality(S \cup {j}) % 2 # Cardinality(S) % 2
    <1>1. Cardinality(S) \in Nat /\ Cardinality(S \cup {j}) = Cardinality(S) + 1
        BY FS_CardinalityType, FS_AddElement
    <1>2. ASSUME NEW n \in Nat PROVE (n + 1) % 2 # n % 2
        OBVIOUS
    <1> QED BY <1>1, <1>2

LEMMA ParityBit ==
    ASSUME NEW b \in Bytes
    PROVE  Parity(b) \in Bits /\ IsFiniteSet({i \in DOMAIN b : b[i] = 1}) /\ DOMAIN b = 1..DataBits
    <1>1. DOMAIN b = 1..DataBits
        BY DEF Bytes
    <1>2. IsFiniteSet(1..DataBits)
        BY Sizes, FS_Interval
    <1>3. IsFiniteSet({i \in DOMAIN b : b[i] = 1})
        BY <1>1, <1>2, FS_Subset
    <1>4. Cardinality({i \in DOMAIN b : b[i] = 1}) \in Nat
        BY <1>3, FS_CardinalityType
    <1>5. ASSUME NEW n \in Nat PROVE n % 2 \in {0, 1}
        OBVIOUS
    <1>6. Parity(b) \in Bits
        BY <1>4, <1>5 DEF Parity, Bits
    <1> QED BY <1>1, <1>3, <1>6

\* A bit turned over shows in the parity.
LEMMA ParityTurns ==
    ASSUME NEW b \in Bytes, NEW c \in Bytes, NEW j \in 1..DataBits,
           \A i \in 1..DataBits : c[i] = b[i] <=> i # j
    PROVE  Parity(c) # Parity(b)
    <1> DEFINE S == {i \in DOMAIN b : b[i] = 1}
               T == {i \in DOMAIN c : c[i] = 1}
    <1>1. IsFiniteSet(S) /\ IsFiniteSet(T) /\ DOMAIN b = 1..DataBits /\ DOMAIN c = 1..DataBits
        BY ParityBit
    <1>2. \A i \in 1..DataBits : b[i] \in {0, 1} /\ c[i] \in {0, 1}
        BY DEF Bytes, Bits
    <1>3. CASE b[j] = 1
        <2>1. c[j] # 1
            BY <1>3
        <2>2. j \notin T /\ S = T \cup {j}
            BY <1>1, <1>2, <1>3, <2>1
        <2>3. Cardinality(S) % 2 # Cardinality(T) % 2
            <3> HIDE DEF S, T
            <3> QED BY <1>1, <2>2, OneMore
        <2> QED BY <2>3 DEF Parity
    <1>4. CASE b[j] # 1
        <2>1. c[j] = 1
            BY <1>2, <1>4
        <2>2. j \notin S /\ T = S \cup {j}
            BY <1>1, <1>2, <1>4, <2>1
        <2>3. Cardinality(T) % 2 # Cardinality(S) % 2
            <3> HIDE DEF S, T
            <3> QED BY <1>1, <2>2, OneMore
        <2> QED BY <2>3 DEF Parity
    <1> QED BY <1>3, <1>4

-----------------------------------------------------------------------------
\* What a bit does to the framer, state by state.
LEMMA WaitsForStart ==
    ASSUME fr \in Framer, fr.st = "idle", NEW bit \in Bits, fr' = FramerBit(fr, bit)
    PROVE  /\ fr' \in Framer /\ fr'.event = <<>>
           /\ bit = 0 => fr'.st = "data" /\ fr'.cur = <<>> /\ fr'.n = 0 /\ ~fr'.bad /\ fr'.buf = <<>>
           /\ bit = 1 => fr'.st = "idle"
    <1> DEFINE g == [fr EXCEPT !.event = <<>>, !.error = FALSE]
    <1>1. <<>> \in Seq(Seq(Bits)) /\ <<>> \in Seq(Bits)
        OBVIOUS
    <1>2. g \in Framer /\ g.event = <<>> /\ g.st = "idle"
        BY <1>1 DEF Framer
    <1>3. CASE bit = 0
        <2>1. fr' = NewFrame(g)
            BY <1>3 DEF FramerBit
        <2> HIDE DEF g
        <2>2. fr' = [g EXCEPT !.st = "data", !.cur = <<>>, !.n = 0, !.bad = FALSE, !.buf = <<>>]
            BY <2>1 DEF NewFrame
        <2>3. fr' \in Framer
            <3> DEFINE none == <<>>
                       zero == 0
            <3>1. none \in Seq(Seq(Bits)) /\ none \in Seq(Bits) /\ zero \in 0..15
                BY <1>1
            <3>2. fr' = [g EXCEPT !.st = "data", !.cur = none, !.n = zero, !.bad = FALSE, !.buf = none]
                BY <2>2
            <3> HIDE DEF none, zero
            <3> QED BY <1>2, <3>1, <3>2 DEF Framer
        <2>4. fr'.st = "data" /\ fr'.cur = <<>> /\ fr'.n = 0 /\ fr'.buf = <<>> /\ fr'.event = <<>>
            BY <1>2, <2>2 DEF Framer
        <2>5. fr'.bad = FALSE
            BY <1>2, <2>2 DEF Framer
        <2> QED BY <1>3, <2>3, <2>4, <2>5
    <1>4. CASE bit = 1
        <2>1. fr' = g
            BY <1>4 DEF FramerBit
        <2> HIDE DEF g
        <2> QED BY <1>2, <1>4, <2>1
    <1> QED BY <1>3, <1>4 DEF Bits

LEMMA TakesBit ==
    ASSUME fr \in Framer, fr.st = "data", NEW bit \in Bits, fr' = FramerBit(fr, bit)
    PROVE  /\ fr' \in Framer /\ fr'.event = <<>>
           /\ fr'.st = IF Len(fr.cur) = DataBits - 1 THEN "parity" ELSE "data"
           /\ fr'.cur = Append(fr.cur, bit) /\ Len(fr'.cur) = Len(fr.cur) + 1
           /\ fr'.n = fr.n /\ fr'.bad = fr.bad /\ fr'.buf = fr.buf
    <1> DEFINE g == [fr EXCEPT !.event = <<>>, !.error = FALSE]
    <1>1. <<>> \in Seq(Seq(Bits)) /\ fr.cur \in Seq(Bits)
        BY DEF Framer
    <1>2. /\ g \in Framer /\ g.event = <<>> /\ g.cur = fr.cur
          /\ g.n = fr.n /\ g.bad = fr.bad /\ g.buf = fr.buf
        BY <1>1 DEF Framer
    <1>3. fr' = [g EXCEPT !.cur = Append(@, bit), !.st = IF Len(fr.cur) = DataBits - 1 THEN "parity" ELSE "data"]
        BY DEF FramerBit
    <1>4. Append(fr.cur, bit) \in Seq(Bits) /\ Len(Append(fr.cur, bit)) = Len(fr.cur) + 1
        BY <1>1, AppendProperties
    <1> DEFINE s == IF Len(fr.cur) = DataBits - 1 THEN "parity" ELSE "data"
               c == Append(fr.cur, bit)
    <1>5. s \in {"data", "parity"}
        OBVIOUS
    <1> HIDE DEF g
    <1>6. fr' = [g EXCEPT !.cur = c, !.st = s]
        BY <1>2, <1>3
    <1> HIDE DEF s, c
    <1>7. fr' \in Framer
        BY <1>2, <1>4, <1>5, <1>6 DEF Framer, c
    <1>8. fr'.st = s /\ fr'.cur = c /\ fr'.event = <<>> /\ fr'.n = fr.n /\ fr'.buf = fr.buf
        BY <1>2, <1>6 DEF Framer
    <1>9. fr'.bad = fr.bad
        BY <1>2, <1>6 DEF Framer
    <1> QED BY <1>4, <1>7, <1>8, <1>9 DEF s, c

LEMMA TakesParity ==
    ASSUME fr \in Framer, fr.st = "parity", NEW bit \in Bits, fr' = FramerBit(fr, bit)
    PROVE  /\ fr' \in Framer /\ fr'.event = <<>> /\ fr'.st = "peek"
           /\ fr'.n = (fr.n + 1) % 16
           /\ fr'.bad = (fr.bad \/ Parity(fr.cur) # bit)
           /\ Len(fr.buf) # Full => fr'.buf = Append(fr.buf, fr.cur)
           /\ Len(fr.buf) = Full => Len(fr'.buf) = Full
    <1> DEFINE g == [fr EXCEPT !.event = <<>>, !.error = FALSE]
    <1>1. <<>> \in Seq(Seq(Bits)) /\ fr.cur \in Seq(Bits) /\ fr.buf \in Seq(Seq(Bits)) /\ fr.n \in 0..15
        BY DEF Framer
    <1>2. /\ g \in Framer /\ g.event = <<>> /\ g.cur = fr.cur
          /\ g.n = fr.n /\ g.bad = fr.bad /\ g.buf = fr.buf
        BY <1>1 DEF Framer
    <1>3. fr' = EndByte(g, bit)
        BY DEF FramerBit
    <1> DEFINE m == (fr.n + 1) % 16
               bad == fr.bad \/ Parity(fr.cur) # bit
               buf == IF Len(fr.buf) = Full THEN Append(Tail(fr.buf), fr.cur) ELSE Append(fr.buf, fr.cur)
    <1>4. m \in 0..15
        <2>1. ASSUME NEW k \in 0..15 PROVE (k + 1) % 16 \in 0..15
            OBVIOUS
        <2> HIDE DEF g
        <2> QED BY <1>1, <2>1, Zenon
    <1>5. bad \in BOOLEAN
        BY <1>2 DEF Framer
    <1>6. buf \in Seq(Seq(Bits))
        <2>1. CASE fr.buf = <<>>
            <3>1. Len(fr.buf) # Full
                BY <2>1, Sizes
            <3> QED BY <1>1, <3>1, AppendProperties
        <2>2. CASE fr.buf # <<>>
            <3>1. Tail(fr.buf) \in Seq(Seq(Bits))
                BY <1>1, <2>2, HeadTailProperties
            <3> QED BY <1>1, <3>1, AppendProperties
        <2> QED BY <2>1, <2>2
    <1>7. fr' = [g EXCEPT !.st = "peek", !.bad = bad, !.n = m, !.buf = buf]
        BY <1>2, <1>3 DEF EndByte
    <1>8. Len(fr.buf) # Full => buf = Append(fr.buf, fr.cur)
        OBVIOUS
    <1>10. Len(fr.buf) = Full => Len(buf) = Full
        <2> SUFFICES ASSUME Len(fr.buf) = Full PROVE Len(buf) = Full
            OBVIOUS
        <2>1. fr.buf # <<>> /\ Full \in Nat
            BY Sizes
        <2>2. Tail(fr.buf) \in Seq(Seq(Bits)) /\ Len(Tail(fr.buf)) = Full - 1
            BY <1>1, <2>1, HeadTailProperties
        <2>3. Len(Append(Tail(fr.buf), fr.cur)) = (Full - 1) + 1
            BY <1>1, <2>2, AppendProperties
        <2> QED BY <2>1, <2>3
    <1>9. fr' \in Framer /\ fr'.event = <<>> /\ fr'.st = "peek" /\ fr'.n = m /\ fr'.bad = bad /\ fr'.buf = buf
        <2> HIDE DEF g, m, bad, buf
        <2> QED BY <1>2, <1>4, <1>5, <1>6, <1>7 DEF Framer
    <1> QED BY <1>8, <1>9, <1>10

LEMMA PeeksStart ==
    ASSUME fr \in Framer, fr.st = "peek", fr' = FramerBit(fr, 0)
    PROVE  /\ fr' \in Framer /\ fr'.event = <<>> /\ fr'.st = "data" /\ fr'.cur = <<>>
           /\ fr'.n = fr.n /\ fr'.bad = fr.bad /\ fr'.buf = fr.buf
    <1> DEFINE g == [fr EXCEPT !.event = <<>>, !.error = FALSE]
               none == <<>>
    <1>1. <<>> \in Seq(Seq(Bits)) /\ none \in Seq(Bits)
        OBVIOUS
    <1>2. g \in Framer /\ g.event = <<>> /\ g.n = fr.n /\ g.bad = fr.bad /\ g.buf = fr.buf
        BY <1>1 DEF Framer
    <1>3. fr' = [g EXCEPT !.st = "data", !.cur = none]
        BY DEF FramerBit
    <1> HIDE DEF g, none
    <1>4. fr' \in Framer
        BY <1>1, <1>2, <1>3 DEF Framer
    <1>5. fr'.st = "data" /\ fr'.cur = none /\ fr'.event = <<>> /\ fr'.n = fr.n /\ fr'.buf = fr.buf
        BY <1>2, <1>3 DEF Framer
    <1>6. fr'.bad = fr.bad
        BY <1>2, <1>3 DEF Framer
    <1> QED BY <1>4, <1>5, <1>6 DEF none

LEMMA PeeksIdle ==
    ASSUME TypesOK, fr.st = "peek", fr' = FramerBit(fr, 1)
    PROVE  /\ fr' \in Framer /\ fr'.st = "idle"
           /\ fr'.buf = fr.buf /\ fr'.n = fr.n
           /\ fr.bad => fr'.event = <<>>
           /\ ~fr.bad /\ fr.n = Full => fr'.event = SubSeq(fr.buf, 1, Full - 2)
    <1> DEFINE g == [fr EXCEPT !.event = <<>>, !.error = FALSE]
               ok == ~fr.bad /\ fr.n \in {1, 2, Full}
               size == Len(fr.buf)
               event == IF ~ok THEN <<>>
                        ELSE IF fr.n = Full THEN SubSeq(fr.buf, 1, Full - 2)
                        ELSE SubSeq(fr.buf, size - fr.n + 1, size)
    <1>1. /\ <<>> \in Seq(Seq(Bits)) /\ fr.buf \in Seq(Seq(Bits)) /\ Len(fr.buf) \in Nat
          /\ fr \in Framer /\ (fr.n = Full => Len(fr.buf) = Full)
        BY Sizes DEF TypesOK, Framer
    <1>2. g \in Framer /\ g.event = <<>> /\ g.n = fr.n /\ g.bad = fr.bad /\ g.buf = fr.buf
        BY <1>1 DEF Framer
    <1>3. fr' = EndFrame(g)
        BY DEF FramerBit
    <1>4. event \in Seq(Seq(Bits))
        <2>1. CASE ok /\ fr.n = Full
            <3>1. SubSeq(fr.buf, 1, Full - 2) \in Seq(Seq(Bits))
                <4>1. Full - 2 \in 0..Len(fr.buf) /\ 1 \in 1..Len(fr.buf) + 1
                    BY <1>1, <2>1, Sizes
                <4> QED BY <1>1, <4>1, SubSeqProperties
            <3> QED BY <2>1, <3>1
        <2>2. CASE ok /\ fr.n # Full
            <3>1. SubSeq(fr.buf, size - fr.n + 1, size) \in Seq(Seq(Bits))
                <4>1. fr.n \in 1..2 /\ size \in Nat /\ Full \in 5..15
                    BY <1>1, <2>2, Sizes
                <4>2. size <= Full /\ (size < Full => fr.n = size)
                    BY DEF TypesOK
                <4>3. size >= fr.n
                    BY <4>1, <4>2
                <4>4. size \in 0..Len(fr.buf) /\ size - fr.n + 1 \in 1..Len(fr.buf) + 1
                    BY <4>1, <4>3
                <4> QED BY <1>1, <4>4, SubSeqProperties
            <3> QED BY <2>2, <3>1
        <2>3. CASE ~ok
            BY <1>1, <2>3
        <2> QED BY <2>1, <2>2, <2>3
    <1> DEFINE err == ~ok
    <1>5. err \in BOOLEAN
        OBVIOUS
    <1>6. fr' = [g EXCEPT !.st = "idle", !.error = err, !.event = event]
        BY <1>2, <1>3 DEF EndFrame
    <1>7. fr' \in Framer /\ fr'.st = "idle" /\ fr'.event = event /\ fr'.buf = fr.buf /\ fr'.n = fr.n
        <2> HIDE DEF g, err, event
        <2> QED BY <1>2, <1>4, <1>5, <1>6 DEF Framer
    <1> QED BY <1>7

\* Between the ends of cells the framer only lets its strobes fall.
LEMMA FramerRests ==
    ASSUME fr \in Framer, fr' = [fr EXCEPT !.event = <<>>, !.error = FALSE]
    PROVE  /\ fr' \in Framer /\ fr'.event = <<>> /\ fr'.st = fr.st /\ fr'.cur = fr.cur
           /\ fr'.n = fr.n /\ fr'.bad = fr.bad /\ fr'.buf = fr.buf
    <1>1. <<>> \in Seq(Seq(Bits))
        OBVIOUS
    <1>2. fr'.bad = fr.bad
        BY DEF Framer
    <1> QED BY <1>1, <1>2 DEF Framer

-----------------------------------------------------------------------------
\* What the framer hears at the end of a cell.
Heard(flip) == IF (CurBit(enc) = 1) # flip THEN 1 ELSE 0

\* What a clock of the encoder's side does to the line and to the framer.
LEMMA LineChanges ==
    ASSUME IInv, LineInv, NEW flip \in BOOLEAN, EncClk(flip)
    PROVE  /\ line' \in [word : Words \cup {NoWord}, noise : {"none", "spoilt", "astray"}, got : BOOLEAN]
           /\ line'.word = IF FrameStarts THEN br.word ELSE line.word
           /\ line'.noise = Noise(flip, idle' = Settled)
           /\ line'.got = (~FrameStarts /\ (line.got \/ Packet(fr')))
           /\ FrameStarts => br.word \in Words /\ ~enc.busy
           /\ idle' = IF flip THEN 0 ELSE IF idle = Settled \/ ~CellEnds THEN idle
                      ELSE IF enc.busy THEN 0 ELSE idle + 1
           /\ flip => CellEnds
    <1> DEFINE noise == Noise(flip, idle' = Settled)
               got == line.got \/ Packet(fr')
    <1>1. FrameStarts => owed # <<>> /\ br.word = Head(owed) /\ br.word \in Words /\ ~enc.busy
        BY Pop DEF IInv, TypeOK, HandOff, Held, FrameStarts
    <1>2. line \in [word : Words \cup {NoWord}, noise : {"none", "spoilt", "astray"}, got : BOOLEAN]
        BY DEF LineInv, TypesOK
    <1>3. noise \in {"none", "spoilt", "astray"}
        <2>1. line.noise \in {"none", "spoilt", "astray"}
            BY <1>2
        <2> QED BY <2>1 DEF Noise
    <1>4. line' = IF FrameStarts THEN [word |-> br.word, noise |-> noise, got |-> FALSE]
                  ELSE [line EXCEPT !.noise = noise, !.got = got]
        BY <1>1 DEF EncClk
    <1>5. got \in BOOLEAN
        BY <1>2
    <1> HIDE DEF noise, got
    <1>6. CASE FrameStarts
        <2>1. line' = [word |-> br.word, noise |-> noise, got |-> FALSE] /\ br.word \in Words
            BY <1>1, <1>4, <1>6
        <2>2. line' \in [word : Words \cup {NoWord}, noise : {"none", "spoilt", "astray"}, got : BOOLEAN]
            BY <1>3, <2>1
        <2>3. line'.word = br.word /\ line'.noise = noise /\ line'.got = FALSE
            BY <2>1
        <2> QED BY <1>1, <1>6, <2>2, <2>3 DEF EncClk, noise
    <1>7. CASE ~FrameStarts
        <2>1. line' \in [word : Words \cup {NoWord}, noise : {"none", "spoilt", "astray"}, got : BOOLEAN]
            BY <1>2, <1>3, <1>4, <1>5, <1>7
        <2>2. line'.word = line.word /\ line'.noise = noise
            BY <1>2, <1>4, <1>7
        <2>3. line'.got = got
            BY <1>2, <1>4, <1>7
        <2> QED BY <1>7, <2>1, <2>2, <2>3 DEF EncClk, noise, got
    <1> QED BY <1>6, <1>7

LEMMA Hears ==
    ASSUME LineInv, NEW flip \in BOOLEAN, EncClk(flip)
    PROVE  fr' = IF CellEnds THEN FramerBit(fr, Heard(flip)) ELSE [fr EXCEPT !.event = <<>>, !.error = FALSE]
    <1>1. CASE CellEnds
        <2>1. enc.cnt > SamplesPerCell \div 2
            <3>1. enc.cnt = SamplesPerCell - 1
                BY <1>1 DEF CellEnds
            <3>2. ASSUME NEW n \in Nat, n > 2, n % 2 = 0 PROVE n - 1 > n \div 2
                BY <3>2
            <3> QED BY <3>1, <3>2, LiteAssumption
        <2>2. enc.level # enc.half <=> CurBit(enc) = 1
            BY <2>1 DEF LineInv, Engine
        <2>3. ((enc.level # enc.half) # flip) <=> ((CurBit(enc) = 1) # flip)
            BY <2>2
        <2> QED BY <1>1, <2>3 DEF EncClk, Heard
    <1>2. CASE ~CellEnds
        BY <1>2 DEF EncClk
    <1> QED BY <1>1, <1>2

-----------------------------------------------------------------------------
LEMMA FramerTyped ==
    ASSUME LineInv, NEW flip \in BOOLEAN, EncClk(flip)
    PROVE  /\ fr' \in Framer /\ (fr'.st = "data" => Len(fr'.cur) < DataBits)
           /\ Len(fr'.buf) <= Full /\ (Len(fr'.buf) < Full => fr'.n = Len(fr'.buf))
    <1> DEFINE bit == Heard(flip)
    <1>1. bit \in Bits
        BY DEF Heard, Bits
    <1>2. /\ fr \in Framer /\ (fr.st = "data" => Len(fr.cur) < DataBits)
          /\ Len(fr.buf) <= Full /\ (Len(fr.buf) < Full => fr.n = Len(fr.buf))
        BY DEF LineInv, TypesOK
    <1>3. /\ fr.cur \in Seq(Bits) /\ Len(fr.cur) \in Nat /\ fr.buf \in Seq(Seq(Bits)) /\ Len(fr.buf) \in Nat
          /\ fr.st \in {"idle", "data", "parity", "peek"}
        BY <1>2 DEF Framer
    <1>4. Len(<<>>) = 0
        OBVIOUS
    <1>5. CASE ~CellEnds
        BY <1>2, <1>5, Hears, FramerRests
    <1>6. CASE CellEnds
        <2>1. fr' = FramerBit(fr, bit)
            BY <1>6, Hears
        <2> HIDE DEF bit
        <2>2. CASE fr.st = "idle" /\ bit = 0
            <3>1. fr' \in Framer /\ fr'.st = "data" /\ fr'.cur = <<>> /\ fr'.n = 0 /\ fr'.buf = <<>>
                BY <1>1, <1>2, <2>1, <2>2, WaitsForStart
            <3>2. DataBits \in Nat \ {0} /\ Full \in 5..15
                BY Sizes
            <3> QED BY <1>4, <3>1, <3>2
        <2>3. CASE fr.st = "idle" /\ bit = 1
            <3>1. fr' = [fr EXCEPT !.event = <<>>, !.error = FALSE]
                BY <2>1, <2>3 DEF FramerBit
            <3> QED BY <1>2, <3>1, FramerRests
        <2>4. CASE fr.st = "data"
            <3>1. /\ fr' \in Framer /\ fr'.n = fr.n /\ fr'.buf = fr.buf
                  /\ fr'.st = IF Len(fr.cur) = DataBits - 1 THEN "parity" ELSE "data"
                  /\ Len(fr'.cur) = Len(fr.cur) + 1
                BY <1>1, <1>2, <2>1, <2>4, TakesBit
            <3>2. fr'.st = "data" => Len(fr'.cur) < DataBits
                BY <1>2, <1>3, <2>4, <3>1, Sizes
            <3> QED BY <1>2, <3>1, <3>2
        <2>5. CASE fr.st = "parity"
            <3>1. /\ fr' \in Framer /\ fr'.st = "peek" /\ fr'.n = (fr.n + 1) % 16
                  /\ Len(fr.buf) # Full => fr'.buf = Append(fr.buf, fr.cur)
                  /\ Len(fr.buf) = Full => Len(fr'.buf) = Full
                BY <1>1, <1>2, <2>1, <2>5, TakesParity
            <3>2. CASE Len(fr.buf) = Full
                BY <3>1, <3>2, Sizes
            <3>3. CASE Len(fr.buf) # Full
                <4>1. Len(fr'.buf) = Len(fr.buf) + 1
                    BY <1>3, <3>1, <3>3, AppendProperties
                <4> DEFINE l == Len(fr.buf)
                           m == Len(fr'.buf)
                           n == fr.n
                           o == fr'.n
                <4>2. l \in Nat /\ l <= Full /\ l # Full /\ (l < Full => n = l) /\ m = l + 1 /\ o = (n + 1) % 16
                    BY <1>2, <1>3, <3>1, <3>3, <4>1
                <4>3. m <= Full /\ o = m
                    <5> HIDE DEF l, m, n, o
                    <5>1. l < Full /\ n = l /\ l \in 0..14
                        BY <4>2, Sizes
                    <5>2. ASSUME NEW k \in 0..14 PROVE (k + 1) % 16 = k + 1
                        OBVIOUS
                    <5>3. o = m
                        BY <4>2, <5>1, <5>2
                    <5>4. m <= Full
                        BY <4>2, <5>1, Sizes
                    <5> QED BY <5>3, <5>4
                <4> QED BY <3>1, <4>3
            <3> QED BY <3>2, <3>3
        <2>6. CASE fr.st = "peek" /\ bit = 0
            BY <1>2, <1>4, <2>1, <2>6, PeeksStart, Sizes
        <2>7. CASE fr.st = "peek" /\ bit = 1
            <3>1. TypesOK
                BY DEF LineInv
            <3> QED BY <1>2, <2>1, <2>7, <3>1, PeeksIdle
        <2> QED BY <1>1, <1>3, <2>2, <2>3, <2>4, <2>5, <2>6, <2>7 DEF Bits
    <1> QED BY <1>5, <1>6

\* What the cell engine does.
LEMMA EngineChanges ==
    ASSUME LineInv, NEW flip \in BOOLEAN, EncClk(flip)
    PROVE  /\ enc'.cnt = (enc.cnt + 1) % SamplesPerCell /\ enc'.cnt \in 0..SamplesPerCell - 1
           /\ ~CellEnds => enc'.cnt = enc.cnt + 1
           /\ CellEnds => enc'.cnt = 0
           /\ enc'.level \in Bits /\ enc'.half \in Bits
           /\ FrameStarts => CellEnds /\ ~enc.busy /\ enc'.bits = FrameBits(br.word)
           /\ ~FrameStarts => enc'.bits = enc.bits
           /\ enc'.idx = IF ~CellEnds \/ ~enc.busy THEN enc.idx
                         ELSE IF LastBit(enc) THEN 1 ELSE enc.idx + 1
           /\ enc'.level = IF enc.cnt = 0 \/ (enc.cnt = SamplesPerCell \div 2 /\ CurBit(enc) = 1)
                           THEN 1 - enc.level ELSE enc.level
           /\ enc'.half = IF enc.cnt = SamplesPerCell \div 2 THEN enc.level ELSE enc.half
    <1>1. enc' = EncoderClk(enc)
        BY DEF EncClk
    <1>2. enc.cnt \in 0..SamplesPerCell - 1 /\ enc.level \in {0, 1} /\ enc.half \in {0, 1}
        BY DEF LineInv, TypesOK, Bits
    <1>3. /\ enc'.cnt = (enc.cnt + 1) % SamplesPerCell
          /\ enc'.bits = IF FrameStarts THEN FrameBits(br.word) ELSE enc.bits
          /\ enc'.idx = IF ~CellEnds \/ ~enc.busy THEN enc.idx
                        ELSE IF LastBit(enc) THEN 1 ELSE enc.idx + 1
          /\ enc'.level = IF enc.cnt = 0 \/ (enc.cnt = SamplesPerCell \div 2 /\ CurBit(enc) = 1)
                          THEN 1 - enc.level ELSE enc.level
          /\ enc'.half = IF enc.cnt = SamplesPerCell \div 2 THEN enc.level ELSE enc.half
        BY <1>1 DEF EncoderClk
    <1>4. enc'.level \in Bits /\ enc'.half \in Bits
        BY <1>2, <1>3 DEF Bits
    <1>5. /\ ~CellEnds => enc'.cnt = enc.cnt + 1
          /\ CellEnds => enc'.cnt = 0
          /\ enc'.cnt \in 0..SamplesPerCell - 1
        <2>1. ASSUME NEW n \in Nat, n > 2, NEW c \in 0..n - 1
              PROVE  (c # n - 1 => (c + 1) % n = c + 1) /\ (c = n - 1 => (c + 1) % n = 0)
            <3>1. CASE c # n - 1
                <4>1. c + 1 \in 0..n - 1 /\ n \in Nat \ {0} /\ c + 1 = 0 * n + (c + 1)
                    BY <2>1, <3>1
                <4> QED BY <3>1, <4>1, DivMod
            <3>2. CASE c = n - 1
                <4>1. 0 \in 0..n - 1 /\ n \in Nat \ {0} /\ c + 1 = 1 * n + 0
                    BY <2>1, <3>2
                <4> QED BY <3>2, <4>1, DivMod
            <3> QED BY <3>1, <3>2
        <2>2. (~CellEnds => (enc.cnt + 1) % SamplesPerCell = enc.cnt + 1) /\ (CellEnds => (enc.cnt + 1) % SamplesPerCell = 0)
            BY <1>2, <2>1, Sizes DEF CellEnds
        <2> QED BY <1>2, <1>3, <2>2, Sizes DEF CellEnds
    <1> QED BY <1>3, <1>4, <1>5 DEF FrameStarts

LEMMA EngineKeeps ==
    ASSUME IInv, LineInv, NEW flip \in BOOLEAN, EncClk(flip)
    PROVE  Engine'
    <1> DEFINE half == SamplesPerCell \div 2
    <1>1. enc.cnt \in 0..SamplesPerCell - 1 /\ half \in Nat /\ half < SamplesPerCell - 1
        <2>1. ASSUME NEW n \in Nat, n > 2, n % 2 = 0 PROVE n \div 2 \in Nat /\ n \div 2 < n - 1
            BY <2>1
        <2> QED BY <2>1, LiteAssumption DEF LineInv, TypesOK
    <1>2. enc'.busy = (FrameStarts \/ (enc.busy /\ ~(CellEnds /\ LastBit(enc))))
        BY EncChanges
    <1>3. IF enc.busy THEN line.word \in Words /\ enc.bits = FrameBits(line.word) ELSE enc.idx = 1
        BY DEF LineInv, Engine
    <1>4. IF enc'.busy THEN line'.word \in Words /\ enc'.bits = FrameBits(line'.word) ELSE enc'.idx = 1
        <2>1. CASE FrameStarts
            BY <1>2, <2>1, LineChanges, EngineChanges
        <2>2. CASE ~FrameStarts /\ enc'.busy
            BY <1>2, <1>3, <2>2, LineChanges, EngineChanges
        <2>3. CASE ~enc'.busy
            BY <1>2, <1>3, <2>3, LineChanges, EngineChanges
        <2> QED BY <2>1, <2>2, <2>3
    <1>5. ASSUME enc'.cnt > half PROVE (enc'.level # enc'.half) <=> CurBit(enc') = 1
        <2>1. ~CellEnds /\ enc'.cnt = enc.cnt + 1 /\ enc.cnt >= half
            BY <1>1, <1>5, EngineChanges
        <2>2. enc'.busy = enc.busy /\ enc'.bits = enc.bits /\ enc'.idx = enc.idx
            <3>1. ~FrameStarts
                BY <2>1 DEF FrameStarts
            <3>2. enc.busy \in BOOLEAN
                BY DEF IInv, TypeOK
            <3>3. enc'.busy = enc.busy
                BY <1>2, <2>1, <3>1, <3>2
            <3>4. enc'.bits = enc.bits /\ enc'.idx = enc.idx
                BY <2>1, <3>1, EngineChanges
            <3> QED BY <3>3, <3>4
        <2>3. CurBit(enc') = CurBit(enc)
            BY <2>2 DEF CurBit
        <2>4. enc.level \in {0, 1} /\ half > 0
            BY <1>1, LiteAssumption DEF LineInv, TypesOK, Bits
        <2>5. CASE enc.cnt = half
            <3>1. enc'.half = enc.level /\ enc'.level = IF CurBit(enc) = 1 THEN 1 - enc.level ELSE enc.level
                BY <2>4, <2>5, EngineChanges
            <3>2. 1 - enc.level # enc.level
                BY <2>4
            <3>3. CASE CurBit(enc) = 1
                BY <2>3, <3>1, <3>2, <3>3
            <3>4. CASE CurBit(enc) # 1
                BY <2>3, <3>1, <3>4
            <3> QED BY <3>3, <3>4
        <2>6. CASE enc.cnt # half
            <3>1. enc.cnt > half /\ enc.cnt # 0
                BY <1>1, <2>1, <2>4, <2>6
            <3>2. enc'.half = enc.half /\ enc'.level = enc.level
                BY <2>6, <3>1, EngineChanges
            <3>3. enc.level # enc.half <=> CurBit(enc) = 1
                BY <3>1 DEF LineInv, Engine
            <3> QED BY <2>3, <3>2, <3>3
        <2> QED BY <2>5, <2>6
    <1>6. ((enc.level # enc.half) <=> CurBit(enc) = 1)' <=> ((enc'.level # enc'.half) <=> CurBit(enc') = 1)
        BY DEF CurBit
    <1> QED BY <1>4, <1>5, <1>6 DEF Engine

\* A run of idle cells takes the framer back to idle, one state at a time.
LEMMA QuietKeeps ==
    ASSUME IInv, LineInv, NEW flip \in BOOLEAN, EncClk(flip)
    PROVE  /\ idle' \in 0..Settled /\ Quiet'
           /\ line.noise = "astray" /\ line'.noise # "astray" =>
                CellEnds /\ ~flip /\ ~enc.busy /\ fr.st = "idle"
    <1>1. /\ idle \in 0..Settled /\ fr.st \in {"idle", "data", "parity", "peek"} /\ fr \in Framer
          /\ fr.st = "data" => Len(fr.cur) < DataBits
        BY DEF LineInv, TypesOK, Framer
    <1>2. /\ idle' = IF flip THEN 0 ELSE IF idle = Settled \/ ~CellEnds THEN idle
                     ELSE IF enc.busy THEN 0 ELSE idle + 1
          /\ line'.noise = Noise(flip, idle' = Settled)
          /\ flip => CellEnds
        BY LineChanges
    <1>3. Settled \in Nat /\ Settled = DataBits + 3 /\ DataBits \in Nat \ {0}
        BY Sizes DEF Settled
    <1>4. idle' \in 0..Settled
        BY <1>1, <1>2, <1>3
    <1>5. line.noise = "astray" => idle < Settled
        BY DEF LineInv, Quiet
    <1>6. line'.noise = "astray" => idle' < Settled
        <2>1. CASE flip
            BY <1>2, <1>3, <2>1
        <2>2. CASE ~flip /\ line'.noise = "astray"
            <3>1. line.noise = "astray" /\ idle' # Settled
                BY <1>2, <2>2 DEF Noise
            <3> QED BY <1>3, <1>4, <3>1
        <2> QED BY <2>1, <2>2
    <1>7. idle \in 1..Settled - 1 =>
             \/ fr.st = "idle"
             \/ fr.st = "data" /\ Len(fr.cur) >= idle
             \/ fr.st = "parity" /\ idle <= DataBits
             \/ fr.st = "peek" /\ idle <= DataBits + 1
        BY DEF LineInv, Quiet
    <1> DEFINE Near(st, cur, k) == \/ st = "idle"
                                   \/ st = "data" /\ Len(cur) >= k
                                   \/ st = "parity" /\ k <= DataBits
                                   \/ st = "peek" /\ k <= DataBits + 1
    <1>8. ASSUME ~flip, CellEnds, ~enc.busy, idle # Settled
          PROVE  Near(fr'.st, fr'.cur, idle + 1) /\ (idle = Settled - 1 => fr.st = "idle")
        <2>1. fr' = FramerBit(fr, 1)
            BY <1>8, Hears DEF Heard, CurBit
        <2>2. 1 \in Bits /\ idle \in Nat /\ idle < Settled
            BY <1>1, <1>3, <1>8 DEF Bits
        <2>3. CASE fr.st = "idle"
            BY <1>1, <2>1, <2>2, <2>3, WaitsForStart
        <2>4. CASE fr.st = "data"
            <3>1. /\ fr'.st = IF Len(fr.cur) = DataBits - 1 THEN "parity" ELSE "data"
                  /\ Len(fr'.cur) = Len(fr.cur) + 1 /\ Len(fr.cur) < DataBits
                BY <1>1, <2>1, <2>2, <2>4, TakesBit
            <3>2. Len(fr.cur) \in Nat
                BY <1>1 DEF Framer
            <3>3. Len(fr.cur) >= idle
                <4>1. CASE idle = 0
                    BY <3>2, <4>1
                <4>2. CASE idle # 0
                    <5>1. idle \in 1..Settled - 1
                        BY <1>3, <2>2, <4>2
                    <5> QED BY <1>7, <2>4, <5>1
                <4> QED BY <4>1, <4>2
            <3> DEFINE l == Len(fr.cur)
            <3>4. l + 1 >= idle + 1 /\ (l = DataBits - 1 => idle + 1 <= DataBits) /\ idle # Settled - 1
                <4>1. l \in Nat /\ l >= idle /\ l < DataBits
                    BY <3>1, <3>2, <3>3
                <4> HIDE DEF l
                <4> QED BY <1>3, <2>2, <4>1
            <3> QED BY <3>1, <3>4
        <2>5. CASE fr.st = "parity"
            <3>1. idle <= DataBits
                BY <1>3, <1>7, <2>2, <2>5
            <3>2. fr'.st = "peek"
                BY <1>1, <2>1, <2>2, <2>5, TakesParity
            <3> QED BY <1>3, <2>2, <3>1, <3>2
        <2>6. CASE fr.st = "peek"
            <3>1. idle <= DataBits + 1
                BY <1>3, <1>7, <2>2, <2>6
            <3>2. fr'.st = "idle"
                <4>1. TypesOK
                    BY DEF LineInv
                <4> QED BY <2>1, <2>6, <4>1, PeeksIdle
            <3> QED BY <1>3, <2>2, <3>1, <3>2
        <2> QED BY <1>1, <2>3, <2>4, <2>5, <2>6
    <1>9. idle' \in 1..Settled - 1 => Near(fr'.st, fr'.cur, idle')
        <2>1. CASE ~CellEnds
            <3>1. ~flip /\ idle' = idle /\ fr'.st = fr.st /\ fr'.cur = fr.cur
                BY <1>1, <1>2, <2>1, Hears, FramerRests
            <3> QED BY <1>7, <3>1
        <2>2. CASE CellEnds /\ (flip \/ enc.busy)
            BY <1>1, <1>2, <1>3, <2>2
        <2>3. CASE CellEnds /\ ~flip /\ ~enc.busy
            BY <1>1, <1>2, <1>3, <1>8, <2>3
        <2> QED BY <2>1, <2>2, <2>3
    <1>10. line.noise = "astray" /\ line'.noise # "astray" => CellEnds /\ ~flip /\ ~enc.busy /\ fr.st = "idle"
        <2> SUFFICES ASSUME line.noise = "astray", line'.noise # "astray"
                     PROVE  CellEnds /\ ~flip /\ ~enc.busy /\ fr.st = "idle"
            OBVIOUS
        <2>1. ~flip /\ idle' = Settled
            BY <1>2 DEF Noise
        <2>2. idle < Settled
            BY <1>5
        <2>3. CellEnds /\ ~enc.busy /\ idle = Settled - 1
            BY <1>1, <1>2, <1>3, <2>1, <2>2
        <2> QED BY <1>3, <1>8, <2>1, <2>2, <2>3
    <1>11. Quiet'
        BY <1>6, <1>9 DEF Quiet
    <1> QED BY <1>4, <1>10, <1>11

-----------------------------------------------------------------------------
\* A data bit of a frame, and the framer in step: it stays so, and a bit turned over is on record.
LEMMA DataCell ==
    ASSUME LineInv, NEW flip \in BOOLEAN, EncClk(flip), CellEnds,
           NEW q \in 0..Full - 1, NEW p \in 1..DataBits, Where(q, p), line.word \in Words,
           CurBit(enc) = BitOf(Sent(q), p), line'.word = line.word,
           line'.noise = IF ~flip THEN line.noise ELSE IF line.noise = "none" THEN "spoilt" ELSE "astray",
           line'.noise # "astray"
    PROVE  Where(q, p + 1)' /\ fr'.event = <<>>
    <1> DEFINE bit == Heard(flip)
               b == Sent(q)
    <1>1. b \in Bytes /\ Sent(q)' = b
        <2>1. q + 1 \in 1..Full
            BY Sizes
        <2>2. ByteOf(line.word, q + 1) \in Bytes
            BY <2>1, ByteTyped
        <2> QED BY <2>2 DEF Sent
    <1>2. p \in Nat /\ p >= 1 /\ p <= DataBits /\ DataBits \in Nat /\ q \in Nat /\ p + 1 > 0 /\ p + 1 # 0
        BY Sizes
    <1>3. b[p] \in {0, 1} /\ bit \in Bits /\ (bit = b[p] <=> ~flip)
        <2>1. b[p] \in {0, 1}
            BY <1>1 DEF Bytes, Bits
        <2>2. CurBit(enc) = b[p]
            BY <1>2 DEF BitOf
        <2>3. bit = IF (b[p] = 1) # flip THEN 1 ELSE 0
            BY <2>2 DEF Heard
        <2> HIDE DEF bit, b
        <2>4. CASE flip
            <3>1. bit = IF b[p] = 1 THEN 0 ELSE 1
                BY <2>3, <2>4
            <3> QED BY <2>1, <2>4, <3>1 DEF Bits
        <2>5. CASE ~flip
            <3>1. bit = IF b[p] = 1 THEN 1 ELSE 0
                BY <2>3, <2>5
            <3> QED BY <2>1, <2>5, <3>1 DEF Bits
        <2> QED BY <2>4, <2>5
    <1>4. /\ fr.st = "data" /\ fr \in Framer /\ Len(fr.cur) = p - 1 /\ fr.cur \in Seq(Bits)
          /\ fr.n = q /\ Len(fr.buf) = q
        BY <1>2 DEF Where, LineInv, TypesOK, Framer
    <1> HIDE DEF bit, b
    <1>5. /\ fr' \in Framer /\ fr'.event = <<>>
          /\ fr'.st = IF Len(fr.cur) = DataBits - 1 THEN "parity" ELSE "data"
          /\ fr'.cur = Append(fr.cur, bit) /\ Len(fr'.cur) = Len(fr.cur) + 1
          /\ fr'.n = fr.n /\ fr'.bad = fr.bad /\ fr'.buf = fr.buf
        <2>1. fr' = FramerBit(fr, bit)
            BY Hears DEF bit
        <2> QED BY <1>3, <1>4, <2>1, TakesBit
    <1>6. fr'.st = IF p + 1 = 0 THEN "peek" ELSE IF p + 1 <= DataBits THEN "data" ELSE "parity"
        BY <1>2, <1>4, <1>5
    <1>7. Len(fr'.cur) = (p + 1) - 1
        BY <1>2, <1>4, <1>5
    <1>8. /\ \A i \in 1..p - 1 : fr'.cur[i] = fr.cur[i]
          /\ fr'.cur[p] = bit
        <2>1. p = Len(fr.cur) + 1
            BY <1>2, <1>4
        <2> QED BY <1>3, <1>4, <1>5, <2>1, AppendProperties
    <1>9. 1..(p + 1) - 1 = (1..p - 1) \cup {p}
        BY <1>2
    <1>10. CASE ~flip /\ Right(q, p)
        <2>1. \A i \in 1..p - 1 : fr.cur[i] = b[i]
            BY <1>10 DEF Right, b
        <2>2. \A i \in 1..(p + 1) - 1 : fr'.cur[i] = b[i]
            BY <1>3, <1>8, <1>9, <1>10, <2>1
        <2>3. line'.noise = "none" /\ ~fr'.bad /\ \A i \in 1..q : fr'.buf[i] = Sent(i - 1)'
            BY <1>5, <1>10 DEF Right, Sent
        <2> QED BY <1>1, <1>4, <1>5, <1>6, <1>7, <2>2, <2>3 DEF Where, Right
    <1>11. CASE flip
        <2>1. line.noise = "none" /\ Right(q, p) /\ line'.noise = "spoilt"
            BY <1>11 DEF Where, Caught
        <2>2. \A i \in 1..p - 1 : fr.cur[i] = b[i]
            BY <2>1 DEF Right, b
        <2>3. \A i \in 1..(p + 1) - 1 : fr'.cur[i] = b[i] <=> i # p
            BY <1>2, <1>3, <1>8, <1>9, <1>11, <2>2
        <2>4. p \in 1..(p + 1) - 1
            BY <1>2
        <2> QED BY <1>1, <1>4, <1>5, <1>6, <1>7, <2>1, <2>3, <2>4 DEF Where, Caught
    <1>12. CASE ~flip /\ Caught(q, p)
        <2>1. line'.noise = "spoilt"
            BY <1>12 DEF Caught
        <2>2. ASSUME ~fr'.bad PROVE \E j \in 1..(p + 1) - 1 : \A i \in 1..(p + 1) - 1 : fr'.cur[i] = b[i] <=> i # j
            <3>1. PICK j \in 1..p - 1 : \A i \in 1..p - 1 : fr.cur[i] = b[i] <=> i # j
                BY <1>5, <1>12, <2>2 DEF Caught, b
            <3>2. j \in 1..(p + 1) - 1 /\ j # p
                BY <1>2, <3>1
            <3>3. \A i \in 1..(p + 1) - 1 : fr'.cur[i] = b[i] <=> i # j
                BY <1>3, <1>8, <1>9, <1>12, <3>1, <3>2
            <3> QED BY <3>2, <3>3
        <2> QED BY <1>1, <1>4, <1>5, <1>6, <1>7, <2>1, <2>2 DEF Where, Caught
    <1> QED BY <1>5, <1>10, <1>11, <1>12 DEF Where

LEMMA SameByte ==
    ASSUME NEW b \in Bytes, NEW c \in Bytes, \A i \in 1..DataBits : c[i] = b[i]
    PROVE  c = b
    <1> DEFINE D == 1..DataBits
    <1>1. b \in [D -> Bits] /\ c \in [D -> Bits] /\ \A i \in D : c[i] = b[i]
        BY DEF Bytes
    <1> HIDE DEF D
    <1>2. b = [i \in D |-> b[i]] /\ c = [i \in D |-> c[i]]
        BY <1>1
    <1>3. [i \in D |-> b[i]] = [i \in D |-> c[i]]
        BY <1>1
    <1> QED BY <1>2, <1>3

\* The parity of a byte: one bit turned over in it, or the parity itself, makes the frame bad.
LEMMA ParityCell ==
    ASSUME LineInv, NEW flip \in BOOLEAN, EncClk(flip), CellEnds,
           NEW q \in 0..Full - 1, Where(q, DataBits + 1), line.word \in Words,
           CurBit(enc) = BitOf(Sent(q), DataBits + 1), line'.word = line.word,
           line'.noise = IF ~flip THEN line.noise ELSE IF line.noise = "none" THEN "spoilt" ELSE "astray",
           line'.noise # "astray"
    PROVE  Where(q + 1, 0)' /\ fr'.event = <<>>
    <1> DEFINE bit == Heard(flip)
               b == Sent(q)
    <1>1. b \in Bytes
        <2>1. q + 1 \in 1..Full
            BY Sizes
        <2>2. ByteOf(line.word, q + 1) \in Bytes
            BY <2>1, ByteTyped
        <2> QED BY <2>2 DEF Sent
    <1>2. DataBits \in Nat /\ DataBits + 1 # 0 /\ ~(DataBits + 1 <= DataBits) /\ DataBits + 1 > 0 /\ (DataBits + 1) - 1 = DataBits
        BY Sizes
    <1>3. bit \in Bits /\ Parity(b) \in Bits /\ (bit = Parity(b) <=> ~flip)
        <2>1. Parity(b) \in {0, 1}
            BY <1>1, ParityBit DEF Bits
        <2>2. CurBit(enc) = Parity(b)
            BY <1>2 DEF BitOf
        <2>3. bit = IF (Parity(b) = 1) # flip THEN 1 ELSE 0
            BY <2>2 DEF Heard
        <2> HIDE DEF bit, b
        <2>4. CASE flip
            <3>1. bit = IF Parity(b) = 1 THEN 0 ELSE 1
                BY <2>3, <2>4
            <3> QED BY <2>1, <2>4, <3>1 DEF Bits
        <2>5. CASE ~flip
            <3>1. bit = IF Parity(b) = 1 THEN 1 ELSE 0
                BY <2>3, <2>5
            <3> QED BY <2>1, <2>5, <3>1 DEF Bits
        <2> QED BY <2>4, <2>5
    <1>4. /\ fr.st = "parity" /\ fr \in Framer /\ Len(fr.cur) = DataBits /\ fr.cur \in Seq(Bits)
          /\ fr.n = q /\ Len(fr.buf) = q /\ fr.buf \in Seq(Seq(Bits)) /\ fr.bad \in BOOLEAN
        BY <1>2 DEF Where, LineInv, TypesOK, Framer
    <1>5. fr.cur \in Bytes
        BY <1>4 DEF Bytes
    <1> HIDE DEF bit, b
    <1>6. q \in 0..14 /\ Len(fr.buf) # Full
        BY <1>4, Sizes
    <1>7. /\ fr' \in Framer /\ fr'.event = <<>> /\ fr'.st = "peek" /\ fr'.n = (fr.n + 1) % 16
          /\ fr'.bad = (fr.bad \/ Parity(fr.cur) # bit) /\ fr'.buf = Append(fr.buf, fr.cur)
        <2>1. fr' = FramerBit(fr, bit)
            BY Hears DEF bit
        <2> QED BY <1>3, <1>4, <1>6, <2>1, TakesParity
    <1>8. fr'.n = q + 1
        <2>1. ASSUME NEW k \in 0..14 PROVE (k + 1) % 16 = k + 1
            OBVIOUS
        <2> QED BY <1>4, <1>6, <1>7, <2>1
    <1>9. /\ Len(fr'.buf) = q + 1 /\ fr'.buf[q + 1] = fr.cur
          /\ \A i \in 1..q : fr'.buf[i] = fr.buf[i]
        BY <1>4, <1>7, AppendProperties
    <1>10. CASE ~flip /\ Right(q, DataBits + 1)
        <2>1. \A i \in 1..DataBits : fr.cur[i] = b[i]
            BY <1>2, <1>10 DEF Right, b
        <2>2. fr.cur = b
            BY <1>1, <1>5, <2>1, SameByte
        <2>3. line'.noise = "none" /\ ~fr'.bad
            BY <1>3, <1>7, <1>10, <2>2 DEF Right
        <2>4. \A i \in 1..q + 1 : fr'.buf[i] = Sent(i - 1)'
            <3>1. \A i \in 1..q : fr.buf[i] = Sent(i - 1)
                BY <1>10 DEF Right
            <3>2. fr'.buf[q + 1] = Sent(q)
                BY <1>9, <2>2 DEF b
            <3>3. \A i \in 1..q + 1 : fr'.buf[i] = Sent(i - 1)
                <4>1. \A i \in 1..q + 1 : i \in 1..q \/ i = q + 1
                    OBVIOUS
                <4>2. (q + 1) - 1 = q
                    OBVIOUS
                <4> QED BY <1>9, <3>1, <3>2, <4>1, <4>2
            <3> QED BY <3>3 DEF Sent
        <2>5. Right(q + 1, 0)'
            <3>1. \A i \in 1..0 - 1 : FALSE
                OBVIOUS
            <3> QED BY <2>3, <2>4, <3>1 DEF Right
        <2> QED BY <1>7, <1>8, <1>9, <2>5 DEF Where
    <1>11. CASE flip \/ Caught(q, DataBits + 1)
        <2>1. line'.noise = "spoilt"
            BY <1>11 DEF Caught
        <2>2. fr'.bad
            <3>1. CASE flip
                <4>1. Right(q, DataBits + 1)
                    BY <2>1, <3>1 DEF Where, Caught
                <4>2. fr.cur = b
                    <5>1. \A i \in 1..DataBits : fr.cur[i] = b[i]
                        BY <1>2, <4>1 DEF Right, b
                    <5> QED BY <1>1, <1>5, <5>1, SameByte
                <4> QED BY <1>3, <1>7, <3>1, <4>2
            <3>2. CASE ~flip /\ Caught(q, DataBits + 1) /\ ~fr.bad
                <4>1. PICK j \in 1..DataBits : \A i \in 1..DataBits : fr.cur[i] = b[i] <=> i # j
                    BY <1>2, <3>2 DEF Caught, b
                <4>2. Parity(fr.cur) # Parity(b)
                    BY <1>1, <1>5, <4>1, ParityTurns
                <4> QED BY <1>3, <1>7, <3>2, <4>2
            <3>3. CASE fr.bad
                BY <1>7, <3>3
            <3> QED BY <1>11, <3>1, <3>2, <3>3
        <2>3. Caught(q + 1, 0)'
            BY <2>1, <2>2 DEF Caught
        <2> QED BY <1>7, <1>8, <1>9, <2>3 DEF Where
    <1> QED BY <1>7, <1>10, <1>11 DEF Where

\* The start of a frame, and of a byte in it.
LEMMA StartCell ==
    ASSUME LineInv, EncClk(FALSE), CellEnds, fr.st = "idle", line.noise = "none",
           line'.noise = "none", CurBit(enc) = 0
    PROVE  Where(0, 1)' /\ fr'.event = <<>>
    <1>1. fr \in Framer /\ Heard(FALSE) = 0 /\ 0 \in Bits
        BY DEF LineInv, TypesOK, Heard, Bits
    <1>2. fr' = FramerBit(fr, 0)
        BY <1>1, Hears
    <1>3. /\ fr'.event = <<>> /\ fr'.st = "data" /\ fr'.cur = <<>> /\ fr'.n = 0 /\ ~fr'.bad /\ fr'.buf = <<>>
        BY <1>1, <1>2, WaitsForStart
    <1>4. Len(fr'.cur) = 1 - 1 /\ Len(fr'.buf) = 0
        BY <1>3
    <1>5. Right(0, 1)'
        <2>1. \A i \in 1..0 : FALSE
            OBVIOUS
        <2>2. \A i \in 1..1 - 1 : FALSE
            OBVIOUS
        <2> QED BY <1>3, <2>1, <2>2 DEF Right
    <1> QED BY <1>3, <1>4, <1>5, Sizes DEF Where

LEMMA NextStart ==
    ASSUME LineInv, EncClk(FALSE), CellEnds, NEW q \in 1..Full - 1, Where(q, 0),
           line'.word = line.word, line'.noise = line.noise, CurBit(enc) = 0
    PROVE  Where(q, 1)' /\ fr'.event = <<>>
    <1>1. fr \in Framer /\ Heard(FALSE) = 0 /\ fr.st = "peek" /\ fr.n = q /\ Len(fr.buf) = q
        BY DEF LineInv, TypesOK, Heard, Where
    <1>2. fr' = FramerBit(fr, 0)
        BY <1>1, Hears
    <1>3. /\ fr'.event = <<>> /\ fr'.st = "data" /\ fr'.cur = <<>>
          /\ fr'.n = fr.n /\ fr'.bad = fr.bad /\ fr'.buf = fr.buf
        BY <1>1, <1>2, PeeksStart
    <1>4. Len(fr'.cur) = 1 - 1 /\ Len(fr'.buf) = q
        BY <1>1, <1>3
    <1>5. (\A i \in 1..0 - 1 : FALSE) /\ (\A i \in 1..1 - 1 : FALSE)
        OBVIOUS
    <1>6. CASE Right(q, 0)
        <2>1. line'.noise = "none" /\ ~fr'.bad
            BY <1>3, <1>6 DEF Right
        <2>2. \A i \in 1..q : fr'.buf[i] = Sent(i - 1)'
            BY <1>3, <1>6 DEF Right, Sent
        <2>3. Right(q, 1)'
            BY <1>5, <2>1, <2>2 DEF Right
        <2> QED BY <1>1, <1>3, <1>4, <2>3, Sizes DEF Where
    <1>7. CASE Caught(q, 0)
        <2>1. line'.noise = "spoilt" /\ fr'.bad
            BY <1>3, <1>5, <1>7 DEF Caught
        <2>2. Caught(q, 1)'
            BY <2>1 DEF Caught
        <2> QED BY <1>1, <1>3, <1>4, <2>2, Sizes DEF Where
    <1> QED BY <1>6, <1>7 DEF Where

\* Where the engine is after a cell of a frame.
LEMMA NextCell ==
    ASSUME IInv, LineInv, NEW flip \in BOOLEAN, EncClk(flip), CellEnds, enc.busy,
           NEW q \in 0..Full - 1, NEW p \in 0..P - 1, enc.idx = q * P + p + 1
    PROVE  /\ CurBit(enc) = BitOf(Sent(q), p)
           /\ p < P - 1 => enc'.busy /\ p + 1 \in 0..P - 1 /\ enc'.idx = q * P + (p + 1) + 1
           /\ p = P - 1 /\ q < Full - 1 =>
                enc'.busy /\ q + 1 \in 0..Full - 1 /\ enc'.idx = (q + 1) * P + 0 + 1
           /\ p = P - 1 /\ q = Full - 1 => ~enc'.busy
           /\ ~FrameStarts /\ line.word \in Words /\ line'.word = line.word
    <1>1. enc.bits = FrameBits(line.word) /\ line.word \in Words
        BY DEF LineInv, Engine
    <1>2. CurBit(enc) = BitOf(Sent(q), p)
        BY <1>1, FrameBit DEF CurBit, Sent
    <1>3. ~FrameStarts /\ line'.word = line.word
        BY LineChanges DEF FrameStarts
    <1>4. LastBit(enc) <=> (q = Full - 1 /\ p = P - 1)
        BY <1>1, FrameBit, Position DEF LastBit
    <1>5. enc'.busy <=> ~LastBit(enc)
        BY <1>3, EncChanges
    <1>6. ~LastBit(enc) => enc'.idx = enc.idx + 1
        BY EngineChanges
    <1>7. q * P \in Nat /\ p \in Nat /\ P \in Nat /\ q \in Nat /\ Full \in Nat
        BY Position, Sizes
    <1>8. p < P - 1 => enc'.busy /\ p + 1 \in 0..P - 1 /\ enc'.idx = q * P + (p + 1) + 1
        <2> DEFINE a == q * P
        <2>1. a \in Nat /\ enc.idx = a + p + 1
            BY <1>7
        <2> HIDE DEF a
        <2>2. p < P - 1 => enc'.busy /\ p + 1 \in 0..P - 1 /\ enc'.idx = a + (p + 1) + 1
            BY <1>4, <1>5, <1>6, <1>7, <2>1
        <2> QED BY <2>2 DEF a
    <1>9. p = P - 1 /\ q < Full - 1 => enc'.busy /\ q + 1 \in 0..Full - 1 /\ enc'.idx = (q + 1) * P + 0 + 1
        BY <1>4, <1>5, <1>6, <1>7, Position
    <1> QED BY <1>1, <1>2, <1>3, <1>4, <1>5, <1>8, <1>9

LEMMA NoPacket ==
    ASSUME fr'.event = <<>>
    PROVE  ~Packet(fr')
    BY Sizes DEF Packet

\* A step into the middle of a frame, and out of it, with the framer in step.
LEMMA InFrame ==
    ASSUME NEW q \in 0..Full - 1, NEW p \in 0..P - 1, q # 0 \/ p # 0, enc'.busy,
           enc'.idx = q * P + p + 1, ~line'.got, Where(q, p)'
    PROVE  InStep'
    BY DEF InStep

LEMMA OutOfFrame ==
    ASSUME ~enc'.busy, ~line'.got, Where(Full, 0)'
    PROVE  InStep'
    BY DEF InStep

\* A cell of a frame ends.
LEMMA Within ==
    ASSUME IInv, LineInv, NEW flip \in BOOLEAN, EncClk(flip), CellEnds, enc.busy,
           line.noise # "astray", line'.noise # "astray"
    PROVE  InStep' /\ fr'.event = <<>>
    <1>1. PICK q \in 0..Full - 1, p \in 0..P - 1 :
             /\ enc.idx = q * P + p + 1 /\ ~line.got
             /\ IF q = 0 /\ p = 0 THEN fr.st = "idle" /\ line.noise = "none" ELSE Where(q, p)
        BY DEF LineInv, InStep
    <1>2. /\ CurBit(enc) = BitOf(Sent(q), p)
          /\ p < P - 1 => enc'.busy /\ p + 1 \in 0..P - 1 /\ enc'.idx = q * P + (p + 1) + 1
          /\ p = P - 1 /\ q < Full - 1 =>
               enc'.busy /\ q + 1 \in 0..Full - 1 /\ enc'.idx = (q + 1) * P + 0 + 1
          /\ p = P - 1 /\ q = Full - 1 => ~enc'.busy
          /\ ~FrameStarts /\ line.word \in Words /\ line'.word = line.word
        BY <1>1, NextCell
    <1>3. fr'.event = <<>> => ~line'.got
        BY <1>1, <1>2, LineChanges, NoPacket
    <1>4. /\ line'.noise = IF ~flip THEN line.noise ELSE IF line.noise = "none" THEN "spoilt" ELSE "astray"
          /\ flip => fr.st \in {"data", "parity"}
        <2>1. line'.noise = Noise(flip, idle' = Settled)
            BY LineChanges
        <2> QED BY <1>2, <2>1 DEF Noise
    <1>5. P = DataBits + 2 /\ DataBits \in Nat \ {0} /\ Full \in 5..15
        BY Sizes
    <1>6. CASE p = 0
        <2>1. ~flip
            BY <1>1, <1>4, <1>6 DEF Where
        <2>2. CurBit(enc) = 0 /\ line'.noise = line.noise /\ EncClk(FALSE)
            BY <1>2, <1>4, <1>6, <2>1 DEF BitOf
        <2>3. Where(q, 1)' /\ fr'.event = <<>>
            <3>1. CASE q = 0
                BY <1>1, <1>6, <2>2, <3>1, StartCell
            <3>2. CASE q # 0
                <4>1. q \in 1..Full - 1 /\ Where(q, 0)
                    BY <1>1, <1>6, <3>2
                <4> QED BY <1>2, <2>2, <4>1, NextStart
            <3> QED BY <3>1, <3>2
        <2>4. enc'.busy /\ 1 \in 0..P - 1 /\ enc'.idx = q * P + 1 + 1
            BY <1>2, <1>5, <1>6
        <2> QED BY <1>3, <2>3, <2>4, InFrame
    <1>7. CASE p \in 1..DataBits
        <2>1. Where(q, p)
            BY <1>1, <1>7
        <2>2. Where(q, p + 1)' /\ fr'.event = <<>>
            BY <1>2, <1>4, <1>7, <2>1, DataCell
        <2>3. enc'.busy /\ p + 1 \in 0..P - 1 /\ enc'.idx = q * P + (p + 1) + 1 /\ p + 1 # 0
            BY <1>2, <1>5, <1>7
        <2> QED BY <1>3, <2>2, <2>3, InFrame
    <1>8. CASE p = DataBits + 1
        <2>1. Where(q, DataBits + 1) /\ p = P - 1
            BY <1>1, <1>5, <1>8
        <2>2. Where(q + 1, 0)' /\ fr'.event = <<>>
            BY <1>2, <1>4, <1>8, <2>1, ParityCell
        <2>3. CASE q < Full - 1
            <3>1. enc'.busy /\ q + 1 \in 0..Full - 1 /\ enc'.idx = (q + 1) * P + 0 + 1 /\ 0 \in 0..P - 1 /\ q + 1 # 0
                BY <1>2, <1>5, <2>1, <2>3
            <3> QED BY <1>3, <2>2, <3>1, InFrame
        <2>4. CASE q = Full - 1
            <3>1. ~enc'.busy
                BY <1>2, <2>1, <2>4
            <3>2. Where(Full, 0)'
                <4>1. q + 1 = Full
                    BY <1>5, <2>4
                <4> QED BY <2>2, <4>1
            <3> QED BY <1>3, <2>2, <3>1, <3>2, OutOfFrame
        <2> QED BY <1>5, <2>3, <2>4
    <1> QED BY <1>5, <1>6, <1>7, <1>8

\* A cell between frames ends: here the packet comes out, and a frame may start.
LEMMA Between ==
    ASSUME IInv, LineInv, NEW flip \in BOOLEAN, EncClk(flip), CellEnds, ~enc.busy,
           line.noise # "astray", line'.noise # "astray"
    PROVE  /\ InStep' /\ ~flip
           /\ fr'.event # <<>> => fr'.event = line.word /\ ~line.got
           /\ line.noise = "none" => line.got \/ Packet(fr')
    <1>1. \/ fr.st = "idle" /\ (line.noise = "none" => line.got)
          \/ Where(Full, 0) /\ ~line.got
        BY DEF LineInv, InStep
    <1>2. fr.st = "idle" \/ fr.st = "peek"
        BY <1>1 DEF Where
    <1>3. /\ ~flip
          /\ line'.noise = IF FrameStarts THEN "none" ELSE line.noise
        <2>1. line'.noise = Noise(flip, idle' = Settled)
            BY LineChanges
        <2>2. ~flip
            BY <1>2, <2>1 DEF Noise
        <2> QED BY <2>1, <2>2 DEF Noise
    <1>4. fr' = FramerBit(fr, 1) /\ fr \in Framer /\ 1 \in Bits /\ TypesOK
        BY <1>3, Hears DEF Heard, CurBit, Bits, LineInv, TypesOK
    <1>5. /\ fr'.st = "idle"
          /\ fr'.event # <<>> => fr'.event = line.word /\ ~line.got
          /\ line.noise = "none" => line.got \/ Packet(fr')
        <2>1. CASE fr.st = "idle" /\ (line.noise = "none" => line.got)
            <3>1. fr'.st = "idle" /\ fr'.event = <<>>
                BY <1>4, <2>1, WaitsForStart
            <3> QED BY <2>1, <3>1
        <2>2. CASE Where(Full, 0) /\ ~line.got
            <3>1. fr.st = "peek" /\ fr.n = Full /\ Len(fr.buf) = Full
                BY <2>2 DEF Where
            <3>2. /\ fr'.st = "idle"
                  /\ fr.bad => fr'.event = <<>>
                  /\ ~fr.bad => fr'.event = SubSeq(fr.buf, 1, Full - 2)
                BY <1>4, <3>1, PeeksIdle
            <3>3. ASSUME ~fr.bad PROVE fr'.event = line.word /\ Packet(fr')
                <4>1. Right(Full, 0)
                    <5>1. \A j \in 1..0 - 1 : FALSE
                        OBVIOUS
                    <5> QED BY <2>2, <3>3, <5>1 DEF Where, Caught
                <4>2. \A i \in 1..Full - 2 : fr.buf[i] = line.word[i]
                    <5> SUFFICES ASSUME NEW i \in 1..Full - 2 PROVE fr.buf[i] = line.word[i]
                        OBVIOUS
                    <5>1. i \in 1..Full /\ i <= Full - 2 /\ (i - 1) + 1 = i
                        BY Sizes
                    <5>2. fr.buf[i] = Sent(i - 1)
                        BY <4>1, <5>1 DEF Right
                    <5> QED BY <5>1, <5>2 DEF Sent, ByteOf
                <4>3. Full - 2 \in Nat /\ Full - 2 >= 1 /\ \A i \in 1..Full - 2 : fr.buf[i] \in Seq(Bits)
                    <5>1. fr.buf \in Seq(Seq(Bits))
                        BY <1>4 DEF Framer
                    <5>2. \A i \in 1..Full : fr.buf[i] \in Seq(Bits)
                        BY <3>1, <5>1, LenProperties, ElementOfSeq
                    <5> QED BY <5>2, Sizes
                <4> DEFINE n == Full - 2
                           e == SubSeq(fr.buf, 1, n)
                <4>4. /\ e \in Seq(Seq(Bits)) /\ Len(e) = n
                      /\ \A i \in 1..n : e[i] = line.word[i]
                    <5>1. n \in Nat /\ n >= 1 /\ \A i \in 1..n : fr.buf[i] \in Seq(Bits) /\ fr.buf[i] = line.word[i]
                        BY <4>2, <4>3
                    <5> HIDE DEF n
                    <5>2. /\ e \in Seq(Seq(Bits)) /\ Len(e) = IF 1 <= n THEN n - 1 + 1 ELSE 0
                          /\ \A i \in 1..n - 1 + 1 : e[i] = fr.buf[1 + i - 1]
                        BY <5>1, SubSeqProperties
                    <5>3. n - 1 + 1 = n /\ \A i \in 1..n : 1 + i - 1 = i
                        BY <5>1
                    <5> QED BY <5>1, <5>2, <5>3
                <4>5. line.word \in [1..n -> Bytes]
                    <5>1. line.word \in Words \cup {NoWord}
                        BY <1>4 DEF TypesOK
                    <5> QED BY <5>1, LiteAssumption, Sizes DEF NoWord, Byte, Bytes, Bits
                <4>6. e = line.word
                    <5>1. e \in [1..n -> Seq(Bits)]
                        BY <4>4, LenProperties
                    <5> HIDE DEF e, n
                    <5>2. e = [i \in 1..n |-> e[i]] /\ line.word = [i \in 1..n |-> line.word[i]]
                        BY <4>5, <5>1
                    <5>3. [i \in 1..n |-> e[i]] = [i \in 1..n |-> line.word[i]]
                        BY <4>4
                    <5> QED BY <5>2, <5>3
                <4> QED BY <3>2, <3>3, <4>4, <4>6 DEF Packet
            <3>4. line.noise = "none" => ~fr.bad
                BY <2>2 DEF Where, Right, Caught
            <3> QED BY <2>2, <3>2, <3>3, <3>4
        <2> QED BY <1>1, <2>1, <2>2
    <1>6. InStep'
        <2>1. CASE FrameStarts
            <3>1. enc'.busy /\ ~line'.got /\ line'.noise = "none"
                BY <1>3, <2>1, LineChanges, EncChanges
            <3>2. enc'.idx = 0 * P + 0 + 1
                <4>1. enc.idx = 1
                    BY DEF LineInv, Engine
                <4>2. 0 * P = 0
                    BY Sizes
                <4> QED BY <4>1, <4>2, EngineChanges
            <3>3. 0 \in 0..Full - 1 /\ 0 \in 0..P - 1
                BY Sizes
            <3> QED BY <1>5, <3>1, <3>2, <3>3 DEF InStep
        <2>2. CASE ~FrameStarts
            <3>1. ~enc'.busy
                BY <2>2, EncChanges
            <3>2. line'.noise = "none" => line'.got
                BY <1>3, <1>5, <2>2, LineChanges
            <3> QED BY <1>5, <3>1, <3>2 DEF InStep
        <2> QED BY <2>1, <2>2
    <1> QED BY <1>3, <1>5, <1>6

\* The line has been quiet, and the framer waits for a start again.
LEMMA BackInStep ==
    ASSUME IInv, LineInv, NEW flip \in BOOLEAN, EncClk(flip),
           line.noise = "astray", line'.noise # "astray"
    PROVE  InStep' /\ fr'.event = <<>>
    <1>1. CellEnds /\ ~flip /\ ~enc.busy /\ fr.st = "idle"
        BY QuietKeeps
    <1>2. fr' = FramerBit(fr, 1) /\ fr \in Framer /\ 1 \in Bits
        BY <1>1, Hears DEF Heard, CurBit, Bits, LineInv, TypesOK
    <1>3. fr'.st = "idle" /\ fr'.event = <<>>
        BY <1>1, <1>2, WaitsForStart
    <1>4. line'.noise = IF FrameStarts THEN "none" ELSE "spoilt"
        <2>1. line'.noise = Noise(flip, idle' = Settled)
            BY LineChanges
        <2> QED BY <1>1, <2>1 DEF Noise
    <1>5. CASE FrameStarts
        <2>1. enc'.busy /\ ~line'.got /\ line'.noise = "none"
            BY <1>4, <1>5, LineChanges, EncChanges
        <2>2. enc'.idx = 0 * P + 0 + 1
            <3>1. enc.idx = 1
                BY <1>1 DEF LineInv, Engine
            <3>2. 0 * P = 0
                BY Sizes
            <3> QED BY <1>1, <3>1, <3>2, EngineChanges
        <2>3. 0 \in 0..Full - 1 /\ 0 \in 0..P - 1
            BY Sizes
        <2> QED BY <1>3, <2>1, <2>2, <2>3 DEF InStep
    <1>6. CASE ~FrameStarts
        <2>1. ~enc'.busy /\ line'.noise = "spoilt"
            BY <1>1, <1>4, <1>6, EncChanges
        <2> QED BY <1>3, <2>1 DEF InStep
    <1> QED BY <1>3, <1>5, <1>6

\* Between the ends of cells nothing changes there.
LEMMA MidCell ==
    ASSUME IInv, LineInv, NEW flip \in BOOLEAN, EncClk(flip), ~CellEnds
    PROVE  InStep' /\ fr'.event = <<>> /\ line'.noise = line.noise
    <1>1. /\ fr'.event = <<>> /\ fr'.st = fr.st /\ fr'.cur = fr.cur
          /\ fr'.n = fr.n /\ fr'.bad = fr.bad /\ fr'.buf = fr.buf
        BY Hears, FramerRests DEF LineInv, TypesOK
    <1>2. ~flip /\ ~FrameStarts /\ idle' = idle
        BY LineChanges DEF FrameStarts
    <1>3. enc'.busy = enc.busy /\ enc'.idx = enc.idx
        <2>1. enc.busy \in BOOLEAN
            BY DEF IInv, TypeOK
        <2>2. enc'.busy = (FrameStarts \/ (enc.busy /\ ~(CellEnds /\ LastBit(enc))))
            BY EncChanges
        <2>3. enc'.busy = enc.busy
            BY <1>2, <2>1, <2>2
        <2> QED BY <2>3, EngineChanges
    <1>4. line'.noise = line.noise
        <2>1. line'.noise = Noise(flip, idle' = Settled)
            BY LineChanges
        <2>2. line.noise = "astray" => idle' # Settled
            BY <1>2, Sizes DEF LineInv, Quiet, TypesOK
        <2> QED BY <1>2, <2>1, <2>2 DEF Noise
    <1>5. line'.word = line.word /\ line'.got = line.got
        <2>1. line.got \in BOOLEAN
            BY DEF LineInv, TypesOK
        <2>2. line'.got = (~FrameStarts /\ (line.got \/ Packet(fr'))) /\ line'.word = line.word
            BY <1>2, LineChanges
        <2>3. line'.got = line.got
            BY <1>1, <1>2, <2>1, <2>2, NoPacket
        <2> QED BY <2>2, <2>3
    <1>6. InStep
        BY DEF LineInv
    <1>7. InStep' <=> InStep
        BY <1>1, <1>3, <1>4, <1>5 DEF InStep, Where, Right, Caught, Sent
    <1> QED BY <1>1, <1>4, <1>6, <1>7

LEMMA LineKeeps ==
    ASSUME IInv, LineInv, NEW flip \in BOOLEAN, EncClk(flip)
    PROVE  LineInv'
    <1>1. TypesOK'
        <2>1. idle' \in 0..Settled
            BY QuietKeeps
        <2>2. /\ enc'.cnt \in 0..SamplesPerCell - 1 /\ enc'.level \in Bits /\ enc'.half \in Bits
            BY EngineChanges
        <2>3. line' \in [word : Words \cup {NoWord}, noise : {"none", "spoilt", "astray"}, got : BOOLEAN]
            BY LineChanges
        <2>4. flips' \in Nat
            <3>1. flips \in Nat /\ flips' = IF flip THEN flips + 1 ELSE flips
                BY DEF LineInv, TypesOK, EncClk
            <3> QED BY <3>1
        <2> QED BY <2>1, <2>2, <2>3, <2>4, FramerTyped DEF TypesOK
    <1>2. InStep'
        <2>1. CASE line'.noise = "astray"
            BY <2>1 DEF InStep
        <2>2. CASE line.noise = "astray" /\ line'.noise # "astray"
            BY <2>2, BackInStep
        <2>3. CASE line.noise # "astray" /\ line'.noise # "astray"
            BY <2>3, Within, Between, MidCell
        <2> QED BY <2>1, <2>2, <2>3
    <1> QED BY <1>1, <1>2, EngineKeeps, QuietKeeps DEF LineInv

\* Where the far end is, at every moment, whatever the noise.
THEOREM FarEnd == Spec => []LineInv
    <1>1. Init => LineInv
        <2> SUFFICES ASSUME Init PROVE LineInv
            OBVIOUS
        <2>1. /\ enc = [pending |-> FALSE, busy |-> FALSE, bits |-> <<>>, idx |-> 1, cnt |-> 0, level |-> 1, half |-> 1]
              /\ fr = [st |-> "idle", cur |-> <<>>, n |-> 0, bad |-> FALSE, buf |-> <<>>, event |-> <<>>, error |-> FALSE]
              /\ line = [word |-> NoWord, noise |-> "none", got |-> TRUE] /\ idle = Settled
            BY DEF Init
        <2>2. TypesOK
            <3>1. 0 \in 0..SamplesPerCell - 1 /\ 1 \in Bits /\ Settled \in 0..Settled /\ 0 \in 0..15
                BY Sizes DEF Bits, Settled
            <3>2. enc.cnt \in 0..SamplesPerCell - 1 /\ enc.level \in Bits /\ enc.half \in Bits /\ idle \in 0..Settled
                BY <2>1, <3>1
            <3>3. line \in [word : Words \cup {NoWord}, noise : {"none", "spoilt", "astray"}, got : BOOLEAN]
                BY <2>1
            <3>4. <<>> \in Seq(Bits) /\ <<>> \in Seq(Seq(Bits)) /\ Len(<<>>) = 0
                OBVIOUS
            <3>5. fr \in Framer
                BY <2>1, <3>1, <3>4 DEF Framer
            <3>6. fr.st = "idle" /\ fr.n = 0 /\ Len(fr.buf) = 0
                BY <2>1, <3>4
            <3>7. flips \in Nat
                BY DEF Init
            <3> QED BY <3>2, <3>3, <3>5, <3>6, <3>7, Sizes DEF TypesOK
        <2>3. Engine
            <3>1. SamplesPerCell \div 2 \in Nat
                BY LiteAssumption
            <3>2. ~enc.busy /\ enc.idx = 1 /\ enc.cnt = 0
                BY <2>1
            <3> QED BY <3>1, <3>2 DEF Engine
        <2>4. InStep
            <3>1. ~enc.busy /\ fr.st = "idle" /\ line.got
                BY <2>1
            <3> QED BY <3>1 DEF InStep
        <2>5. Quiet
            BY <2>1, Sizes DEF Quiet
        <2> QED BY <2>2, <2>3, <2>4, <2>5 DEF LineInv
    <1>2. IInv /\ LineInv /\ [Next]_vars => LineInv'
        <2> SUFFICES ASSUME IInv, LineInv, [Next]_vars PROVE LineInv'
            OBVIOUS
        <2>1. CASE UNCHANGED <<enc, fr, line, idle, flips>>
            BY <2>1 DEF LineInv, TypesOK, Engine, CurBit, InStep, Where, Right, Caught, Sent, Quiet
        <2>2. CASE UNCHANGED vars
            BY <2>1, <2>2 DEF vars
        <2>3. CASE \E word \in Words : RxClk(events < MaxEvents, word)
            BY <2>1, <2>3 DEF RxClk
        <2>4. CASE \E flip \in BOOLEAN : EncClk(flip)
            BY <2>4, LineKeeps
        <2> QED BY <2>2, <2>3, <2>4 DEF Next
    <1> QED BY <1>1, <1>2, Invariance, PTL DEF Spec

\* An event that comes out of the framer is the packet on the line, whole and once: one bit
\* of data or parity turned over in a frame makes none, and nothing of it is left for the next
\* (clk_byte_framer.sv, aclk_lite_encoder.sv).
THEOREM WhatIsSent == Spec => PacketsAreSent
    <1>1. IInv /\ LineInv /\ [Next]_vars =>
            [fr' # fr /\ fr'.event # <<>> /\ line'.noise # "astray" => fr'.event = line.word /\ ~line.got]_vars
        <2> SUFFICES ASSUME IInv, LineInv, Next, fr' # fr, fr'.event # <<>>, line'.noise # "astray"
                     PROVE  fr'.event = line.word /\ ~line.got
            BY DEF vars
        <2>1. PICK flip \in BOOLEAN : EncClk(flip)
            BY DEF Next, RxClk
        <2>2. CellEnds
            BY <2>1, MidCell
        <2>3. line.noise # "astray"
            BY <2>1, BackInStep
        <2>4. ~enc.busy
            BY <2>1, <2>2, <2>3, Within
        <2> QED BY <2>1, <2>2, <2>3, <2>4, Between
    <1> QED BY <1>1, Invariance, FarEnd, PTL DEF Spec, PacketsAreSent

\* A frame that finds the framer in step and meets no noise has come out by the start of the
\* next one.
THEOREM WhatArrives == Spec => CleanFramesArrive
    <1>1. IInv /\ LineInv /\ [Next]_vars =>
            [FrameStarts /\ enc' # enc /\ flips' = flips /\ line.noise = "none" => line.got \/ Packet(fr')]_vars
        <2> SUFFICES ASSUME IInv, LineInv, Next, FrameStarts, enc' # enc, flips' = flips, line.noise = "none"
                     PROVE  line.got \/ Packet(fr')
            BY DEF vars
        <2>1. PICK flip \in BOOLEAN : EncClk(flip)
            BY DEF Next, RxClk
        <2>2. CellEnds /\ ~enc.busy
            BY DEF FrameStarts
        <2>3. CASE line'.noise # "astray"
            BY <2>1, <2>2, <2>3, Between
        <2>4. CASE line'.noise = "astray"
            <3>1. flip
                <4>1. line'.noise = Noise(flip, idle' = Settled)
                    BY <2>1, LineChanges
                <4> QED BY <2>4, <4>1 DEF Noise
            <3>2. flips' = flips + 1 /\ flips \in Nat
                BY <2>1, <3>1 DEF EncClk, LineInv, TypesOK
            <3> QED BY <3>2
        <2> QED BY <2>3, <2>4
    <1> QED BY <1>1, Invariance, FarEnd, PTL DEF Spec, CleanFramesArrive

(***************************************************************************)
(* AclkLink: the encoder's side of the link.                               *)
(***************************************************************************)
Pkts == [code : Int, n : Int]
IsEvent(p) == p.code \in Codes /\ p.n > 0
TxRegs ==
    [toggle : BOOLEAN, byte : Codes, sync : Seq(BOOLEAN), ctr : 0..5, adv0 : BOOLEAN, adv1 : BOOLEAN,
     crc : Seq(BOOLEAN), event : Codes, st : {"start", "sweep", "wait", "read", "settle", "store"},
     zero : Codes, ram : [Codes -> Nat], q : Nat, or_null : BOOLEAN, tclk : Pkts, aclk : Pkts,
     gear : Pkts, gctr : 0..15, word : [k : BOOLEAN, pkt : Pkts, i : Int]]
Owed == [pkt : Pkts, age : Nat]
TxTyped ==
    /\ tx \in TxRegs /\ Len(tx.sync) = 3 /\ Len(tx.crc) = 3
    /\ gap \in 0..MinGap /\ count \in [Codes -> Nat] /\ todo \in Seq(Owed)

\* Clocks since the packet of the next frame was chosen.
Phase == (tx.ctr + 1) % 6

\* An event is on its way across, at the flop that its age tells; it is in the FSM, in the state
\* that its age tells; or it came while the counts were swept.
Flying == tx.toggle # tx.sync[3]
Crossing ==
    /\ Flying => gap <= 2
    /\ (tx.toggle # tx.sync[1]) <=> (Flying /\ gap = 0)
    /\ (tx.sync[1] # tx.sync[2]) <=> (Flying /\ gap = 1)
    /\ (tx.sync[2] # tx.sync[3]) <=> (Flying /\ gap = 2)
InFsm == tx.st \in {"read", "settle", "store"}
Counting ==
    /\ tx.st = "read" => gap = 3
    /\ tx.st = "settle" => gap = 4
    /\ tx.st = "store" => gap = 5
    /\ InFsm => tx.event = tx.byte
    /\ tx.st \in {"settle", "store"} => tx.q = tx.ram[tx.event]
InHand == InFsm \/ (Flying /\ (tx.st = "wait" \/ (tx.st = "sweep" /\ tx.zero + 2 - gap > LastCode)))

\* The RAM counts every event but the one in hand, and while it is swept there is none.
Base(c) == IF InHand /\ c = tx.byte THEN count[c] - 1 ELSE count[c]
Counted ==
    /\ tx.st = "start" => tx.zero = 0
    /\ IF Sweeping(tx) THEN \A c \in Codes : Base(c) = 0 /\ (c < tx.zero => tx.ram[c] = 0)
       ELSE \A c \in Codes : Base(c) = tx.ram[c]

\* The six clocks of a frame, from the choice of its packet to its first word.
Pacing ==
    /\ tx.adv0 <=> tx.ctr = 4
    /\ tx.adv1 <=> tx.ctr = 5
    /\ tx.crc[1] <=> tx.ctr = 0 /\ tx.aclk # Zero
    /\ tx.crc[2] <=> tx.ctr = 1 /\ tx.aclk # Zero
    /\ tx.crc[3] <=> tx.ctr = 2 /\ tx.aclk # Zero
    /\ tx.ctr = 5 => tx.aclk # Zero
    /\ tx.ctr \in {3, 4} => tx.gear = tx.aclk
    /\ tx.gear # Zero => tx.gctr = (tx.ctr + 3) % 6 /\ tx.aclk # Zero
    /\ tx.word.k <=> tx.ctr = 4 /\ tx.aclk # Zero
    /\ tx.word.k => tx.word.pkt = tx.aclk

\* The events owed a frame: the one chosen, the one that waits, the one in hand.
A == IF IsEvent(tx.aclk) THEN 1 ELSE 0
O == IF tx.or_null THEN 1 ELSE 0
H == IF InHand THEN 1 ELSE 0
Kept == 
    /\ tx.or_null => IsEvent(tx.tclk)
    /\ tx.aclk \in {Zero, Null} \/ IsEvent(tx.aclk)
    /\ tx.or_null /\ InHand => Phase >= gap
Owing ==
    /\ Len(todo) = A + O + H
    /\ A = 1 => todo[1].pkt = tx.aclk /\ todo[1].age <= 12 + Phase
    /\ O = 1 => todo[1 + A].pkt = tx.tclk /\ todo[1 + A].age <= 6 + Phase
    /\ H = 1 => todo[A + O + 1].pkt = [code |-> tx.byte, n |-> count[tx.byte]] /\ todo[A + O + 1].age <= gap

TxInv == TxTyped /\ Crossing /\ Counting /\ Counted /\ Pacing /\ Kept /\ Owing

-----------------------------------------------------------------------------
LEMMA Sixth ==
    ASSUME NEW c \in 0..5
    PROVE  /\ (c + 1) % 6 = IF c = 5 THEN 0 ELSE c + 1
           /\ (c + 3) % 6 = IF c < 3 THEN c + 3 ELSE c - 3
    OBVIOUS

LEMMA Shift ==
    ASSUME NEW S, NEW s \in Seq(S), Len(s) = 3, NEW x \in S
    PROVE  /\ <<x>> \o Front(s) \in Seq(S) /\ Len(<<x>> \o Front(s)) = 3
           /\ (<<x>> \o Front(s))[1] = x /\ (<<x>> \o Front(s))[2] = s[1] /\ (<<x>> \o Front(s))[3] = s[2]
    <1> DEFINE f == Front(s)
               u == <<x>>
    <1>1. f = SubSeq(s, 1, 2) /\ \A i \in 1..2 : s[i] \in S
        <2>1. f = SubSeq(s, 1, Len(s) - 1) /\ Len(s) - 1 = 2
            BY DEF Front
        <2>2. \A i \in 1..2 : s[i] \in S
            BY ElementOfSeq
        <2> QED BY <2>1, <2>2
    <1>2. f \in Seq(S) /\ Len(f) = 2 /\ f[1] = s[1] /\ f[2] = s[2]
        <2> HIDE DEF f
        <2> QED BY <1>1, SubSeqProperties
    <1>3. u \in Seq(S) /\ Len(u) = 1 /\ u[1] = x
        OBVIOUS
    <1> HIDE DEF f, u
    <1>4. /\ u \o f \in Seq(S) /\ Len(u \o f) = 3
          /\ (u \o f)[1] = u[1] /\ (u \o f)[2] = f[1] /\ (u \o f)[3] = f[2]
        <2>1. u \o f \in Seq(S) /\ Len(u \o f) = Len(u) + Len(f)
            BY <1>2, <1>3, ConcatProperties
        <2>2. \A i \in 1..Len(u) + Len(f) : (u \o f)[i] = IF i <= Len(u) THEN u[i] ELSE f[i - Len(u)]
            BY <1>2, <1>3, ConcatProperties
        <2>3. Len(u) + Len(f) = 3
            BY <1>2, <1>3
        <2>4. \A i \in 1..3 : (u \o f)[i] = IF i <= 1 THEN u[i] ELSE f[i - 1]
            BY <1>3, <2>2, <2>3
        <2> HIDE DEF u
        <2> QED BY <2>1, <2>3, <2>4
    <1> QED BY <1>2, <1>3, <1>4 DEF f, u

LEMMA Edge ==
    ASSUME TxTyped, Encode
    PROVE  /\ tx'.sync = <<tx.toggle>> \o Front(tx.sync)
           /\ tx'.ctr = (tx.ctr + 1) % 6
           /\ tx'.adv0 = (tx.ctr = 3)
           /\ tx'.adv1 = (tx.ctr = 4)
           /\ tx'.crc = <<tx.adv1>> \o Front(tx.crc)
           /\ tx'.event = IF NewEvent(tx) THEN tx.byte ELSE tx.event
           /\ tx'.st = NextState(tx)
           /\ tx'.zero = IF tx.st = "sweep" THEN (tx.zero + 1) % (LastCode + 1) ELSE 0
           /\ tx'.ram = RamWrite(tx)
           /\ tx'.q = tx.ram[Addr(tx)]
           /\ tx'.or_null = OrNull(tx)
           /\ tx'.tclk = IF StoresEvent(tx) THEN [code |-> tx.event, n |-> tx.q + 1] ELSE tx.tclk
           /\ tx'.aclk = IF tx.adv0 THEN (IF tx.or_null THEN tx.tclk ELSE Null) ELSE tx.aclk
           /\ tx'.gear = IF CrcValid(tx) THEN tx.aclk ELSE tx.gear
           /\ tx'.gctr = IF CrcValid(tx) THEN 0 ELSE (tx.gctr + 1) % 16
           /\ tx'.word = IF tx.gear # Zero /\ tx.gctr \in 0..5 THEN WordOf(tx.gear, tx.gctr) ELSE ZeroWord
    <1>1. CASE tx' = ClkTx(tx)
        BY <1>1 DEF ClkTx
    <1>2. CASE \E c \in Codes : tx' = Strobe(ClkTx(tx), c)
        BY <1>2 DEF ClkTx, Strobe
    <1> QED BY <1>1, <1>2 DEF Encode

LEMMA Fields ==
    ASSUME TxTyped
    PROVE  /\ tx.toggle \in BOOLEAN /\ tx.byte \in Codes /\ tx.sync \in Seq(BOOLEAN) /\ Len(tx.sync) = 3
           /\ tx.ctr \in 0..5 /\ tx.adv0 \in BOOLEAN /\ tx.adv1 \in BOOLEAN
           /\ tx.crc \in Seq(BOOLEAN) /\ Len(tx.crc) = 3 /\ tx.event \in Codes
           /\ tx.st \in {"start", "sweep", "wait", "read", "settle", "store"}
           /\ tx.zero \in Codes /\ tx.ram \in [Codes -> Nat] /\ tx.q \in Nat /\ tx.or_null \in BOOLEAN
           /\ tx.tclk \in Pkts /\ tx.aclk \in Pkts /\ tx.gear \in Pkts /\ tx.gctr \in 0..15
           /\ tx.word \in [k : BOOLEAN, pkt : Pkts, i : Int]
           /\ gap \in Nat /\ gap <= MinGap /\ count \in [Codes -> Nat] /\ todo \in Seq(Owed)
    BY LinkAssumption DEF TxTyped, TxRegs

LEMMA Constants ==
    /\ LastCode \in Nat /\ LastCode >= 1 /\ 0 \in Codes /\ Codes \subseteq Nat
    /\ MinGap \in Nat /\ MinGap >= 6
    /\ Zero \in Pkts /\ Null \in Pkts /\ Zero # Null
    BY EncoderAssumption, LinkAssumption DEF Codes, Zero, Null, Pkts

LEMMA Bits3 ==
    ASSUME TxTyped
    PROVE  /\ tx.toggle \in BOOLEAN /\ tx.sync[1] \in BOOLEAN /\ tx.sync[2] \in BOOLEAN /\ tx.sync[3] \in BOOLEAN
           /\ tx.crc[1] \in BOOLEAN /\ tx.crc[2] \in BOOLEAN /\ tx.crc[3] \in BOOLEAN
    <1>1. ASSUME NEW s \in Seq(BOOLEAN), Len(s) = 3 PROVE \A i \in 1..3 : s[i] \in BOOLEAN
        BY <1>1, ElementOfSeq
    <1>2. /\ tx.toggle \in BOOLEAN /\ tx.sync \in Seq(BOOLEAN) /\ Len(tx.sync) = 3
          /\ tx.crc \in Seq(BOOLEAN) /\ Len(tx.crc) = 3
        BY Fields
    <1>3. \A i \in 1..3 : tx.sync[i] \in BOOLEAN
        BY <1>1, <1>2
    <1>4. \A i \in 1..3 : tx.crc[i] \in BOOLEAN
        BY <1>1, <1>2
    <1>5. 1 \in 1..3 /\ 2 \in 1..3 /\ 3 \in 1..3
        OBVIOUS
    <1> QED BY <1>2, <1>3, <1>4, <1>5, Zenon

LEMMA ZeroNext ==
    ASSUME NEW n \in Codes
    PROVE  (n + 1) % (LastCode + 1) = IF n = LastCode THEN 0 ELSE n + 1
    <1> DEFINE d == LastCode + 1
    <1>1. d \in Nat \ {0} /\ 0 \in 0..d - 1 /\ n \in Nat /\ n <= LastCode /\ LastCode \in Nat
        BY Constants DEF Codes
    <1>2. CASE n = LastCode
        <2>1. (1 * d + 0) % d = 0
            BY <1>1, DivMod
        <2>2. 1 * d + 0 = n + 1
            BY <1>1, <1>2
        <2> QED BY <1>2, <2>1, <2>2
    <1>3. CASE n # LastCode
        <2>1. n + 1 \in 0..d - 1
            BY <1>1, <1>3
        <2>2. (0 * d + (n + 1)) % d = n + 1
            BY <1>1, <2>1, DivMod
        <2>3. 0 * d + (n + 1) = n + 1
            BY <1>1
        <2> QED BY <1>3, <2>2, <2>3
    <1> QED BY <1>2, <1>3

\* The three flops of the toggle, and of the CRC's strobe.
LEMMA Flops ==
    ASSUME TxTyped, Encode
    PROVE  /\ tx'.sync \in Seq(BOOLEAN) /\ Len(tx'.sync) = 3
           /\ tx'.sync[1] = tx.toggle /\ tx'.sync[2] = tx.sync[1] /\ tx'.sync[3] = tx.sync[2]
           /\ tx'.crc \in Seq(BOOLEAN) /\ Len(tx'.crc) = 3
           /\ tx'.crc[1] = tx.adv1 /\ tx'.crc[2] = tx.crc[1] /\ tx'.crc[3] = tx.crc[2]
    <1>1. tx'.sync = <<tx.toggle>> \o Front(tx.sync) /\ tx'.crc = <<tx.adv1>> \o Front(tx.crc)
        BY Edge
    <1>2. /\ tx.sync \in Seq(BOOLEAN) /\ Len(tx.sync) = 3 /\ tx.toggle \in BOOLEAN
          /\ tx.crc \in Seq(BOOLEAN) /\ Len(tx.crc) = 3 /\ tx.adv1 \in BOOLEAN
        BY Fields
    <1>3. /\ tx'.sync \in Seq(BOOLEAN) /\ Len(tx'.sync) = 3
          /\ tx'.sync[1] = tx.toggle /\ tx'.sync[2] = tx.sync[1] /\ tx'.sync[3] = tx.sync[2]
        <2> DEFINE t == <<tx.toggle>> \o Front(tx.sync)
        <2>1. t \in Seq(BOOLEAN) /\ Len(t) = 3 /\ t[1] = tx.toggle /\ t[2] = tx.sync[1] /\ t[3] = tx.sync[2]
            BY <1>2, Shift
        <2> HIDE DEF t
        <2>2. tx'.sync = t
            BY <1>1 DEF t
        <2> QED BY <2>1, <2>2
    <1>4. /\ tx'.crc \in Seq(BOOLEAN) /\ Len(tx'.crc) = 3
          /\ tx'.crc[1] = tx.adv1 /\ tx'.crc[2] = tx.crc[1] /\ tx'.crc[3] = tx.crc[2]
        <2> DEFINE t == <<tx.adv1>> \o Front(tx.crc)
        <2>1. t \in Seq(BOOLEAN) /\ Len(t) = 3 /\ t[1] = tx.adv1 /\ t[2] = tx.crc[1] /\ t[3] = tx.crc[2]
            BY <1>2, Shift
        <2> HIDE DEF t
        <2>2. tx'.crc = t
            BY <1>1 DEF t
        <2> QED BY <2>1, <2>2
    <1> QED BY <1>3, <1>4

LEMMA ClockTyped ==
    ASSUME TxTyped
    PROVE  /\ ClkTx(tx) \in TxRegs
           /\ Len(ClkTx(tx).sync) = 3 /\ Len(ClkTx(tx).crc) = 3
    <1> DEFINE sync == <<tx.toggle>> \o Front(tx.sync)
               crc == <<tx.adv1>> \o Front(tx.crc)
               ctr == (tx.ctr + 1) % 6
               adv0 == tx.ctr = 3
               adv1 == tx.ctr = 4
               event == IF NewEvent(tx) THEN tx.byte ELSE tx.event
               st == NextState(tx)
               zero == IF tx.st = "sweep" THEN (tx.zero + 1) % (LastCode + 1) ELSE 0
               ram == RamWrite(tx)
               q == tx.ram[Addr(tx)]
               or_null == OrNull(tx)
               tclk == IF StoresEvent(tx) THEN [code |-> tx.event, n |-> tx.q + 1] ELSE tx.tclk
               aclk == IF tx.adv0 THEN (IF tx.or_null THEN tx.tclk ELSE Null) ELSE tx.aclk
               gear == IF CrcValid(tx) THEN tx.aclk ELSE tx.gear
               gctr == IF CrcValid(tx) THEN 0 ELSE (tx.gctr + 1) % 16
               word == IF tx.gear # Zero /\ tx.gctr \in 0..5 THEN WordOf(tx.gear, tx.gctr) ELSE ZeroWord
    <1>1. sync \in Seq(BOOLEAN) /\ Len(sync) = 3 /\ crc \in Seq(BOOLEAN) /\ Len(crc) = 3
        <2>1. /\ tx.sync \in Seq(BOOLEAN) /\ Len(tx.sync) = 3 /\ tx.toggle \in BOOLEAN
              /\ tx.crc \in Seq(BOOLEAN) /\ Len(tx.crc) = 3 /\ tx.adv1 \in BOOLEAN
            BY Fields
        <2>2. sync \in Seq(BOOLEAN) /\ Len(sync) = 3
            BY <2>1, Shift
        <2>3. crc \in Seq(BOOLEAN) /\ Len(crc) = 3
            BY <2>1, Shift
        <2> QED BY <2>2, <2>3
    <1>2. ctr \in 0..5 /\ gctr \in 0..15
        <2>1. ASSUME NEW k \in 0..15 PROVE (k + 1) % 16 \in 0..15
            OBVIOUS
        <2>2. tx.gctr \in 0..15 /\ tx.ctr \in 0..5
            BY Fields
        <2>3. (tx.gctr + 1) % 16 \in 0..15 /\ 0 \in 0..15
            BY <2>1, <2>2
        <2>4. ctr \in 0..5
            BY <2>2, Sixth
        <2> QED BY <2>3, <2>4
    <1>3. adv0 \in BOOLEAN /\ adv1 \in BOOLEAN /\ or_null \in BOOLEAN
        BY Fields DEF OrNull, StoresEvent
    <1>4. event \in Codes
        BY Fields
    <1>5. st \in {"start", "sweep", "wait", "read", "settle", "store"}
        BY Fields DEF NextState
    <1>6. zero \in Codes
        <2>1. ASSUME NEW k \in Nat, NEW d \in Nat \ {0} PROVE k % d \in 0..d - 1
            OBVIOUS
        <2>2. tx.zero + 1 \in Nat /\ LastCode + 1 \in Nat \ {0} /\ Codes = 0..(LastCode + 1) - 1
            <3>1. tx.zero \in Codes
                BY Fields
            <3>2. LastCode \in Nat /\ Codes = 0..LastCode
                BY Constants DEF Codes
            <3> QED BY <3>1, <3>2
        <2>3. (tx.zero + 1) % (LastCode + 1) \in Codes
            BY <2>1, <2>2
        <2> QED BY <2>3, Constants
    <1>7. Addr(tx) \in Codes
        BY Fields DEF Addr
    <1>8. q \in Nat
        BY <1>7, Fields
    <1>9. ram \in [Codes -> Nat]
        <2>1. tx.ram \in [Codes -> Nat] /\ tx.q + 1 \in Nat /\ 0 \in Nat
            <3>1. tx.ram \in [Codes -> Nat] /\ tx.q \in Nat
                BY Fields
            <3> QED BY <3>1
        <2>2. ASSUME NEW c, NEW n \in Nat PROVE [tx.ram EXCEPT ![c] = n] \in [Codes -> Nat]
            BY <2>1, <2>2
        <2> QED BY <2>1, <2>2 DEF RamWrite
    <1>10. tclk \in Pkts /\ aclk \in Pkts /\ gear \in Pkts
        <2>1. tclk \in Pkts
            <3>1. tx.event \in Int /\ tx.q + 1 \in Int /\ tx.tclk \in Pkts
                <4>1. tx.event \in Codes /\ tx.q \in Nat /\ tx.tclk \in Pkts
                    BY Fields
                <4>2. tx.event \in Nat
                    BY <4>1, Constants
                <4> QED BY <4>1, <4>2
            <3>2. [code |-> tx.event, n |-> tx.q + 1] \in Pkts
                BY <3>1 DEF Pkts
            <3> QED BY <3>1, <3>2
        <2>2. aclk \in Pkts
            BY Fields, Constants
        <2>3. gear \in Pkts
            BY Fields
        <2> QED BY <2>1, <2>2, <2>3
    <1>11. word \in [k : BOOLEAN, pkt : Pkts, i : Int]
        BY Fields, Constants DEF WordOf, ZeroWord
    <1>12. ClkTx(tx) = [toggle |-> tx.toggle, byte |-> tx.byte, sync |-> sync, ctr |-> ctr, adv0 |-> adv0,
                        adv1 |-> adv1, crc |-> crc, event |-> event, st |-> st, zero |-> zero, ram |-> ram,
                        q |-> q, or_null |-> or_null, tclk |-> tclk, aclk |-> aclk, gear |-> gear,
                        gctr |-> gctr, word |-> word]
        BY DEF ClkTx
    <1> HIDE DEF sync, crc, ctr, adv0, adv1, event, st, zero, ram, q, or_null, tclk, aclk, gear, gctr, word
    <1> QED BY <1>1, <1>2, <1>3, <1>4, <1>5, <1>6, <1>8, <1>9, <1>10, <1>11, <1>12, Fields DEF TxRegs

LEMMA Moves ==
    ASSUME TxTyped, NEW k, k = IF Starts /\ todo # <<>> THEN 1 ELSE 0
    PROVE  /\ TodoNext \in Seq(Owed) /\ Len(TodoNext) = Len(todo) - k
           /\ \A i \in 1..Len(todo) - k : TodoNext[i].pkt = todo[i + k].pkt /\ TodoNext[i].age <= todo[i + k].age + 1
    <1> DEFINE q == IF Starts /\ todo # <<>> THEN Tail(todo) ELSE todo
    <1>1. todo \in Seq(Owed) /\ Len(todo) \in Nat
        BY Fields
    <1>2. q \in Seq(Owed) /\ Len(q) = Len(todo) - k /\ \A i \in 1..Len(todo) - k : q[i] = todo[i + k]
        <2>1. CASE Starts /\ todo # <<>>
            BY <1>1, <2>1, HeadTailProperties
        <2>2. CASE ~(Starts /\ todo # <<>>)
            BY <1>1, <2>2
        <2> QED BY <2>1, <2>2
    <1>3. TodoNext = [i \in 1..Len(q) |-> [q[i] EXCEPT !.age = UpTo(@, SendsIn + 1)]]
        <2>1. DOMAIN q = 1..Len(q)
            BY <1>2
        <2> QED BY <2>1 DEF TodoNext, Aged
    <1> HIDE DEF q
    <1>4. ASSUME NEW i \in 1..Len(q)
          PROVE  /\ [q[i] EXCEPT !.age = UpTo(@, SendsIn + 1)] \in Owed
                 /\ [q[i] EXCEPT !.age = UpTo(@, SendsIn + 1)].pkt = q[i].pkt
                 /\ [q[i] EXCEPT !.age = UpTo(@, SendsIn + 1)].age <= q[i].age + 1
        <2>1. q[i] \in Owed
            BY <1>2, ElementOfSeq
        <2>2. UpTo(q[i].age, SendsIn + 1) \in Nat /\ UpTo(q[i].age, SendsIn + 1) <= q[i].age + 1
            BY <2>1 DEF Owed, UpTo, SendsIn
        <2> QED BY <2>1, <2>2 DEF Owed
    <1>5. Len(q) \in Nat
        BY <1>2
    <1>6. TodoNext \in Seq(Owed) /\ Len(TodoNext) = Len(q)
        BY <1>3, <1>4, <1>5
    <1>7. \A i \in 1..Len(q) : TodoNext[i].pkt = q[i].pkt /\ TodoNext[i].age <= q[i].age + 1
        BY <1>3, <1>4
    <1> QED BY <1>2, <1>6, <1>7

\* A clock without a TCLK event, and one with it.
LEMMA TwoCases ==
    ASSUME TxTyped, Encode
    PROVE  \/ /\ tx'.toggle = tx.toggle /\ tx'.byte = tx.byte
              /\ gap' = (IF gap < MinGap THEN gap + 1 ELSE gap) /\ count' = count /\ todo' = TodoNext
           \/ /\ gap = MinGap /\ gap' = 0 /\ tx'.toggle = ~tx.toggle /\ tx'.byte \in Codes
              /\ IF Heeds(tx')
                 THEN /\ count' = [count EXCEPT ![tx'.byte] = @ + 1]
                      /\ todo' = Append(TodoNext, [pkt |-> [code |-> tx'.byte, n |-> count'[tx'.byte]], age |-> 0])
                 ELSE todo' = TodoNext /\ count' = count
    <1>1. ClkTx(tx) \in TxRegs /\ ClkTx(tx).toggle = tx.toggle
        BY ClockTyped DEF ClkTx
    <1>2. CASE tx' = ClkTx(tx) /\ todo' = TodoNext /\ gap' = UpTo(gap, MinGap) /\ count' = count
        <2>1. gap' = IF gap < MinGap THEN gap + 1 ELSE gap
            BY <1>2, Fields, Constants DEF UpTo
        <2> QED BY <1>2, <2>1 DEF ClkTx
    <1>3. ASSUME gap = MinGap, gap' = 0, NEW c \in Codes, tx' = Strobe(ClkTx(tx), c),
                 IF Heeds(tx')
                 THEN /\ count' = [count EXCEPT ![c] = @ + 1]
                      /\ todo' = Append(TodoNext, [pkt |-> [code |-> c, n |-> count'[c]], age |-> 0])
                 ELSE todo' = TodoNext /\ UNCHANGED count
          PROVE  /\ gap = MinGap /\ gap' = 0 /\ tx'.toggle = ~tx.toggle /\ tx'.byte \in Codes
                 /\ IF Heeds(tx')
                    THEN /\ count' = [count EXCEPT ![tx'.byte] = @ + 1]
                         /\ todo' = Append(TodoNext, [pkt |-> [code |-> tx'.byte, n |-> count'[tx'.byte]], age |-> 0])
                    ELSE todo' = TodoNext /\ count' = count
        <2>1. tx'.byte = c
            BY <1>1, <1>3 DEF Strobe, TxRegs
        <2>2. tx'.toggle = ~tx.toggle
            BY <1>1, <1>3 DEF Strobe, TxRegs
        <2> QED BY <1>3, <2>1, <2>2
    <1> QED BY <1>2, <1>3 DEF Encode

LEMMA EncodeTyped ==
    ASSUME TxTyped, Encode
    PROVE  TxTyped'
    <1>1. tx' \in TxRegs
        <2> DEFINE e == ClkTx(tx)
        <2>1. e \in TxRegs
            BY ClockTyped
        <2>2. tx' = e \/ \E c \in Codes : tx' = Strobe(e, c)
            BY DEF Encode
        <2> HIDE DEF e
        <2>3. ASSUME NEW c \in Codes PROVE Strobe(e, c) \in TxRegs
            <3>1. ASSUME NEW r \in TxRegs, NEW b \in BOOLEAN PROVE [r EXCEPT !.toggle = b] \in TxRegs
                BY <3>1 DEF TxRegs
            <3>2. ASSUME NEW r \in TxRegs PROVE [r EXCEPT !.byte = c] \in TxRegs
                BY <3>2 DEF TxRegs
            <3>3. e.toggle \in BOOLEAN
                BY <2>1 DEF TxRegs
            <3> DEFINE r == [e EXCEPT !.toggle = ~e.toggle]
            <3>4. r \in TxRegs
                BY <2>1, <3>1, <3>3
            <3>5. Strobe(e, c) = [r EXCEPT !.byte = c]
                BY <2>1 DEF Strobe, TxRegs
            <3> HIDE DEF r
            <3> QED BY <3>2, <3>4, <3>5
        <2> QED BY <2>1, <2>2, <2>3
    <1>2. Len(tx'.sync) = 3 /\ Len(tx'.crc) = 3
        BY Flops
    <1>3. /\ tx.byte \in Codes /\ gap \in Nat /\ gap <= MinGap /\ MinGap \in Nat /\ count \in [Codes -> Nat]
          /\ TodoNext \in Seq(Owed) /\ tx'.byte \in Codes
        BY <1>1, Fields, Constants, Moves DEF TxRegs
    <1>4. gap' \in 0..MinGap
        BY <1>3, TwoCases
    <1>5. count' \in [Codes -> Nat]
        BY <1>3, TwoCases
    <1>6. [pkt |-> [code |-> tx'.byte, n |-> count'[tx'.byte]], age |-> 0] \in Owed
        <2>1. tx'.byte \in Int /\ count'[tx'.byte] \in Int
            BY <1>3, <1>5, Constants
        <2> QED BY <2>1 DEF Owed, Pkts
    <1>7. todo' \in Seq(Owed)
        <2> DEFINE x == [pkt |-> [code |-> tx'.byte, n |-> count'[tx'.byte]], age |-> 0]
        <2>1. todo' = TodoNext \/ todo' = Append(TodoNext, x)
            BY TwoCases
        <2> HIDE DEF x
        <2>2. x \in Owed
            BY <1>6 DEF x
        <2> QED BY <1>3, <2>1, <2>2, AppendProperties
    <1> QED BY <1>1, <1>2, <1>4, <1>5, <1>7 DEF TxTyped

-----------------------------------------------------------------------------
\* With no event for MinGap clocks, none is on its way or in the FSM.
LEMMA Rests ==
    ASSUME TxInv, gap = MinGap
    PROVE  ~Flying /\ ~InFsm /\ ~InHand /\ tx.st \in {"start", "sweep", "wait"} /\ ~NewEvent(tx)
    BY Constants, Fields DEF TxInv, Crossing, Counting, Flying, InFsm, InHand, NewEvent

LEMMA CrossingStep ==
    ASSUME TxInv, Encode
    PROVE  Crossing'
    <1>1. tx'.sync[1] = tx.toggle /\ tx'.sync[2] = tx.sync[1] /\ tx'.sync[3] = tx.sync[2]
        BY Flops DEF TxInv
    <1>2. gap \in Nat /\ gap <= MinGap /\ MinGap \in Nat /\ MinGap >= 6
        BY Fields, Constants DEF TxInv
    <1>3. /\ tx.toggle \in BOOLEAN /\ tx.sync[1] \in BOOLEAN /\ tx.sync[2] \in BOOLEAN /\ tx.sync[3] \in BOOLEAN
          /\ tx'.toggle \in BOOLEAN
        BY Bits3, EncodeTyped DEF TxInv, TxTyped, TxRegs
    <1>4. Crossing
        BY DEF TxInv
    <1>5. \/ tx'.toggle = tx.toggle /\ gap' = IF gap < MinGap THEN gap + 1 ELSE gap
          \/ gap = MinGap /\ gap' = 0 /\ tx'.toggle = ~tx.toggle
        BY TwoCases DEF TxInv
    <1>6. CASE tx'.toggle = tx.toggle /\ gap' = IF gap < MinGap THEN gap + 1 ELSE gap
        BY <1>1, <1>2, <1>3, <1>4, <1>6 DEF Crossing, Flying
    <1>7. CASE gap = MinGap /\ gap' = 0 /\ tx'.toggle = ~tx.toggle
        BY <1>1, <1>2, <1>3, <1>4, <1>7 DEF Crossing, Flying
    <1> QED BY <1>5, <1>6, <1>7

LEMMA HandStep ==
    ASSUME TxInv, Encode
    PROVE  /\ tx'.toggle = tx.toggle => (InHand' <=> InHand /\ tx.st # "store")
           /\ tx'.toggle # tx.toggle => (InHand' <=> Heeds(tx'))
    <1>1. tx'.sync[3] = tx.sync[2]
        BY Flops DEF TxInv
    <1>2. gap \in Nat /\ gap <= MinGap /\ MinGap \in Nat /\ MinGap >= 6 /\ LastCode \in Nat /\ LastCode >= 1
        BY Fields, Constants DEF TxInv
    <1>3. /\ tx.toggle \in BOOLEAN /\ tx.sync[1] \in BOOLEAN /\ tx.sync[2] \in BOOLEAN /\ tx.sync[3] \in BOOLEAN
          /\ tx'.toggle \in BOOLEAN
        BY Bits3, EncodeTyped DEF TxInv, TxTyped, TxRegs
    <1>4. tx'.zero = IF tx.st = "sweep" /\ tx.zero # LastCode THEN tx.zero + 1 ELSE 0
        <2>1. tx.zero \in Codes
            BY Fields DEF TxInv
        <2>2. tx'.zero = IF tx.st = "sweep" THEN (tx.zero + 1) % (LastCode + 1) ELSE 0
            BY Edge DEF TxInv
        <2> QED BY <2>1, <2>2, ZeroNext
    <1>5. tx.zero \in Nat /\ tx.zero <= LastCode
        BY Fields DEF TxInv, Codes
    <1>6. NewEvent(tx) <=> Flying /\ gap = 2
        BY DEF TxInv, Crossing, NewEvent
    <1>7. /\ tx.st = "start" => tx'.st = "sweep"
          /\ tx.st = "sweep" => tx'.st = IF tx.zero = LastCode THEN "wait" ELSE "sweep"
          /\ tx.st = "wait"  => tx'.st = IF NewEvent(tx) THEN "read" ELSE "wait"
          /\ tx.st = "read"  => tx'.st = "settle"
          /\ tx.st = "settle" => tx'.st = "store"
          /\ tx.st = "store" => tx'.st = "wait"
        BY Edge DEF TxInv, NextState
    <1>8. tx.st \in {"start", "sweep", "wait", "read", "settle", "store"}
        BY Fields DEF TxInv
    <1>9. /\ Flying => gap <= 2
          /\ tx.st = "read" => gap = 3
          /\ tx.st = "settle" => gap = 4
          /\ tx.st = "store" => gap = 5
        BY DEF TxInv, Crossing, Counting
    <1>10. CASE tx'.toggle = tx.toggle
        <2>1. gap' = IF gap < MinGap THEN gap + 1 ELSE gap
            <3>1. tx'.toggle # ~tx.toggle
                BY <1>3, <1>10
            <3> QED BY <3>1, TwoCases DEF TxInv
        <2>2. Flying' <=> Flying /\ gap # 2
            BY <1>1, <1>3, <1>10 DEF TxInv, Crossing, Flying
        <2>3. CASE tx.st = "start"
            BY <1>2, <1>4, <1>5, <1>7, <1>9, <1>10, <2>1, <2>2, <2>3 DEF InHand, InFsm
        <2>4. CASE tx.st = "sweep"
            BY <1>2, <1>4, <1>5, <1>7, <1>9, <1>10, <2>1, <2>2, <2>4 DEF InHand, InFsm
        <2>5. CASE tx.st = "wait"
            BY <1>2, <1>6, <1>7, <1>9, <1>10, <2>1, <2>2, <2>5 DEF InHand, InFsm
        <2>6. CASE tx.st \in {"read", "settle", "store"}
            BY <1>2, <1>7, <1>9, <1>10, <2>1, <2>2, <2>6 DEF InHand, InFsm
        <2> QED BY <1>8, <1>10, <2>3, <2>4, <2>5, <2>6
    <1>11. CASE tx'.toggle # tx.toggle
        <2>1. gap = MinGap /\ gap' = 0
            BY <1>11, TwoCases DEF TxInv
        <2>2. ~Flying /\ tx.st \in {"start", "sweep", "wait"} /\ ~NewEvent(tx)
            BY <2>1, Rests
        <2>3. Flying'
            BY <1>1, <1>3, <1>11, <2>2 DEF TxInv, Crossing, Flying
        <2> QED BY <1>2, <1>4, <1>5, <1>7, <1>11, <2>1, <2>2, <2>3 DEF InHand, InFsm, Heeds, Sweeping
    <1> QED BY <1>10, <1>11

LEMMA PacingStep ==
    ASSUME TxInv, Encode
    PROVE  Pacing'
    <1>1. /\ tx.ctr \in 0..5 /\ tx'.ctr \in 0..5 /\ tx.gctr \in 0..15
          /\ tx.adv0 \in BOOLEAN /\ tx.adv1 \in BOOLEAN
        BY Fields, EncodeTyped DEF TxInv, TxTyped, TxRegs
    <1>2. tx'.ctr = IF tx.ctr = 5 THEN 0 ELSE tx.ctr + 1
        BY <1>1, Edge, Sixth DEF TxInv
    <1>3. tx'.crc[1] = tx.adv1 /\ tx'.crc[2] = tx.crc[1] /\ tx'.crc[3] = tx.crc[2]
        BY Flops DEF TxInv
    <1>4. tx.crc[1] \in BOOLEAN /\ tx.crc[2] \in BOOLEAN /\ tx.crc[3] \in BOOLEAN
        BY Bits3 DEF TxInv
    <1>5. Pacing
        BY DEF TxInv
    <1>6. (tx'.adv0 <=> tx'.ctr = 4) /\ (tx'.adv1 <=> tx'.ctr = 5)
        <2>1. tx'.adv0 = (tx.ctr = 3) /\ tx'.adv1 = (tx.ctr = 4)
            BY Edge DEF TxInv
        <2>2. (tx.ctr = 3 <=> tx'.ctr = 4) /\ (tx.ctr = 4 <=> tx'.ctr = 5)
            BY <1>1, <1>2
        <2> QED BY <2>1, <2>2, Zenon
    <1>7. tx'.aclk = IF tx.ctr = 4 THEN (IF tx.or_null THEN tx.tclk ELSE Null) ELSE tx.aclk
        BY <1>5, Edge DEF TxInv, Pacing
    <1>8. (tx.ctr = 4 => tx'.aclk # Zero)
        <2>1. tx.or_null => tx.tclk # Zero
            BY DEF TxInv, Kept, IsEvent, Zero
        <2> QED BY <1>7, <2>1, Constants
    <1>9. /\ tx'.crc[1] <=> tx'.ctr = 0 /\ tx'.aclk # Zero
          /\ tx'.crc[2] <=> tx'.ctr = 1 /\ tx'.aclk # Zero
          /\ tx'.crc[3] <=> tx'.ctr = 2 /\ tx'.aclk # Zero
        BY <1>1, <1>2, <1>3, <1>4, <1>5, <1>7 DEF Pacing
    <1>10. tx'.ctr = 5 => tx'.aclk # Zero
        BY <1>1, <1>2, <1>8
    <1>11. CrcValid(tx) <=> tx.ctr = 2 /\ tx.aclk # Zero
        BY <1>5 DEF Pacing, CrcValid
    <1>12. /\ tx'.gear = IF CrcValid(tx) THEN tx.aclk ELSE tx.gear
           /\ tx'.gctr = IF CrcValid(tx) THEN 0 ELSE (tx.gctr + 1) % 16
        BY Edge DEF TxInv
    <1>13. tx'.ctr \in {3, 4} => tx'.gear = tx'.aclk
        BY <1>1, <1>2, <1>5, <1>7, <1>11, <1>12 DEF Pacing
    <1>14. tx'.gear # Zero => tx'.gctr = (tx'.ctr + 3) % 6 /\ tx'.aclk # Zero
        <2>1. CASE CrcValid(tx)
            BY <1>1, <1>2, <1>7, <1>11, <1>12, <2>1, Sixth
        <2>2. CASE ~CrcValid(tx) /\ tx.gear # Zero
            <3>1. tx.ctr # 2 /\ tx.gctr = (IF tx.ctr < 3 THEN tx.ctr + 3 ELSE tx.ctr - 3) /\ tx.aclk # Zero
                BY <1>1, <1>5, <1>11, <2>2, Sixth DEF Pacing
            <3>2. tx'.gctr = tx.gctr + 1
                BY <1>1, <1>12, <2>2, <3>1
            <3>3. tx'.gctr = IF tx'.ctr < 3 THEN tx'.ctr + 3 ELSE tx'.ctr - 3
                BY <1>1, <1>2, <3>1, <3>2
            <3>4. tx'.aclk # Zero
                BY <1>7, <1>8, <3>1
            <3> QED BY <1>1, <3>3, <3>4, Sixth
        <2>3. CASE ~CrcValid(tx) /\ tx.gear = Zero
            BY <1>12, <2>3
        <2> QED BY <2>1, <2>2, <2>3
    <1>15. tx'.word = IF tx.gear # Zero /\ tx.gctr \in 0..5 THEN WordOf(tx.gear, tx.gctr) ELSE ZeroWord
        BY Edge DEF TxInv
    <1>16. tx'.word.k <=> tx.ctr = 3 /\ tx.aclk # Zero
        <2>1. tx'.word.k <=> tx.gear # Zero /\ tx.gctr = 0
            <3>1. CASE tx.gear # Zero /\ tx.gctr \in 0..5
                <4>1. tx'.word.k = (tx.gctr = 0)
                    BY <1>15, <3>1 DEF WordOf
                <4> QED BY <3>1, <4>1
            <3>2. CASE ~(tx.gear # Zero /\ tx.gctr \in 0..5)
                <4>1. ~tx'.word.k
                    BY <1>15, <3>2 DEF ZeroWord
                <4>2. tx.gctr = 0 => tx.gctr \in 0..5
                    OBVIOUS
                <4> QED BY <3>2, <4>1, <4>2
            <3> QED BY <3>1, <3>2
        <2>2. tx.gear # Zero => (tx.gctr = 0 <=> tx.ctr = 3)
            BY <1>1, <1>5, Sixth DEF Pacing
        <2>3. tx.ctr = 3 => tx.gear = tx.aclk
            BY <1>5 DEF Pacing
        <2> QED BY <2>1, <2>2, <2>3, <1>5 DEF Pacing
    <1>17. tx'.word.k <=> tx'.ctr = 4 /\ tx'.aclk # Zero
        BY <1>1, <1>2, <1>7, <1>16
    <1>18. tx'.word.k => tx'.word.pkt = tx'.aclk
        <2>1. tx'.word.k => tx'.word.pkt = tx.gear
            BY <1>15 DEF WordOf, ZeroWord
        <2>2. tx.ctr = 3 => tx.gear = tx.aclk /\ tx'.aclk = tx.aclk
            BY <1>5, <1>7 DEF Pacing
        <2> QED BY <1>16, <2>1, <2>2
    <1> QED BY <1>6, <1>9, <1>10, <1>13, <1>14, <1>17, <1>18 DEF Pacing

LEMMA StateStep ==
    ASSUME TxInv, Encode
    PROVE  /\ tx.st = "start" => tx'.st = "sweep"
           /\ tx.st = "sweep" => tx'.st = IF tx.zero = LastCode THEN "wait" ELSE "sweep"
           /\ tx.st = "wait"  => tx'.st = IF NewEvent(tx) THEN "read" ELSE "wait"
           /\ tx.st = "read"  => tx'.st = "settle"
           /\ tx.st = "settle" => tx'.st = "store"
           /\ tx.st = "store" => tx'.st = "wait"
           /\ tx.st \in {"start", "sweep", "wait", "read", "settle", "store"}
           /\ tx'.zero = IF tx.st = "sweep" /\ tx.zero # LastCode THEN tx.zero + 1 ELSE 0
           /\ NewEvent(tx) <=> Flying /\ gap = 2
    <1>1. tx.zero \in Codes /\ tx.st \in {"start", "sweep", "wait", "read", "settle", "store"}
        BY Fields DEF TxInv
    <1>2. tx'.zero = IF tx.st = "sweep" THEN (tx.zero + 1) % (LastCode + 1) ELSE 0
        BY Edge DEF TxInv
    <1>3. NewEvent(tx) <=> Flying /\ gap = 2
        BY DEF TxInv, Crossing, NewEvent
    <1>4. tx'.st = NextState(tx)
        BY Edge DEF TxInv
    <1> QED BY <1>1, <1>2, <1>3, <1>4, ZeroNext DEF NextState

\* An event in hand is no older than the FSM's last state, so that no other comes meanwhile.
LEMMA InTime ==
    ASSUME TxInv, InHand
    PROVE  gap <= 5 /\ gap # MinGap
    BY Fields, Constants DEF TxInv, Crossing, Counting, InHand, InFsm

LEMMA NoStrobe ==
    ASSUME TxInv, Encode, gap # MinGap
    PROVE  /\ tx'.toggle = tx.toggle /\ tx'.byte = tx.byte /\ gap' = gap + 1
           /\ count' = count /\ todo' = TodoNext
    <1>1. gap \in Nat /\ gap <= MinGap /\ MinGap \in Nat
        BY Fields, Constants DEF TxInv
    <1>2. gap < MinGap
        BY <1>1
    <1> QED BY <1>2, TwoCases DEF TxInv

LEMMA CountingStep ==
    ASSUME TxInv, Encode
    PROVE  Counting'
    <1>1. gap \in Nat /\ gap <= MinGap /\ MinGap \in Nat /\ MinGap >= 6
        BY Fields, Constants DEF TxInv
    <1>2. /\ tx'.event = IF NewEvent(tx) THEN tx.byte ELSE tx.event
          /\ tx'.q = tx.ram[Addr(tx)] /\ tx'.ram = RamWrite(tx)
        BY Edge DEF TxInv
    <1>3. CASE tx.st = "wait" /\ NewEvent(tx)
        <2>1. gap = 2 /\ gap # MinGap /\ tx'.st = "read"
            BY <1>1, <1>3, StateStep
        <2> QED BY <1>2, <1>3, <2>1, NoStrobe DEF Counting, InFsm
    <1>4. CASE tx.st \in {"read", "settle"}
        <2>1. InHand /\ tx.event = tx.byte
            BY <1>4 DEF TxInv, Counting, InHand, InFsm
        <2>2. gap' = gap + 1 /\ tx'.byte = tx.byte
            BY <2>1, InTime, NoStrobe
        <2>3. ~NewEvent(tx) /\ (tx.st = "read" => gap = 3) /\ (tx.st = "settle" => gap = 4)
            BY <1>4, StateStep DEF TxInv, Counting
        <2>4. tx'.event = tx.event /\ tx'.q = tx.ram[tx.event] /\ tx'.ram = tx.ram
            BY <1>2, <1>4, <2>3 DEF Addr, RamWrite, Sweeping, StoresEvent
        <2>5. tx'.st = IF tx.st = "read" THEN "settle" ELSE "store"
            BY <1>4, StateStep
        <2> QED BY <1>1, <1>4, <2>1, <2>2, <2>3, <2>4, <2>5 DEF Counting, InFsm
    <1>5. CASE ~(tx.st = "wait" /\ NewEvent(tx)) /\ ~(tx.st \in {"read", "settle"})
        <2>1. tx'.st \in {"sweep", "wait"}
            BY <1>5, StateStep
        <2> QED BY <2>1 DEF Counting, InFsm
    <1> QED BY <1>3, <1>4, <1>5

LEMMA BaseStep ==
    ASSUME TxInv, Encode, NEW c \in Codes
    PROVE  Base(c)' = IF tx.st = "store" /\ c = tx.byte THEN Base(c) + 1 ELSE Base(c)
    <1>1. count[c] \in Nat /\ (count' \in [Codes -> Nat]) /\ count \in [Codes -> Nat]
        BY Fields, EncodeTyped DEF TxInv, TxTyped
    <1>2. tx.st = "store" => InHand /\ gap # MinGap
        BY InTime DEF InHand, InFsm
    <1>3. CASE tx'.toggle = tx.toggle
        <2>1. tx'.byte = tx.byte /\ count' = count
            <3>1. tx'.toggle # ~tx.toggle
                BY <1>3, Bits3 DEF TxInv
            <3> QED BY <3>1, TwoCases DEF TxInv
        <2>2. InHand' <=> InHand /\ tx.st # "store"
            BY <1>3, HandStep
        <2> QED BY <1>1, <1>2, <2>1, <2>2 DEF Base
    <1>4. CASE tx'.toggle # tx.toggle
        <2>1. gap = MinGap
            BY <1>4, TwoCases DEF TxInv
        <2>2. ~InHand /\ tx.st # "store" /\ (InHand' <=> Heeds(tx'))
            BY <1>4, <2>1, Rests, HandStep
        <2>3. tx'.byte \in Codes
            BY <1>4, TwoCases DEF TxInv
        <2>4. count' = IF Heeds(tx') THEN [count EXCEPT ![tx'.byte] = @ + 1] ELSE count
            BY <1>4, TwoCases DEF TxInv
        <2>5. CASE Heeds(tx')
            BY <1>1, <2>2, <2>3, <2>4, <2>5 DEF Base
        <2>6. CASE ~Heeds(tx')
            BY <2>2, <2>4, <2>6 DEF Base
        <2> QED BY <2>5, <2>6
    <1> QED BY <1>3, <1>4

LEMMA CountedStep ==
    ASSUME TxInv, Encode
    PROVE  Counted'
    <1>1. tx'.st = "start" => tx'.zero = 0
        BY StateStep
    <1>2. tx.zero \in Codes /\ tx.ram \in [Codes -> Nat] /\ tx.q \in Nat /\ tx.event \in Codes
        BY Fields DEF TxInv
    <1>3. tx.zero \in Nat /\ LastCode \in Nat /\ Codes = 0..LastCode
        BY <1>2, Constants DEF Codes
    <1>4. tx'.ram = RamWrite(tx)
        BY Edge DEF TxInv
    <1>5. Counted
        BY DEF TxInv
    <1>6. CASE tx.st = "start"
        <2>1. tx'.st = "sweep" /\ tx'.zero = 0
            BY <1>6, StateStep
        <2>2. ASSUME NEW c \in Codes PROVE Base(c)' = 0 /\ (c < tx'.zero => tx'.ram[c] = 0)
            <3>1. Base(c) = 0
                BY <1>5, <1>6 DEF Counted, Sweeping
            <3>2. c \in Nat
                BY <1>3
            <3> QED BY <1>6, <2>1, <3>1, <3>2, BaseStep
        <2> QED BY <1>1, <2>1, <2>2 DEF Counted, Sweeping
    <1>7. CASE tx.st = "sweep"
        <2>1. tx'.ram = [tx.ram EXCEPT ![tx.zero] = 0]
            BY <1>4, <1>7 DEF RamWrite, Sweeping
        <2>2. ASSUME NEW c \in Codes PROVE Base(c)' = 0 /\ (c <= tx.zero => tx'.ram[c] = 0)
            <3>1. Base(c) = 0 /\ (c < tx.zero => tx.ram[c] = 0)
                BY <1>5, <1>7 DEF Counted, Sweeping
            <3>2. c <= tx.zero => tx'.ram[c] = 0
                BY <1>2, <1>3, <2>1, <3>1
            <3> QED BY <1>7, <3>1, <3>2, BaseStep
        <2>3. CASE tx.zero = LastCode
            <3>1. tx'.st = "wait"
                BY <1>7, <2>3, StateStep
            <3>2. ASSUME NEW c \in Codes PROVE Base(c)' = tx'.ram[c]
                BY <1>3, <2>2, <2>3
            <3> QED BY <1>1, <3>1, <3>2 DEF Counted, Sweeping
        <2>4. CASE tx.zero # LastCode
            <3>1. tx'.st = "sweep" /\ tx'.zero = tx.zero + 1
                BY <1>7, <2>4, StateStep
            <3>2. ASSUME NEW c \in Codes PROVE Base(c)' = 0 /\ (c < tx'.zero => tx'.ram[c] = 0)
                BY <1>3, <2>2, <3>1
            <3> QED BY <1>1, <3>1, <3>2 DEF Counted, Sweeping
        <2> QED BY <2>3, <2>4
    <1>8. CASE tx.st \in {"wait", "read", "settle", "store"}
        <2>1. tx'.st \in {"wait", "read", "settle", "store"}
            BY <1>8, StateStep
        <2>2. ASSUME NEW c \in Codes PROVE Base(c)' = tx'.ram[c]
            <3>1. Base(c) = tx.ram[c]
                BY <1>5, <1>8 DEF Counted, Sweeping
            <3>2. CASE tx.st = "store"
                <4>1. tx.event = tx.byte /\ tx.q = tx.ram[tx.event]
                    BY <3>2 DEF TxInv, Counting, InFsm
                <4>2. tx'.ram = [tx.ram EXCEPT ![tx.event] = tx.q + 1]
                    BY <1>4, <3>2 DEF RamWrite, Sweeping, StoresEvent
                <4> QED BY <1>2, <3>1, <3>2, <4>1, <4>2, BaseStep
            <3>3. CASE tx.st # "store"
                <4>1. tx'.ram = tx.ram
                    BY <1>4, <1>8, <3>3 DEF RamWrite, Sweeping, StoresEvent
                <4> QED BY <3>1, <3>3, <4>1, BaseStep
            <3> QED BY <3>2, <3>3
        <2> QED BY <1>1, <2>1, <2>2 DEF Counted, Sweeping
    <1> QED BY <1>6, <1>7, <1>8, StateStep

LEMMA KeptStep ==
    ASSUME TxInv, Encode
    PROVE  Kept'
    <1>1. /\ tx.ctr \in 0..5 /\ gap \in Nat /\ MinGap \in Nat /\ MinGap >= 6
          /\ tx.event \in Codes /\ tx.q \in Nat
        BY Fields, Constants DEF TxInv
    <1>2. tx'.ctr = IF tx.ctr = 5 THEN 0 ELSE tx.ctr + 1
        BY <1>1, Edge, Sixth DEF TxInv
    <1>3. Kept /\ (tx.adv0 <=> tx.ctr = 4)
        BY DEF TxInv, Pacing
    <1>4. tx'.or_null <=> tx.st = "store" \/ (tx.or_null /\ tx.ctr # 4)
        BY <1>3, Edge DEF TxInv, OrNull, StoresEvent
    <1>5. tx'.or_null => IsEvent(tx'.tclk)
        <2>1. tx'.tclk = IF tx.st = "store" THEN [code |-> tx.event, n |-> tx.q + 1] ELSE tx.tclk
            BY Edge DEF TxInv, StoresEvent
        <2>2. CASE tx.st = "store"
            BY <1>1, <2>1, <2>2 DEF IsEvent
        <2>3. CASE tx.st # "store"
            BY <1>3, <1>4, <2>1, <2>3 DEF Kept
        <2> QED BY <2>2, <2>3
    <1>6. tx'.aclk \in {Zero, Null} \/ IsEvent(tx'.aclk)
        <2>1. tx'.aclk = IF tx.ctr = 4 THEN (IF tx.or_null THEN tx.tclk ELSE Null) ELSE tx.aclk
            BY <1>3, Edge DEF TxInv
        <2> QED BY <1>3, <2>1 DEF Kept
    <1>7. ASSUME tx'.or_null, InHand' PROVE Phase' >= gap'
        <2>1. CASE tx'.toggle = tx.toggle
            <3>1. InHand /\ tx.st # "store"
                BY <1>7, <2>1, HandStep
            <3>2. tx.or_null /\ tx.ctr # 4 /\ Phase >= gap /\ gap' = gap + 1
                BY <1>3, <1>4, <1>7, <3>1, InTime, NoStrobe DEF Kept
            <3>3. Phase = (IF tx.ctr = 5 THEN 0 ELSE tx.ctr + 1) /\ Phase' = Phase + 1
                BY <1>1, <1>2, <3>2, Sixth DEF Phase
            <3> QED BY <1>1, <3>2, <3>3
        <2>2. CASE tx'.toggle # tx.toggle
            <3>1. gap' = 0
                BY <2>2, TwoCases DEF TxInv
            <3>2. tx'.ctr \in 0..5
                BY <1>1, <1>2
            <3> QED BY <3>1, <3>2, Sixth DEF Phase
        <2> QED BY <2>1, <2>2
    <1> QED BY <1>5, <1>6, <1>7 DEF Kept

LEMMA Leaves ==
    ASSUME TxInv
    PROVE  /\ Starts <=> tx.ctr = 4 /\ A = 1
           /\ Starts => todo # <<>> /\ Head(todo) = todo[1] /\ todo[1].pkt = tx.word.pkt
    <1>1. /\ tx.aclk \in {Zero, Null} \/ IsEvent(tx.aclk)
          /\ tx.word.k <=> tx.ctr = 4 /\ tx.aclk # Zero
          /\ tx.word.k => tx.word.pkt = tx.aclk
        BY DEF TxInv, Kept, Pacing
    <1>2. ~IsEvent(Zero) /\ ~IsEvent(Null)
        BY DEF IsEvent, Zero, Null
    <1>3. Starts <=> tx.ctr = 4 /\ IsEvent(tx.aclk)
        BY <1>1, <1>2 DEF Starts
    <1>4. A = 1 <=> IsEvent(tx.aclk)
        BY DEF A
    <1>5. Starts => todo # <<>> /\ todo[1].pkt = tx.word.pkt
        <2>1. A = 1 => Len(todo) >= 1 /\ todo[1].pkt = tx.aclk
            BY DEF TxInv, Owing, A, O, H
        <2>2. Len(todo) >= 1 => todo # <<>>
            BY Fields DEF TxInv
        <2> QED BY <1>1, <1>3, <1>4, <2>1, <2>2 DEF Starts
    <1>6. todo # <<>> => Head(todo) = todo[1]
        BY Fields DEF TxInv
    <1> QED BY <1>3, <1>4, <1>5, <1>6

LEMMA OwingStep ==
    ASSUME TxInv, Encode
    PROVE  Owing'
    <1>1. /\ tx.ctr \in 0..5 /\ gap \in Nat /\ gap <= MinGap /\ MinGap \in Nat /\ MinGap >= 6
          /\ tx.event \in Codes /\ tx.q \in Nat /\ tx.byte \in Codes /\ count \in [Codes -> Nat]
        BY Fields, Constants DEF TxInv
    <1>2. /\ A \in {0, 1} /\ O \in {0, 1} /\ H \in {0, 1} /\ A' \in {0, 1} /\ O' \in {0, 1} /\ H' \in {0, 1}
          /\ (tx.or_null <=> O = 1) /\ (InHand <=> H = 1)
        BY DEF A, O, H
    <1>0. A \in Nat /\ O \in Nat /\ H \in Nat /\ A' \in Nat /\ O' \in Nat /\ H' \in Nat
        BY <1>2
    <1>3. /\ Phase = IF tx.ctr = 5 THEN 0 ELSE tx.ctr + 1
          /\ Phase \in 0..5 /\ Phase' = IF Phase = 5 THEN 0 ELSE Phase + 1
          /\ tx.ctr = 4 <=> Phase = 5
        <2>1. tx'.ctr = IF tx.ctr = 5 THEN 0 ELSE tx.ctr + 1
            BY <1>1, Edge, Sixth DEF TxInv
        <2>2. tx'.ctr \in 0..5
            BY <1>1, <2>1
        <2> QED BY <1>1, <2>1, <2>2, Sixth DEF Phase
    <1>4. tx'.aclk = IF Phase = 5 THEN (IF O = 1 THEN tx.tclk ELSE Null) ELSE tx.aclk
        BY <1>2, <1>3, Edge DEF TxInv, Pacing
    <1>5. A' = IF Phase = 5 THEN O ELSE A
        <2>1. CASE Phase = 5 /\ O = 1
            BY <1>2, <1>4, <2>1 DEF TxInv, Kept, A
        <2>2. CASE Phase = 5 /\ O = 0
            BY <1>2, <1>4, <2>2 DEF A, IsEvent, Null
        <2>3. CASE Phase # 5
            BY <1>4, <2>3 DEF A
        <2> QED BY <1>2, <2>1, <2>2, <2>3
    <1>6. O' = IF tx.st = "store" THEN 1 ELSE IF Phase = 5 THEN 0 ELSE O
        <2>1. tx'.or_null <=> tx.st = "store" \/ (tx.or_null /\ Phase # 5)
            BY <1>3, Edge DEF TxInv, OrNull, StoresEvent, Pacing
        <2> QED BY <2>1 DEF O
    <1>7. tx.st = "store" => H = 1 /\ gap = 5 /\ (O = 1 => Phase = 5)
        BY <1>2, <1>3 DEF TxInv, Counting, Kept, InHand, InFsm
    <1>8. tx'.tclk = IF tx.st = "store" THEN [code |-> tx.byte, n |-> count[tx.byte]] ELSE tx.tclk
        <2>1. tx'.tclk = IF tx.st = "store" THEN [code |-> tx.event, n |-> tx.q + 1] ELSE tx.tclk
            BY Edge DEF TxInv, StoresEvent
        <2>2. CASE tx.st = "store"
            <3>1. tx.event = tx.byte /\ tx.q = tx.ram[tx.byte] /\ InHand
                BY <1>2, <1>7, <2>2 DEF TxInv, Counting, InFsm
            <3>2. Base(tx.byte) = tx.ram[tx.byte]
                BY <1>1, <2>2 DEF TxInv, Counted, Sweeping
            <3>3. Base(tx.byte) = count[tx.byte] - 1 /\ count[tx.byte] \in Nat
                BY <1>1, <3>1 DEF Base
            <3>4. tx.q + 1 = count[tx.byte]
                BY <3>1, <3>2, <3>3
            <3> QED BY <2>1, <2>2, <3>1, <3>4
        <2> QED BY <2>1, <2>2
    <1> DEFINE k == IF Starts /\ todo # <<>> THEN 1 ELSE 0
               t == TodoNext
    <1>9. k = IF Phase = 5 THEN A ELSE 0
        BY <1>2, <1>3, Leaves
    <1>10. /\ t \in Seq(Owed) /\ Len(t) = Len(todo) - k
           /\ \A i \in 1..Len(todo) - k : t[i].pkt = todo[i + k].pkt /\ t[i].age <= todo[i + k].age + 1
        <2>1. TxTyped /\ k = IF Starts /\ todo # <<>> THEN 1 ELSE 0
            BY DEF TxInv
        <2> HIDE DEF k
        <2> QED BY <2>1, Moves
    <1> HIDE DEF k, t
    <1>11. /\ Len(todo) = A + O + H
           /\ A = 1 => todo[1].pkt = tx.aclk /\ todo[1].age <= 12 + Phase
           /\ O = 1 => todo[1 + A].pkt = tx.tclk /\ todo[1 + A].age <= 6 + Phase
           /\ H = 1 => /\ todo[A + O + 1].pkt = [code |-> tx.byte, n |-> count[tx.byte]]
                       /\ todo[A + O + 1].age <= gap
        BY DEF TxInv, Owing
    <1>12. ASSUME NEW s \in Seq(Owed), NEW i \in 1..Len(s) PROVE s[i].age \in Nat
        <2>1. s[i] \in Owed
            BY <1>12, ElementOfSeq
        <2> QED BY <2>1 DEF Owed
    <1>13. (\A i \in 1..Len(todo) : todo[i].age \in Nat) /\ (\A i \in 1..Len(t) : t[i].age \in Nat)
        <2>1. todo \in Seq(Owed)
            BY Fields DEF TxInv
        <2> QED BY <1>10, <1>12, <2>1
    <1>14. k \in {0, 1} /\ Len(t) = A + O + H - k /\ Len(t) \in Nat
        BY <1>2, <1>3, <1>9, <1>10, <1>11
    \* The three of the next clock, in t.
    <1> DEFINE a == A'
               o == O'
               h == H'
               f == Phase'
    <1>21. /\ a \in {0, 1} /\ o \in {0, 1} /\ h \in {0, 1} /\ f \in 0..5 /\ Phase \in 0..5
           /\ f = IF Phase = 5 THEN 0 ELSE Phase + 1
           /\ a = IF Phase = 5 THEN O ELSE A
           /\ o = IF tx.st = "store" THEN 1 ELSE IF Phase = 5 THEN 0 ELSE O
        BY <1>2, <1>3, <1>5, <1>6
    <1> HIDE DEF a, o, h, f
    <1>22. a \in Nat /\ o \in Nat /\ h \in Nat /\ f \in Nat /\ Phase \in Nat /\ A \in Nat /\ O \in Nat /\ H \in Nat
        BY <1>0, <1>21
    <1>23. Len(todo) \in Nat /\ Len(t) = Len(todo) - k /\ k \in Nat /\ Len(t) \in Nat
        BY <1>10, <1>11, <1>14, <1>22
    <1>15. Len(t) = a + o + (IF tx.st = "store" THEN 0 ELSE H)
        BY <1>2, <1>21, <1>7, <1>9, <1>14
    <1>16. a = 1 => t[1].pkt = tx'.aclk /\ t[1].age <= 12 + f
        <2> SUFFICES ASSUME a = 1 PROVE t[1].pkt = tx'.aclk /\ t[1].age <= 12 + f
            OBVIOUS
        <2>1. 1 \in 1..Len(t) /\ 1 + k \in 1..Len(todo)
            <3>1. Len(t) >= 1
                BY <1>2, <1>15, <1>22
            <3> QED BY <1>14, <1>23, <3>1
        <2>2. t[1].pkt = todo[1 + k].pkt /\ t[1].age <= todo[1 + k].age + 1
            BY <1>10, <2>1
        <2>3. t[1].age \in Nat /\ todo[1 + k].age \in Nat
            BY <1>13, <2>1
        <2>4. CASE Phase = 5
            <3>1. O = 1 /\ f = 0 /\ k = A
                BY <1>9, <1>21, <2>4
            <3>2. todo[1 + k].pkt = tx.tclk /\ todo[1 + k].age <= 6 + 5
                BY <1>11, <2>4, <3>1
            <3>3. tx'.aclk = tx.tclk
                BY <1>4, <2>4, <3>1
            <3> QED BY <2>2, <2>3, <3>1, <3>2, <3>3
        <2>5. CASE Phase # 5
            <3>1. A = 1 /\ f = Phase + 1 /\ k = 0 /\ 1 + k = 1
                BY <1>9, <1>21, <2>5
            <3>2. todo[1 + k].pkt = tx.aclk /\ todo[1 + k].age <= 12 + Phase
                BY <1>11, <3>1
            <3>3. tx'.aclk = tx.aclk
                BY <1>4, <2>5
            <3> QED BY <1>22, <2>2, <2>3, <3>1, <3>2, <3>3
        <2> QED BY <2>4, <2>5
    <1>17. o = 1 => t[1 + a].pkt = tx'.tclk /\ t[1 + a].age <= 6 + f
        <2> SUFFICES ASSUME o = 1 PROVE t[1 + a].pkt = tx'.tclk /\ t[1 + a].age <= 6 + f
            OBVIOUS
        <2> DEFINE i == 1 + a
        <2>1. i \in 1..Len(t) /\ i + k \in 1..Len(todo)
            <3>1. i >= 1 /\ i <= Len(t) /\ i \in Nat
                BY <1>2, <1>15, <1>22
            <3>2. Len(t) = Len(todo) - k /\ Len(todo) \in Nat
                BY <1>23
            <3> HIDE DEF i
            <3> QED BY <1>14, <3>1, <3>2
        <2> HIDE DEF i
        <2>2. t[i].pkt = todo[i + k].pkt /\ t[i].age <= todo[i + k].age + 1
            BY <1>10, <1>14, <2>1
        <2>3. t[i].age \in Nat /\ todo[i + k].age \in Nat
            BY <1>13, <2>1
        <2>4. CASE tx.st = "store"
            <3>1. i + k = A + O + 1
                BY <1>2, <1>21, <1>7, <1>9, <2>4 DEF i
            <3>2. t[i].pkt = tx'.tclk
                BY <1>7, <1>8, <1>11, <2>2, <2>4, <3>1
            <3>3. todo[i + k].age <= 5 /\ f \in Nat
                BY <1>7, <1>11, <1>22, <2>4, <3>1
            <3>4. t[i].age <= 6 + f
                BY <2>2, <2>3, <3>3
            <3> QED BY <3>2, <3>4 DEF i
        <2>5. CASE tx.st # "store"
            <3>1. O = 1 /\ Phase # 5 /\ i + k = 1 + A
                BY <1>2, <1>21, <1>9, <2>5 DEF i
            <3>2. t[i].pkt = tx'.tclk
                BY <1>8, <1>11, <2>2, <2>5, <3>1
            <3>3. t[i].age <= 6 + f
                <4>1. f = Phase + 1 /\ todo[i + k].age <= 6 + Phase
                    BY <1>11, <1>21, <3>1
                <4> QED BY <1>22, <2>2, <2>3, <4>1
            <3> QED BY <3>2, <3>3 DEF i
        <2> QED BY <2>4, <2>5
    <1>18. ASSUME H = 1, tx.st # "store"
           PROVE  /\ t[a + o + 1].pkt = [code |-> tx.byte, n |-> count[tx.byte]]
                  /\ t[a + o + 1].age <= gap + 1
        <2> DEFINE i == a + o + 1
        <2>1. i \in 1..Len(t) /\ i + k \in 1..Len(todo) /\ i + k = A + O + 1
            BY <1>2, <1>21, <1>9, <1>10, <1>14, <1>15, <1>18
        <2> HIDE DEF i
        <2>2. t[i].pkt = todo[i + k].pkt /\ t[i].age <= todo[i + k].age + 1
            BY <1>10, <1>14, <2>1
        <2>3. t[i].age \in Nat /\ todo[i + k].age \in Nat
            BY <1>13, <2>1
        <2>4. t[i].pkt = [code |-> tx.byte, n |-> count[tx.byte]]
            BY <1>11, <1>18, <2>1, <2>2
        <2>5. t[i].age <= gap + 1
            BY <1>1, <1>11, <1>18, <2>1, <2>2, <2>3
        <2> QED BY <2>4, <2>5 DEF i
    <1>19. CASE tx'.toggle = tx.toggle
        <2>1. todo' = t /\ tx'.byte = tx.byte /\ count' = count
            <3>1. tx'.toggle # ~tx.toggle
                BY <1>19, Bits3 DEF TxInv
            <3> QED BY <3>1, TwoCases DEF TxInv, t
        <2>2. h = IF tx.st = "store" THEN 0 ELSE H
            <3>1. InHand' <=> InHand /\ tx.st # "store"
                BY <1>19, HandStep
            <3> QED BY <1>2, <1>21, <3>1 DEF H, h
        <2>3. h = 1 => gap' = gap + 1
            BY <1>2, <1>21, <2>2, InTime, NoStrobe
        <2>4. h = 1 => /\ todo'[a + o + 1].pkt = [code |-> tx'.byte, n |-> count'[tx'.byte]]
                        /\ todo'[a + o + 1].age <= gap'
            BY <1>2, <1>21, <1>18, <2>1, <2>2, <2>3
        <2>5. Len(todo') = a + o + h
            BY <1>15, <2>1, <2>2
        <2> QED BY <1>16, <1>17, <2>1, <2>4, <2>5 DEF Owing, a, o, h, f
    <1>20. CASE tx'.toggle # tx.toggle
        <2>1. gap = MinGap /\ gap' = 0
            BY <1>20, TwoCases DEF TxInv
        <2>2. H = 0 /\ tx.st # "store" /\ (h = 1 <=> Heeds(tx'))
            <3>1. ~InHand /\ tx.st # "store" /\ (InHand' <=> Heeds(tx'))
                BY <1>20, <2>1, Rests, HandStep
            <3> QED BY <3>1 DEF H, h
        <2>3. Len(t) = a + o
            BY <1>2, <1>21, <1>15, <2>2
        <2>4. CASE Heeds(tx')
            <3> DEFINE x == [pkt |-> [code |-> tx'.byte, n |-> count'[tx'.byte]], age |-> 0]
            <3>1. todo' = Append(t, x)
                BY <1>20, <2>4, TwoCases DEF TxInv, t
            <3>2. x.pkt = [code |-> tx'.byte, n |-> count'[tx'.byte]] /\ x.age = 0
                OBVIOUS
            <3> HIDE DEF x
            <3>3. Len(todo') = Len(t) + 1 /\ todo'[Len(t) + 1] = x /\ \A i \in 1..Len(t) : todo'[i] = t[i]
                BY <1>10, <3>1
            <3>4. a = 1 => todo'[1] = t[1]
                BY <1>2, <1>21, <2>3, <3>3
            <3>5. o = 1 => todo'[1 + a] = t[1 + a]
                <4>1. o = 1 => 1 + a \in 1..Len(t)
                    BY <1>22, <2>3
                <4> QED BY <3>3, <4>1
            <3>6. h = 1 /\ Len(todo') = a + o + h /\ todo'[a + o + 1] = x
                BY <2>2, <2>3, <2>4, <3>3
            <3> QED BY <1>16, <1>17, <2>1, <3>2, <3>4, <3>5, <3>6 DEF Owing, a, o, h, f
        <2>5. CASE ~Heeds(tx')
            <3>1. todo' = t
                BY <1>20, <2>5, TwoCases DEF TxInv, t
            <3>2. h = 0
                BY <1>2, <1>21, <2>2, <2>5
            <3>3. Len(todo') = a + o + h
                BY <1>22, <2>3, <3>1, <3>2
            <3> QED BY <1>16, <1>17, <3>1, <3>2, <3>3 DEF Owing, a, o, h, f
        <2> QED BY <2>4, <2>5
    <1> QED BY <1>19, <1>20

-----------------------------------------------------------------------------
LEMMA ResetFields ==
    ASSUME NEW ram \in [Codes -> Nat]
    PROVE  LET e == EncoderReset(ram)
           IN  /\ e \in TxRegs /\ Len(e.sync) = 3 /\ Len(e.crc) = 3
               /\ e.toggle = FALSE /\ e.sync[1] = FALSE /\ e.sync[2] = FALSE /\ e.sync[3] = FALSE /\ e.crc[1] = FALSE /\ e.crc[2] = FALSE /\ e.crc[3] = FALSE
               /\ e.st = "start" /\ e.zero = 0 /\ e.ctr = 0 /\ ~e.adv0 /\ ~e.adv1 /\ ~e.or_null
               /\ e.aclk = Zero /\ e.gear = Zero /\ ~e.word.k
    <1> DEFINE three == <<FALSE, FALSE, FALSE>>
    <1>1. three \in Seq(BOOLEAN) /\ Len(three) = 3 /\ three[1] = FALSE /\ three[2] = FALSE /\ three[3] = FALSE
        OBVIOUS
    <1>2. ZeroWord \in [k : BOOLEAN, pkt : Pkts, i : Int] /\ ~ZeroWord.k
        BY Constants DEF ZeroWord
    <1>3. EncoderReset(ram) =
             [toggle |-> FALSE, byte |-> 0, sync |-> three, ctr |-> 0, adv0 |-> FALSE, adv1 |-> FALSE,
              crc |-> three, event |-> 0, st |-> "start", zero |-> 0, ram |-> ram, q |-> 0, or_null |-> FALSE,
              tclk |-> Zero, aclk |-> Zero, gear |-> Zero, gctr |-> 0, word |-> ZeroWord]
        BY DEF EncoderReset
    <1> HIDE DEF three
    <1> QED BY <1>1, <1>2, <1>3, Constants DEF TxRegs

\* After a reset of the encoder nothing is owed, and the sweep is to come.
LEMMA ResetInv ==
    ASSUME NEW ram \in [Codes -> Nat], tx' = EncoderReset(ram),
           gap' \in 0..MinGap, todo' = <<>>, count' = [c \in Codes |-> 0]
    PROVE  TxInv'
    <1>1. /\ tx' \in TxRegs /\ Len(tx'.sync) = 3 /\ Len(tx'.crc) = 3
          /\ tx'.toggle = FALSE /\ tx'.sync[1] = FALSE /\ tx'.sync[2] = FALSE /\ tx'.sync[3] = FALSE
          /\ tx'.crc[1] = FALSE /\ tx'.crc[2] = FALSE /\ tx'.crc[3] = FALSE
          /\ tx'.st = "start" /\ tx'.zero = 0 /\ tx'.ctr = 0 /\ ~tx'.adv0 /\ ~tx'.adv1 /\ ~tx'.or_null
          /\ tx'.aclk = Zero /\ tx'.gear = Zero /\ ~tx'.word.k
        BY ResetFields
    <1>2. count' \in [Codes -> Nat] /\ (\A c \in Codes : count'[c] = 0) /\ Codes \subseteq Nat
        BY Constants
    <1>3. TxTyped'
        <2> DEFINE none == <<>>
        <2>1. none \in Seq(Owed)
            OBVIOUS
        <2> HIDE DEF none
        <2>2. todo' = none
            BY DEF none
        <2> QED BY <1>1, <1>2, <2>1, <2>2 DEF TxTyped
    <1>4. ~Flying' /\ ~InFsm' /\ ~InHand'
        BY <1>1 DEF Flying, InFsm, InHand
    <1>5. Crossing' /\ Counting'
        BY <1>1, <1>4 DEF Crossing, Counting
    <1>6. Counted'
        BY <1>1, <1>2, <1>4 DEF Counted, Sweeping, Base
    <1>7. Pacing'
        BY <1>1 DEF Pacing
    <1>8. ~IsEvent(Zero)
        BY DEF IsEvent, Zero
    <1>9. Kept' /\ Owing'
        BY <1>1, <1>4, <1>8 DEF Kept, Owing, A, O, H
    <1> QED BY <1>3, <1>5, <1>6, <1>7, <1>9 DEF TxInv

LEMMA EncodeInv ==
    ASSUME TxInv, Encode
    PROVE  TxInv'
    <1>1. TxTyped'
        BY EncodeTyped DEF TxInv
    <1> QED BY <1>1, CrossingStep, CountingStep, CountedStep, PacingStep, KeptStep, OwingStep DEF TxInv

\* The first state is that of a reset.
LEMMA LinkInitInv ==
    ASSUME LinkInit
    PROVE  TxInv
    <1>1. /\ [c \in Codes |-> 0] \in [Codes -> Nat] /\ (\A c \in Codes : count[c] = 0) /\ count \in [Codes -> Nat]
          /\ gap = 0 /\ 0 \in 0..MinGap /\ Codes \subseteq Nat
        BY Constants DEF LinkInit
    <1>2. tx = EncoderReset([c \in Codes |-> 0])
        BY DEF LinkInit
    <1>3. /\ tx \in TxRegs /\ Len(tx.sync) = 3 /\ Len(tx.crc) = 3
          /\ tx.toggle = FALSE /\ tx.sync[1] = FALSE /\ tx.sync[2] = FALSE /\ tx.sync[3] = FALSE
          /\ tx.crc[1] = FALSE /\ tx.crc[2] = FALSE /\ tx.crc[3] = FALSE
          /\ tx.st = "start" /\ tx.zero = 0 /\ tx.ctr = 0 /\ ~tx.adv0 /\ ~tx.adv1 /\ ~tx.or_null
          /\ tx.aclk = Zero /\ tx.gear = Zero /\ ~tx.word.k
        BY <1>1, <1>2, ResetFields
    <1>4. TxTyped
        <2> DEFINE none == <<>>
        <2>1. none \in Seq(Owed)
            OBVIOUS
        <2> HIDE DEF none
        <2>2. todo = none
            BY DEF none, LinkInit
        <2> QED BY <1>1, <1>3, <2>1, <2>2 DEF TxTyped
    <1>5. ~Flying /\ ~InFsm /\ ~InHand
        BY <1>3 DEF Flying, InFsm, InHand
    <1>6. Crossing /\ Counting
        BY <1>3, <1>5 DEF Crossing, Counting
    <1>7. Counted
        BY <1>1, <1>3, <1>5 DEF Counted, Sweeping, Base
    <1>8. Pacing
        BY <1>3 DEF Pacing
    <1>9. ~IsEvent(Zero) /\ Len(todo) = 0
        BY DEF IsEvent, Zero, LinkInit
    <1>10. Kept /\ Owing
        BY <1>3, <1>5, <1>9 DEF Kept, Owing, A, O, H
    <1> QED BY <1>4, <1>6, <1>7, <1>8, <1>10 DEF TxInv

LEMMA LinkStep ==
    ASSUME TxInv, [LinkNext]_link_vars
    PROVE  TxInv'
    <1>1. CASE Encode
        BY <1>1, EncodeInv
    <1>2. CASE TxReset
        <2>1. gap \in Nat /\ gap <= MinGap /\ MinGap \in Nat /\ tx.ram \in [Codes -> Nat]
            BY Fields, Constants DEF TxInv
        <2>2. gap' \in 0..MinGap
            BY <1>2, <2>1 DEF TxReset, UpTo
        <2> QED BY <1>2, <2>1, <2>2, ResetInv DEF TxReset
    <1>3. CASE UNCHANGED link_vars
        <2>1. tx' = tx /\ gap' = gap /\ count' = count /\ todo' = todo
            BY <1>3 DEF link_vars
        <2> QED BY <2>1 DEF TxInv, TxTyped, Crossing, Counting, Counted, Pacing, Kept, Owing,
                    Flying, InFsm, InHand, Base, Phase, A, O, H
    <1> QED BY <1>1, <1>2, <1>3 DEF LinkNext, Clock, Damage, Forge, Slip

\* From its strobe to the first word of its frame, an event of aclk_tclk_encoder.v is where its age
\* tells: in a flop, in the FSM, waiting in tclk_packet, or chosen for the frame.
THEOREM LinkInvariance == LinkSpec => []TxInv
    <1>1. LinkInit => TxInv
        BY LinkInitInv
    <1>2. TxInv /\ [LinkNext]_link_vars => TxInv'
        BY LinkStep
    <1> QED BY <1>1, <1>2, PTL DEF LinkSpec

\* The first word of a frame is that of the oldest event still owed, with its code's count since the
\* reset: nothing between tclk_davn and the gearbox loses, doubles or miscounts an event.
THEOREM CountedFrames == LinkSpec => []SentAsCounted
    <1>1. TxInv => SentAsCounted
        BY Leaves DEF SentAsCounted
    <1> QED BY <1>1, LinkInvariance, PTL

\* An event that is owed a frame waits for at most the frame being sent (tclk_or_null).
SentInTime == \A i \in DOMAIN todo : todo[i].age <= SendsIn

\* Hence the first word of its frame leaves within SendsIn clocks of the strobe.
THEOREM FramesInTime == LinkSpec => []SentInTime
    <1>1. TxInv => SentInTime
        <2> SUFFICES ASSUME TxInv, NEW i \in DOMAIN todo PROVE todo[i].age <= SendsIn
            BY DEF SentInTime
        <2>1. /\ tx.ctr \in 0..5 /\ todo \in Seq(Owed) /\ gap \in Nat
            BY Fields DEF TxInv
        <2>2. Phase \in 0..5 /\ A \in {0, 1} /\ O \in {0, 1} /\ H \in {0, 1}
            BY <2>1, Sixth DEF Phase, A, O, H
        <2>3. todo[i].age \in Nat /\ i \in 1..Len(todo)
            <3>1. i \in 1..Len(todo) /\ todo[i] \in Owed
                BY <2>1, ElementOfSeq
            <3> QED BY <3>1 DEF Owed
        <2>4. H = 1 => gap <= 5
            BY InTime DEF H
        <2>5. /\ Len(todo) = A + O + H
              /\ A = 1 => todo[1].age <= 12 + Phase
              /\ O = 1 => todo[1 + A].age <= 6 + Phase
              /\ H = 1 => todo[A + O + 1].age <= gap
            BY DEF TxInv, Owing
        <2>6. \/ A = 1 /\ i = 1
              \/ O = 1 /\ i = 1 + A
              \/ H = 1 /\ i = A + O + 1
            BY <2>2, <2>3, <2>5
        <2>7. CASE A = 1 /\ i = 1
            BY <2>2, <2>3, <2>5, <2>7 DEF SendsIn
        <2>8. CASE O = 1 /\ i = 1 + A
            BY <2>2, <2>3, <2>5, <2>8 DEF SendsIn
        <2>9. CASE H = 1 /\ i = A + O + 1
            BY <2>1, <2>3, <2>4, <2>5, <2>9 DEF SendsIn
        <2> QED BY <2>6, <2>7, <2>8, <2>9
    <1> QED BY <1>1, LinkInvariance, PTL

-----------------------------------------------------------------------------
(***************************************************************************)
(* AclkLink: the return of the lock.                                       *)
(***************************************************************************)
LinkWord == [k : BOOLEAN, pkt : Pkts, i : Int]
Verdicts == {"none", "good", "bad"}
RxRegs ==
    [reg0 : LinkWord, seq : 0..15, slots : [Slots -> LinkWord], out : [Slots -> LinkWord], present : BOOLEAN,
     check : Seq(Verdicts), pickup : 0..4, dropout : 0..4, aligned : BOOLEAN, valid : BOOLEAN]
RxTyped ==
    /\ rcv \in RxRegs /\ Len(rcv.check) = 3
    /\ rec \in [st : {"search", "locked", "recover"}, loss : Nat, rec : Nat]
    /\ gt \in [ok : BOOLEAN, lane : {0, 1}] /\ calm \in Nat

\* The word on the line is the one of its frame at Place; Since(n): the frame that the receiver
\* assembles began n clocks after the last fault or later.
Place == (tx.ctr + 2) % 6
Since(n) == calm >= Phase + n
\* Clocks from a fault until nothing resets the receiver any more.
Bound == LossWindow + RecoverLen + 12

\* After its reset the transmitter is silent until its first frame.
Sound(p) == p = Null \/ p.n > 0
Starting ==
    /\ tx.aclk = Zero => calm <= tx.ctr
    /\ tx.gear = Zero => calm <= IF tx.aclk = Zero THEN tx.ctr ELSE 5 + Phase
    /\ tx.gear # Zero => Sound(tx.gear)
Framing ==
    calm >= Place + 10 => /\ tx.word = WordOf(tx.word.pkt, Place) /\ Sound(tx.word.pkt)
                          /\ Place # 5 => tx.gear = tx.word.pkt

\* While the GT is out of alignment, garbage comes through, and what was good before it runs out;
\* nothing then leads to a lock, and one that is left is found out.
Dud(w) == ~Sound(w.pkt)
DudIn(f) == \E i \in Slots : Dud(f[i])
Deaf ==
    ~gt.ok =>
      /\ calm >= 1 => Dud(rcv.reg0)
      /\ calm >= 2 /\ rcv.seq % 8 \notin {0, 7} => DudIn(rcv.slots)
      /\ calm >= 3 /\ rcv.seq % 8 # 0 => DudIn(rcv.slots)
      /\ calm >= 4 => DudIn(rcv.slots)
      /\ calm >= 5 /\ rcv.present => DudIn(rcv.out)
      /\ calm >= 6 => rcv.check[1] # "good"
      /\ calm >= 7 => rcv.check[2] # "good"
      /\ calm >= 8 => rcv.check[3] # "good"
      /\ rec.st = "search" /\ rcv.aligned => calm <= 8
      /\ rec.st = "locked" => calm <= rec.loss + 9
Recovering ==
    /\ rec.st = "locked" => rec.loss <= LossWindow
    /\ rec.st = "recover" => rec.rec <= RecoverLen /\ calm <= LossWindow + 10 + rec.rec

\* Then the GT is aligned, the receiver in step with the sender, its frames are whole, it counts
\* them, and the FSM locks.
Audible == Since(LossWindow + 11) => gt.ok
Together ==
    Since(Bound + 6) =>
      /\ rcv.seq = 8 * gt.lane + Phase
      /\ rcv.reg0 = WordOf(rcv.reg0.pkt, Phase) /\ Sound(rcv.reg0.pkt)
      /\ \A j \in 0..Phase - 1 : rcv.slots[j] = WordOf(rcv.reg0.pkt, j)
      /\ Phase # 5 => tx.word.pkt = rcv.reg0.pkt
      /\ Phase >= 1 => (rcv.present <=> Phase = 1)
      /\ Phase >= 2 => (rcv.check[1] = "none" <=> Phase # 2)
      /\ Phase >= 3 => (rcv.check[2] = "none" <=> Phase # 3)
      /\ Phase >= 4 => (rcv.check[3] = "none" <=> Phase # 4)
Presents ==
    Since(Bound + 12) =>
      /\ Phase = 0 => Intact(rcv.slots) /\ ~rcv.present
      /\ Phase = 1 => Intact(rcv.out)
      /\ rcv.check[1] = IF Phase = 2 THEN "good" ELSE "none"
      /\ rcv.check[2] = IF Phase = 3 THEN "good" ELSE "none"
      /\ rcv.check[3] = IF Phase = 4 THEN "good" ELSE "none"
PicksUp ==
    /\ \A k \in 0..4 : Since(Bound + 12 + 6 * k) => rcv.pickup >= IF Phase = 5 /\ k < 4 THEN k + 1 ELSE k
    /\ Since(Bound + 36) /\ Phase = 5 => rcv.aligned
    /\ Since(Bound + 42) => rcv.aligned
    /\ Since(Bound + 42) /\ Phase # 0 => rec.st = "locked"
    /\ Since(Bound + 48) => rec.st = "locked"

RxInv ==
    /\ RxTyped /\ Starting /\ Framing /\ Deaf /\ Recovering
    /\ Audible /\ Together /\ Presents /\ PicksUp

-----------------------------------------------------------------------------
LEMMA RxFields ==
    ASSUME RxTyped
    PROVE  /\ rcv.reg0 \in LinkWord /\ rcv.seq \in 0..15 /\ rcv.slots \in [Slots -> LinkWord]
           /\ rcv.out \in [Slots -> LinkWord] /\ rcv.present \in BOOLEAN
           /\ rcv.check \in Seq(Verdicts) /\ Len(rcv.check) = 3
           /\ rcv.pickup \in 0..4 /\ rcv.dropout \in 0..4 /\ rcv.aligned \in BOOLEAN /\ rcv.valid \in BOOLEAN
           /\ rec.st \in {"search", "locked", "recover"} /\ rec.loss \in Nat /\ rec.rec \in Nat
           /\ gt.ok \in BOOLEAN /\ gt.lane \in {0, 1} /\ calm \in Nat
    BY DEF RxTyped, RxRegs

LEMMA RxConstants ==
    /\ LossWindow \in Nat /\ RecoverLen \in Nat /\ Bound \in Nat /\ Bound = LossWindow + RecoverLen + 12
    /\ Relock \in Nat /\ Relock = Bound + 54
    BY ReceiverAssumption DEF Bound, Relock

LEMMA RxWords ==
    /\ Garbage \in LinkWord /\ ZeroWord \in LinkWord
    /\ Dud(Garbage) /\ Dud(ZeroWord) /\ ~Garbage.k
    BY DEF Garbage, ZeroWord, LinkWord, Pkts, Zero, Null, Dud, Sound

\* The clock of a frame, seen from the receiver and from the line.
LEMMA Times ==
    ASSUME TxTyped
    PROVE  /\ tx.ctr \in 0..5 /\ Phase \in 0..5 /\ Place \in 0..5
           /\ Phase = IF tx.ctr = 5 THEN 0 ELSE tx.ctr + 1
           /\ Place = IF Phase = 5 THEN 0 ELSE Phase + 1
           /\ Place = IF tx.ctr < 4 THEN tx.ctr + 2 ELSE tx.ctr - 4
    <1>1. tx.ctr \in 0..5
        BY Fields
    <1>2. ASSUME NEW c \in 0..5
          PROVE  /\ (c + 1) % 6 = IF c = 5 THEN 0 ELSE c + 1
                 /\ (c + 2) % 6 = IF c < 4 THEN c + 2 ELSE c - 4
        OBVIOUS
    <1>3. Phase = (IF tx.ctr = 5 THEN 0 ELSE tx.ctr + 1) /\ Place = IF tx.ctr < 4 THEN tx.ctr + 2 ELSE tx.ctr - 4
        BY <1>1, <1>2 DEF Phase, Place
    <1> QED BY <1>1, <1>3

LEMMA TimesNext ==
    ASSUME TxTyped, Encode
    PROVE  /\ tx'.ctr = IF tx.ctr = 5 THEN 0 ELSE tx.ctr + 1
           /\ Phase' = IF Phase = 5 THEN 0 ELSE Phase + 1
           /\ Place' = (tx.ctr + 3) % 6
           /\ Place' = IF Place = 5 THEN 0 ELSE Place + 1
           /\ Phase' \in 0..5 /\ Place' \in 0..5
    <1>1. tx.ctr \in 0..5 /\ tx'.ctr = IF tx.ctr = 5 THEN 0 ELSE tx.ctr + 1
        BY Fields, Edge, Sixth
    <1>2. tx'.ctr \in 0..5
        BY <1>1
    <1>3. ASSUME NEW c \in 0..5
          PROVE  /\ (c + 1) % 6 = IF c = 5 THEN 0 ELSE c + 1
                 /\ (c + 2) % 6 = IF c < 4 THEN c + 2 ELSE c - 4
                 /\ (c + 3) % 6 = IF c < 3 THEN c + 3 ELSE c - 3
        OBVIOUS
    <1>4. /\ Phase' = (IF tx'.ctr = 5 THEN 0 ELSE tx'.ctr + 1)
          /\ Place' = IF tx'.ctr < 4 THEN tx'.ctr + 2 ELSE tx'.ctr - 4
        BY <1>2, <1>3 DEF Phase, Place
    <1>5. (tx.ctr + 3) % 6 = IF tx.ctr < 3 THEN tx.ctr + 3 ELSE tx.ctr - 3
        BY <1>1, <1>3
    <1> QED BY <1>1, <1>4, <1>5, Times

\* Of the sender: its first choice after a reset is at the end of the fifth clock, its gearbox
\* has it four clocks later.
LEMMA StartingStep ==
    ASSUME TxInv, RxInv, Encode, calm' \in Nat, calm' <= calm + 1
    PROVE  Starting'
    <1>1. calm \in Nat /\ Starting
        BY RxFields DEF RxInv
    <1>2. /\ tx.ctr \in 0..5 /\ Phase \in 0..5 /\ Phase = (IF tx.ctr = 5 THEN 0 ELSE tx.ctr + 1)
          /\ tx'.ctr = (IF tx.ctr = 5 THEN 0 ELSE tx.ctr + 1)
          /\ Phase' = IF Phase = 5 THEN 0 ELSE Phase + 1
        BY Times, TimesNext DEF TxInv
    <1>3. /\ tx.adv0 <=> tx.ctr = 4
          /\ CrcValid(tx) <=> tx.ctr = 2 /\ tx.aclk # Zero
          /\ tx.ctr = 5 => tx.aclk # Zero
          /\ tx.ctr \in {3, 4} => tx.gear = tx.aclk
          /\ tx.or_null => IsEvent(tx.tclk)
          /\ tx.aclk \in {Zero, Null} \/ IsEvent(tx.aclk)
        BY DEF TxInv, Pacing, Kept, CrcValid
    <1>4. /\ tx'.aclk = IF tx.ctr = 4 THEN (IF tx.or_null THEN tx.tclk ELSE Null) ELSE tx.aclk
          /\ tx'.gear = IF CrcValid(tx) THEN tx.aclk ELSE tx.gear
        BY <1>3, Edge DEF TxInv
    <1>5. tx'.aclk = Zero => tx.aclk = Zero /\ tx.ctr # 4 /\ tx.ctr # 5
        <2>1. tx.or_null => tx.tclk # Zero
            BY <1>3 DEF IsEvent, Zero
        <2> QED BY <1>3, <1>4, <2>1, Constants
    <1>6. tx'.aclk = Zero => calm' <= tx'.ctr
        BY <1>1, <1>2, <1>5 DEF Starting
    <1>7. tx'.gear = Zero => calm' <= IF tx'.aclk = Zero THEN tx'.ctr ELSE 5 + Phase'
        <2> SUFFICES ASSUME tx'.gear = Zero, tx'.aclk # Zero PROVE calm' <= 5 + Phase'
            BY <1>6
        <2>1. tx.gear = Zero
            BY <1>3, <1>4
        <2>2. CASE tx.aclk = Zero
            <3>1. tx.ctr = 4 /\ calm <= tx.ctr
                BY <1>1, <1>4, <2>2 DEF Starting
            <3> QED BY <1>1, <1>2, <3>1
        <2>3. CASE tx.aclk # Zero
            <3>1. calm <= 5 + Phase /\ tx.ctr # 4
                BY <1>1, <1>3, <2>1, <2>3 DEF Starting
            <3> QED BY <1>1, <1>2, <3>1
        <2> QED BY <2>2, <2>3
    <1>8. tx'.gear # Zero => Sound(tx'.gear)
        BY <1>1, <1>3, <1>4 DEF Starting, Sound, IsEvent
    <1> QED BY <1>6, <1>7, <1>8 DEF Starting

LEMMA FramingStep ==
    ASSUME TxInv, RxInv, Encode, calm' \in Nat, calm' <= calm + 1
    PROVE  Framing'
    <1> SUFFICES ASSUME calm' >= Place' + 10
                 PROVE  /\ tx'.word = WordOf(tx'.word.pkt, Place') /\ Sound(tx'.word.pkt)
                        /\ Place' # 5 => tx'.gear = tx'.word.pkt
        BY DEF Framing
    <1>1. calm \in Nat /\ Starting /\ Place' \in 0..5 /\ Place' = (tx.ctr + 3) % 6
        BY RxFields, TimesNext DEF RxInv, TxInv
    <1>2. /\ tx.ctr \in 0..5 /\ Phase \in 0..5 /\ Phase = (IF tx.ctr = 5 THEN 0 ELSE tx.ctr + 1)
          /\ Place' = IF tx.ctr < 3 THEN tx.ctr + 3 ELSE tx.ctr - 3
        BY <1>1, Times, Sixth DEF TxInv
    <1>3. /\ CrcValid(tx) <=> tx.ctr = 2 /\ tx.aclk # Zero
          /\ tx.ctr \in {3, 4} => tx.gear = tx.aclk
          /\ tx.gear # Zero => tx.gctr = (tx.ctr + 3) % 6
        BY DEF TxInv, Pacing, CrcValid
    <1>4. calm >= 9
        BY <1>1
    <1>5. tx.gear # Zero
        <2>1. CASE tx.aclk = Zero
            BY <1>1, <1>2, <1>4, <2>1 DEF Starting
        <2>2. CASE tx.aclk # Zero
            <3>1. tx.gear = Zero => calm <= 5 + Phase /\ tx.ctr \notin {3, 4}
                BY <1>1, <1>3, <2>2 DEF Starting
            <3> QED BY <1>1, <1>2, <1>4, <3>1
        <2> QED BY <2>1, <2>2
    <1>6. tx.gctr = Place' /\ tx.gctr \in 0..5 /\ Sound(tx.gear)
        BY <1>1, <1>3, <1>5 DEF Starting
    <1>7. tx'.word = WordOf(tx.gear, Place')
        BY <1>5, <1>6, Edge DEF TxInv
    <1>8. tx'.word.pkt = tx.gear
        BY <1>7 DEF WordOf
    <1>9. Place' # 5 => tx'.gear = tx.gear
        <2>1. tx'.gear = IF CrcValid(tx) THEN tx.aclk ELSE tx.gear
            BY Edge DEF TxInv
        <2>2. Place' # 5 => tx.ctr # 2
            BY <1>2
        <2> QED BY <1>3, <2>1, <2>2
    <1> QED BY <1>6, <1>7, <1>8, <1>9

\* The recovery FSM.
LEMMA RecMoves ==
    ASSUME RxTyped, rec' = RecoveryClk(rec, rcv.aligned, gt.ok)
    PROVE  /\ rec.st = "search" => /\ rec'.st = IF rcv.aligned THEN "locked" ELSE "search"
                                   /\ rec'.loss = 0 /\ rec'.rec = 0
           /\ rec.st = "locked" => IF ~gt.ok /\ rec.loss >= LossWindow
                                   THEN rec'.st = "recover" /\ rec'.loss = rec.loss + 1 /\ rec'.rec = 0
                                   ELSE /\ rec'.st = "locked" /\ rec'.rec = rec.rec
                                        /\ rec'.loss = IF gt.ok THEN 0 ELSE rec.loss + 1
           /\ rec.st = "recover" => /\ rec'.st = IF rec.rec >= RecoverLen THEN "search" ELSE "recover"
                                    /\ rec'.loss = rec.loss /\ rec'.rec = rec.rec + 1
           /\ rec' \in [st : {"search", "locked", "recover"}, loss : Nat, rec : Nat]
           /\ (rec.st = "locked" => rec.loss <= LossWindow) => (rec'.st = "locked" => rec'.loss <= LossWindow)
           /\ (rec.st = "recover" => rec.rec <= RecoverLen) => (rec'.st = "recover" => rec'.rec <= RecoverLen)
    <1>1. /\ rec \in [st : {"search", "locked", "recover"}, loss : Nat, rec : Nat]
          /\ rec.st \in {"search", "locked", "recover"} /\ rec.loss \in Nat /\ rec.rec \in Nat
          /\ LossWindow \in Nat /\ RecoverLen \in Nat
        BY RxFields, RxConstants DEF RxTyped
    <1>2. CASE rec.st = "search"
        <2>1. rec' = [st |-> IF rcv.aligned THEN "locked" ELSE "search", loss |-> 0, rec |-> 0]
            BY <1>2 DEF RecoveryClk
        <2> QED BY <1>1, <1>2, <2>1
    <1>3. CASE rec.st = "locked" /\ ~gt.ok /\ rec.loss >= LossWindow
        <2>1. rec' = [st |-> "recover", loss |-> rec.loss + 1, rec |-> 0]
            BY <1>3 DEF RecoveryClk
        <2> QED BY <1>1, <1>3, <2>1
    <1>4. CASE rec.st = "locked" /\ ~(~gt.ok /\ rec.loss >= LossWindow)
        <2>1. rec' = [rec EXCEPT !.loss = IF gt.ok THEN 0 ELSE rec.loss + 1]
            BY <1>1, <1>4 DEF RecoveryClk
        <2>2. rec'.st = "locked" /\ rec'.rec = rec.rec /\ rec'.loss = IF gt.ok THEN 0 ELSE rec.loss + 1
            BY <1>1, <1>4, <2>1
        <2>3. rec' \in [st : {"search", "locked", "recover"}, loss : Nat, rec : Nat]
            BY <1>1, <2>1
        <2>4. rec'.loss <= LossWindow \/ ~(rec.loss <= LossWindow)
            BY <1>1, <1>4, <2>2
        <2> QED BY <1>4, <2>2, <2>3, <2>4
    <1>5. CASE rec.st = "recover"
        <2>1. rec' = [rec EXCEPT !.rec = rec.rec + 1, !.st = IF rec.rec >= RecoverLen THEN "search" ELSE "recover"]
            BY <1>1, <1>5 DEF RecoveryClk
        <2>2. rec'.st = (IF rec.rec >= RecoverLen THEN "search" ELSE "recover") /\ rec'.rec = rec.rec + 1
              /\ rec'.loss = rec.loss
            BY <1>1, <2>1
        <2>3. rec' \in [st : {"search", "locked", "recover"}, loss : Nat, rec : Nat]
            <3> DEFINE s == IF rec.rec >= RecoverLen THEN "search" ELSE "recover"
            <3>1. s \in {"search", "locked", "recover"} /\ rec.rec + 1 \in Nat
                BY <1>1
            <3>2. rec' = [rec EXCEPT !.rec = rec.rec + 1, !.st = s]
                BY <2>1
            <3> HIDE DEF s
            <3>3. rec' = [st |-> s, loss |-> rec.loss, rec |-> rec.rec + 1]
                BY <1>1, <3>2
            <3> QED BY <1>1, <3>1, <3>3
        <2> QED BY <1>1, <1>5, <2>2, <2>3
    <1> QED BY <1>1, <1>2, <1>3, <1>4, <1>5

\* One edge of the receiver.
LEMMA RxEdge ==
    ASSUME RxTyped, NEW w, rcv' = ReceiverClk(rcv, w, gt.lane)
    PROVE  /\ rcv'.reg0 = w
           /\ rcv'.seq = IF w.k THEN 8 * gt.lane ELSE (rcv.seq + 1) % 16
           /\ rcv'.slots = Fill(rcv, w, gt.lane)
           /\ rcv'.out = IF rcv.seq % 8 = 0 THEN rcv.slots ELSE rcv.out
           /\ rcv'.present = (rcv.seq % 8 = 0)
           /\ rcv'.check \in Seq(Verdicts) /\ Len(rcv'.check) = 3
           /\ rcv'.check[1] = Verdict(rcv) /\ rcv'.check[2] = rcv.check[1] /\ rcv'.check[3] = rcv.check[2]
           /\ rcv'.pickup = IF rcv.check[3] = "good" THEN (IF rcv.pickup = 4 THEN 4 ELSE rcv.pickup + 1)
                            ELSE IF rcv.check[3] = "bad" THEN 0 ELSE rcv.pickup
           /\ rcv'.dropout = IF rcv.check[3] = "bad" THEN (IF rcv.dropout = 4 THEN 4 ELSE rcv.dropout + 1)
                             ELSE IF rcv.check[3] = "good" THEN 0 ELSE rcv.dropout
           /\ rcv'.aligned = IF rcv.check[3] = "good" /\ rcv.pickup = 4 THEN TRUE
                             ELSE IF rcv.check[3] = "bad" /\ rcv.dropout = 4 THEN FALSE ELSE rcv.aligned
           /\ rcv'.valid = (rcv.check[3] = "good" /\ rcv.aligned)
    <1> DEFINE t == <<Verdict(rcv)>> \o Front(rcv.check)
    <1>1. rcv.check \in Seq(Verdicts) /\ Len(rcv.check) = 3 /\ Verdict(rcv) \in Verdicts
        BY RxFields DEF Verdict, Verdicts
    <1>2. t \in Seq(Verdicts) /\ Len(t) = 3 /\ t[1] = Verdict(rcv) /\ t[2] = rcv.check[1] /\ t[3] = rcv.check[2]
        BY <1>1, Shift
    <1>3. rcv'.check = t
        BY DEF ReceiverClk
    <1> HIDE DEF t
    <1>4. /\ rcv'.reg0 = w
          /\ rcv'.seq = IF w.k THEN 8 * gt.lane ELSE (rcv.seq + 1) % 16
          /\ rcv'.slots = Fill(rcv, w, gt.lane)
          /\ rcv'.out = IF rcv.seq % 8 = 0 THEN rcv.slots ELSE rcv.out
          /\ rcv'.present = (rcv.seq % 8 = 0)
          /\ rcv'.valid = (rcv.check[3] = "good" /\ rcv.aligned)
        BY DEF ReceiverClk, NextSeq, Checked
    <1>5. rcv'.pickup = IF rcv.check[3] = "good" THEN (IF rcv.pickup = 4 THEN 4 ELSE rcv.pickup + 1)
                        ELSE IF rcv.check[3] = "bad" THEN 0 ELSE rcv.pickup
        BY DEF ReceiverClk, Checked
    <1>6. rcv'.dropout = IF rcv.check[3] = "bad" THEN (IF rcv.dropout = 4 THEN 4 ELSE rcv.dropout + 1)
                         ELSE IF rcv.check[3] = "good" THEN 0 ELSE rcv.dropout
        BY DEF ReceiverClk, Checked
    <1>7. rcv'.aligned = IF rcv.check[3] = "good" /\ rcv.pickup = 4 THEN TRUE
                         ELSE IF rcv.check[3] = "bad" /\ rcv.dropout = 4 THEN FALSE ELSE rcv.aligned
        BY DEF ReceiverClk, Checked
    <1> QED BY <1>2, <1>3, <1>4, <1>5, <1>6, <1>7

LEMMA FillIs ==
    ASSUME RxTyped, NEW w \in LinkWord, NEW f, f = Fill(rcv, w, gt.lane)
    PROVE  /\ f \in [Slots -> LinkWord]
           /\ \A j \in Slots : j # rcv.seq % 8 => f[j] = rcv.slots[j]
           /\ rcv.seq % 8 \in Slots => f[rcv.seq % 8] = Assembled(rcv, w, gt.lane)
    <1>1. rcv.slots \in [Slots -> LinkWord] /\ rcv.reg0 \in LinkWord
        BY RxFields
    <1>2. Assembled(rcv, w, gt.lane) \in LinkWord
        <2>1. [k |-> FALSE, pkt |-> Null, i |-> -1] \in LinkWord
            BY Constants DEF LinkWord
        <2> QED BY <1>1, <2>1, RxWords DEF Assembled
    <1>3. f = IF rcv.seq % 8 \in Slots THEN [rcv.slots EXCEPT ![rcv.seq % 8] = Assembled(rcv, w, gt.lane)] ELSE rcv.slots
        BY DEF Fill
    <1> DEFINE n == rcv.seq % 8
               a == Assembled(rcv, w, gt.lane)
    <1> HIDE DEF n, a
    <1>4. f = (IF n \in Slots THEN [rcv.slots EXCEPT ![n] = a] ELSE rcv.slots) /\ a \in LinkWord
        BY <1>2, <1>3 DEF n, a
    <1>5. f \in [Slots -> LinkWord]
        BY <1>1, <1>4
    <1>6. \A j \in Slots : j # n => f[j] = rcv.slots[j]
        BY <1>1, <1>4
    <1>7. n \in Slots => f[n] = a
        BY <1>1, <1>4
    <1> QED BY <1>5, <1>6, <1>7 DEF n, a

LEMMA ResetReceiver ==
    /\ ReceiverReset \in RxRegs /\ Len(ReceiverReset.check) = 3
    /\ ReceiverReset.reg0 = ZeroWord /\ (\A i \in Slots : ReceiverReset.slots[i] = ZeroWord)
    /\ ReceiverReset.present = FALSE /\ ReceiverReset.aligned = FALSE
    /\ ReceiverReset.check[1] = "none" /\ ReceiverReset.check[2] = "none" /\ ReceiverReset.check[3] = "none"
    <1> DEFINE none == <<"none", "none", "none">>
               zero == [i \in Slots |-> ZeroWord]
    <1>1. none \in Seq(Verdicts) /\ Len(none) = 3 /\ none[1] = "none" /\ none[2] = "none" /\ none[3] = "none"
        BY DEF Verdicts
    <1>2. zero \in [Slots -> LinkWord] /\ \A i \in Slots : zero[i] = ZeroWord
        BY RxWords
    <1>3. ReceiverReset = [reg0 |-> ZeroWord, seq |-> 0, slots |-> zero, out |-> zero, present |-> FALSE,
                           check |-> none, pickup |-> 0, dropout |-> 0, aligned |-> FALSE, valid |-> FALSE]
        BY DEF ReceiverReset
    <1> HIDE DEF none, zero
    <1> QED BY <1>1, <1>2, <1>3, RxWords DEF RxRegs

LEMMA ReceiveTyped ==
    ASSUME RxTyped, NEW w \in LinkWord, Receive(w)
    PROVE  rcv' \in RxRegs /\ Len(rcv'.check) = 3
    <1>1. CASE rcv' = ReceiverReset
        BY <1>1, ResetReceiver
    <1>2. CASE rcv' = ReceiverClk(rcv, w, gt.lane)
        <2> DEFINE S == Seq(Verdicts)
                   F == [Slots -> LinkWord]
        <2>1. /\ rcv.slots \in F /\ rcv.out \in F /\ rcv.seq \in 0..15 /\ gt.lane \in {0, 1}
              /\ rcv.pickup \in 0..4 /\ rcv.dropout \in 0..4 /\ rcv.aligned \in BOOLEAN
            BY RxFields
        <2>2. Fill(rcv, w, gt.lane) \in F
            BY FillIs
        <2>3. rcv'.check \in S /\ Len(rcv'.check) = 3
            BY <1>2, RxEdge
        <2>4. rcv'.seq \in 0..15
            <3>1. (rcv.seq + 1) % 16 \in 0..15
                BY <2>1
            <3>2. 8 * gt.lane \in 0..15
                BY <2>1
            <3>3. rcv'.seq = 8 * gt.lane \/ rcv'.seq = (rcv.seq + 1) % 16
                BY <1>2, RxEdge
            <3> QED BY <3>1, <3>2, <3>3
        <2>5. rcv'.pickup \in 0..4 /\ rcv'.dropout \in 0..4
            <3>1. ASSUME NEW n \in 0..4 PROVE (IF n = 4 THEN 4 ELSE n + 1) \in 0..4 /\ 0 \in 0..4
                OBVIOUS
            <3>2. rcv'.pickup \in {IF rcv.pickup = 4 THEN 4 ELSE rcv.pickup + 1, 0, rcv.pickup}
                BY <1>2, RxEdge
            <3>3. rcv'.dropout \in {IF rcv.dropout = 4 THEN 4 ELSE rcv.dropout + 1, 0, rcv.dropout}
                BY <1>2, RxEdge
            <3>4. (IF rcv.pickup = 4 THEN 4 ELSE rcv.pickup + 1) \in 0..4 /\ 0 \in 0..4
                BY <2>1, <3>1
            <3>5. (IF rcv.dropout = 4 THEN 4 ELSE rcv.dropout + 1) \in 0..4
                BY <2>1, <3>1
            <3> QED BY <2>1, <3>2, <3>3, <3>4, <3>5
        <2>6. rcv'.aligned \in BOOLEAN /\ rcv'.valid \in BOOLEAN /\ rcv'.present \in BOOLEAN
            <3>1. rcv'.aligned \in {TRUE, FALSE, rcv.aligned}
                BY <1>2, RxEdge
            <3>2. rcv'.aligned \in BOOLEAN
                BY <2>1, <3>1
            <3>3. rcv'.valid \in BOOLEAN
                BY <1>2, RxEdge
            <3>4. rcv'.present \in BOOLEAN
                BY <1>2, RxEdge
            <3> QED BY <3>2, <3>3, <3>4
        <2>7. rcv'.slots \in F /\ rcv'.out \in F /\ rcv'.reg0 \in LinkWord
            <3>1. /\ rcv'.slots = Fill(rcv, w, gt.lane) /\ rcv'.reg0 = w
                  /\ rcv'.out \in {rcv.slots, rcv.out}
                BY <1>2, RxEdge
            <3> HIDE DEF F
            <3> QED BY <2>1, <2>2, <3>1
        <2>8. rcv' = [reg0 |-> rcv'.reg0, seq |-> rcv'.seq, slots |-> rcv'.slots, out |-> rcv'.out,
                      present |-> rcv'.present, check |-> rcv'.check, pickup |-> rcv'.pickup,
                      dropout |-> rcv'.dropout, aligned |-> rcv'.aligned, valid |-> rcv'.valid]
            BY <1>2 DEF ReceiverClk
        <2>9. RxRegs = [reg0 : LinkWord, seq : 0..15, slots : F, out : F, present : BOOLEAN, check : S,
                        pickup : 0..4, dropout : 0..4, aligned : BOOLEAN, valid : BOOLEAN]
            BY DEF RxRegs
        <2> HIDE DEF S, F
        <2> QED BY <2>3, <2>4, <2>5, <2>6, <2>7, <2>8, <2>9
    <1> QED BY <1>1, <1>2 DEF Receive

\* A clock without a fault, as the receiver's side sees it.
LEMMA ClockFacts ==
    ASSUME TxTyped, RxTyped, Clock
    PROVE  /\ Encode /\ calm' \in Nat /\ calm' <= calm + 1
           /\ Delivered \in LinkWord /\ Receive(Delivered)
           /\ Delivered = IF gt.ok THEN tx.word ELSE Garbage
           /\ rec' = RecoveryClk(rec, rcv.aligned, gt.ok)
           /\ rcv' = IF rec.st = "recover" \/ rec'.st = "recover" THEN ReceiverReset
                     ELSE ReceiverClk(rcv, Delivered, gt.lane)
           /\ gt' \in [ok : BOOLEAN, lane : {0, 1}]
           /\ gt.ok => gt' = gt
           /\ ~gt.ok /\ rec.st # "locked" /\ tx.word.k => gt'.ok
    <1>1. Encode /\ Receive(Delivered) /\ Align
        BY DEF Clock
    <1>2. calm' \in Nat /\ calm' <= calm + 1
        BY RxFields, RxConstants DEF Clock, UpTo
    <1>3. Delivered = (IF gt.ok THEN tx.word ELSE Garbage) /\ tx.word \in LinkWord
        BY Fields DEF Delivered, LinkWord
    <1>4. /\ rec' = RecoveryClk(rec, rcv.aligned, gt.ok)
          /\ rcv' = IF rec.st = "recover" \/ rec'.st = "recover" THEN ReceiverReset
                    ELSE ReceiverClk(rcv, Delivered, gt.lane)
        BY <1>1 DEF Receive
    <1>5. gt \in [ok : BOOLEAN, lane : {0, 1}]
        BY DEF RxTyped
    <1>6. /\ gt' \in [ok : BOOLEAN, lane : {0, 1}]
          /\ gt.ok => gt' = gt
          /\ ~gt.ok /\ rec.st # "locked" /\ tx.word.k => gt'.ok
        BY <1>1, <1>5 DEF Align, AlignEn
    <1> QED BY <1>1, <1>2, <1>3, <1>4, <1>6, RxWords

LEMMA DudsTell ==
    ASSUME NEW f, DudIn(f)
    PROVE  ~Intact(f)
    <1> SUFFICES ASSUME Intact(f) PROVE FALSE
        OBVIOUS
    <1>1. PICK i \in Slots : Dud(f[i])
        BY DEF DudIn
    <1>2. f[i].pkt = f[1].pkt /\ (f[1].pkt = Null \/ f[1].pkt.n > 0)
        BY DEF Intact
    <1> QED BY <1>1, <1>2 DEF Dud, Sound

LEMMA Wraps ==
    ASSUME NEW n \in 0..15
    PROVE  /\ n % 8 \in 0..7
           /\ ((n + 1) % 16) % 8 = IF n % 8 = 7 THEN 0 ELSE (n % 8) + 1
    OBVIOUS

\* What a receiver that hears garbage does with it.
LEMMA HearsGarbage ==
    ASSUME RxTyped, rcv' = ReceiverClk(rcv, Garbage, gt.lane)
    PROVE  /\ Dud(rcv'.reg0)
           /\ rcv.seq % 8 \in 0..7 /\ rcv'.seq % 8 = IF rcv.seq % 8 = 7 THEN 0 ELSE (rcv.seq % 8) + 1
           /\ Dud(rcv.reg0) /\ rcv.seq % 8 \in Slots => DudIn(rcv'.slots)
           /\ rcv.seq % 8 \notin Slots => rcv'.slots = rcv.slots
    <1>1. /\ rcv'.reg0 = Garbage /\ rcv'.slots = Fill(rcv, Garbage, gt.lane)
          /\ rcv'.seq = IF Garbage.k THEN 8 * gt.lane ELSE (rcv.seq + 1) % 16
        BY RxEdge
    <1>2. rcv'.seq = (rcv.seq + 1) % 16
        BY <1>1, RxWords
    <1>3. rcv.seq \in 0..15
        BY RxFields
    <1>4. Dud(rcv.reg0) => Dud(Assembled(rcv, Garbage, gt.lane))
        BY RxWords DEF Assembled, Dud, Sound
    <1>5. ASSUME Dud(rcv.reg0), rcv.seq % 8 \in Slots PROVE DudIn(rcv'.slots)
        <2>1. rcv'.slots[rcv.seq % 8] = Assembled(rcv, Garbage, gt.lane)
            BY <1>1, <1>5, FillIs, RxWords
        <2> QED BY <1>4, <1>5, <2>1 DEF DudIn
    <1>6. rcv.seq % 8 \notin Slots => rcv'.slots = rcv.slots
        BY <1>1 DEF Fill
    <1> QED BY <1>1, <1>2, <1>3, <1>5, <1>6, Wraps, RxWords

LEMMA DeafStep ==
    ASSUME TxInv, RxInv, Clock
    PROVE  Deaf'
    <1> SUFFICES ASSUME ~gt'.ok
                 PROVE  /\ calm' >= 1 => Dud(rcv'.reg0)
                        /\ calm' >= 2 /\ rcv'.seq % 8 \notin {0, 7} => DudIn(rcv'.slots)
                        /\ calm' >= 3 /\ rcv'.seq % 8 # 0 => DudIn(rcv'.slots)
                        /\ calm' >= 4 => DudIn(rcv'.slots)
                        /\ calm' >= 5 /\ rcv'.present => DudIn(rcv'.out)
                        /\ calm' >= 6 => rcv'.check[1] # "good"
                        /\ calm' >= 7 => rcv'.check[2] # "good"
                        /\ calm' >= 8 => rcv'.check[3] # "good"
                        /\ rec'.st = "search" /\ rcv'.aligned => calm' <= 8
                        /\ rec'.st = "locked" => calm' <= rec'.loss + 9
        BY DEF Deaf
    <1>1. TxTyped /\ RxTyped
        BY DEF TxInv, RxInv
    <1>2. ~gt.ok /\ Delivered = Garbage /\ calm \in Nat /\ calm' \in Nat /\ calm' <= calm + 1
        BY <1>1, ClockFacts, RxFields
    <1>3. rec' = RecoveryClk(rec, rcv.aligned, gt.ok)
        BY <1>1, ClockFacts
    <1>4. /\ calm >= 1 => Dud(rcv.reg0)
          /\ calm >= 2 /\ rcv.seq % 8 \notin {0, 7} => DudIn(rcv.slots)
          /\ calm >= 3 /\ rcv.seq % 8 # 0 => DudIn(rcv.slots)
          /\ calm >= 4 => DudIn(rcv.slots)
          /\ calm >= 5 /\ rcv.present => DudIn(rcv.out)
          /\ calm >= 6 => rcv.check[1] # "good"
          /\ calm >= 7 => rcv.check[2] # "good"
          /\ calm >= 8 => rcv.check[3] # "good"
          /\ rec.st = "search" /\ rcv.aligned => calm <= 8
          /\ rec.st = "locked" => calm <= rec.loss + 9
        BY <1>2 DEF RxInv, Deaf
    <1>5. rec.st \in {"search", "locked", "recover"} /\ rec.loss \in Nat
        BY <1>1, RxFields
    <1>6. CASE rec.st = "recover" \/ rec'.st = "recover"
        <2>1. rcv' = ReceiverReset
            BY <1>1, <1>6, ClockFacts
        <2>2. rec'.st # "locked"
            BY <1>1, <1>3, <1>5, <1>6, RecMoves
        <2>3. /\ Dud(rcv'.reg0) /\ DudIn(rcv'.slots) /\ ~rcv'.present /\ ~rcv'.aligned
              /\ rcv'.check[1] # "good" /\ rcv'.check[2] # "good" /\ rcv'.check[3] # "good"
            BY <2>1, ResetReceiver, RxWords DEF DudIn, Slots
        <2> QED BY <2>2, <2>3
    <1>7. CASE ~(rec.st = "recover" \/ rec'.st = "recover")
        <2>1. rcv' = ReceiverClk(rcv, Garbage, gt.lane)
            BY <1>1, <1>2, <1>7, ClockFacts
        <2> DEFINE n == rcv.seq % 8
                   m == rcv'.seq % 8
        <2>2. /\ Dud(rcv'.reg0) /\ n \in 0..7 /\ m = IF n = 7 THEN 0 ELSE n + 1
              /\ Dud(rcv.reg0) /\ n \in Slots => DudIn(rcv'.slots)
              /\ n \notin Slots => rcv'.slots = rcv.slots
            BY <1>1, <2>1, HearsGarbage
        <2>3. /\ rcv'.present = (n = 0) /\ rcv'.out = IF n = 0 THEN rcv.slots ELSE rcv.out
              /\ rcv'.check[1] = Verdict(rcv) /\ rcv'.check[2] = rcv.check[1] /\ rcv'.check[3] = rcv.check[2]
              /\ rcv'.aligned => rcv.check[3] = "good" \/ rcv.aligned
            BY <1>1, <2>1, RxEdge
        <2>4. /\ calm >= 2 /\ n \notin {0, 7} => DudIn(rcv.slots)
              /\ calm >= 3 /\ n # 0 => DudIn(rcv.slots)
            BY <1>4
        <2> HIDE DEF n, m
        <2>5. n \in Slots \/ n = 6 \/ n = 7
            BY <2>2 DEF Slots
        <2>6. /\ calm' >= 2 /\ m \notin {0, 7} => DudIn(rcv'.slots)
              /\ calm' >= 3 /\ m # 0 => DudIn(rcv'.slots)
              /\ calm' >= 4 => DudIn(rcv'.slots)
            <3>1. CASE n \in Slots
                BY <1>2, <1>4, <2>2, <3>1
            <3>2. CASE n = 6
                <4>1. rcv'.slots = rcv.slots /\ m = 7
                    BY <2>2, <3>2 DEF Slots
                <4> QED BY <1>2, <2>4, <3>2, <4>1
            <3>3. CASE n = 7
                <4>1. rcv'.slots = rcv.slots /\ m = 0
                    BY <2>2, <3>3 DEF Slots
                <4> QED BY <1>2, <2>4, <3>3, <4>1
            <3> QED BY <2>5, <3>1, <3>2, <3>3
        <2>7. calm' >= 5 /\ rcv'.present => DudIn(rcv'.out)
            <3>1. CASE n = 0
                <4>1. rcv'.out = rcv.slots
                    BY <2>3, <3>1
                <4>2. calm' >= 5 => DudIn(rcv.slots)
                    BY <1>2, <1>4
                <4> QED BY <4>1, <4>2
            <3>2. CASE n # 0
                BY <2>3, <3>2
            <3> QED BY <3>1, <3>2
        <2>8. calm' >= 6 => rcv'.check[1] # "good"
            BY <1>2, <1>4, <2>3, DudsTell DEF Verdict
        <2>9. (calm' >= 7 => rcv'.check[2] # "good") /\ (calm' >= 8 => rcv'.check[3] # "good")
            BY <1>2, <1>4, <2>3
        <2>10. rec'.st = "search" /\ rcv'.aligned => calm' <= 8
            <3>1. rec'.st = "search" => rec.st = "search" /\ ~rcv.aligned
                BY <1>1, <1>3, <1>5, <1>7, RecMoves
            <3> QED BY <1>2, <1>4, <2>3, <3>1
        <2>11. rec'.st = "locked" => calm' <= rec'.loss + 9
            <3>1. CASE rec.st = "search"
                <4>1. rec'.st = "locked" => rcv.aligned /\ rec'.loss = 0
                    BY <1>1, <1>3, <3>1, RecMoves
                <4> QED BY <1>2, <1>4, <3>1, <4>1
            <3>2. CASE rec.st = "locked"
                <4>1. rec'.st = "locked" => rec'.loss = rec.loss + 1
                    BY <1>1, <1>2, <1>3, <3>2, RecMoves
                <4> QED BY <1>2, <1>4, <1>5, <3>2, <4>1
            <3> QED BY <1>5, <1>7, <3>1, <3>2
        <2> QED BY <2>2, <2>6, <2>7, <2>8, <2>9, <2>10, <2>11 DEF m
    <1> QED BY <1>6, <1>7

\* A recovery begins LossWindow + 9 clocks after the fault at the latest.
LEMMA RecoveringStep ==
    ASSUME TxInv, RxInv, Clock
    PROVE  Recovering'
    <1>1. TxTyped /\ RxTyped /\ Recovering
        BY DEF TxInv, RxInv
    <1>2. calm \in Nat /\ calm' \in Nat /\ calm' <= calm + 1 /\ LossWindow \in Nat /\ RecoverLen \in Nat
        BY <1>1, ClockFacts, RxFields, RxConstants
    <1>3. rec.st \in {"search", "locked", "recover"} /\ rec.loss \in Nat /\ rec.rec \in Nat
        BY <1>1, RxFields
    <1>4. /\ rec.st = "locked" => rec.loss <= LossWindow
          /\ rec.st = "recover" => rec.rec <= RecoverLen /\ calm <= LossWindow + 10 + rec.rec
        BY <1>1 DEF Recovering
    <1>5. rec' = RecoveryClk(rec, rcv.aligned, gt.ok)
        BY <1>1, ClockFacts
    <1>6. /\ rec'.st = "locked" => rec'.loss <= LossWindow
          /\ rec'.st = "recover" => rec'.rec <= RecoverLen
        BY <1>1, <1>4, <1>5, RecMoves
    <1>7. rec'.st = "recover" => calm' <= LossWindow + 10 + rec'.rec
        <2>1. CASE rec.st = "search"
            BY <1>1, <1>5, <2>1, RecMoves
        <2>2. CASE rec.st = "locked"
            <3>1. rec'.st = "recover" => ~gt.ok /\ rec'.rec = 0
                BY <1>1, <1>5, <2>2, RecMoves
            <3>2. ~gt.ok => calm <= rec.loss + 9
                BY <2>2 DEF RxInv, Deaf
            <3> QED BY <1>2, <1>3, <1>4, <2>2, <3>1, <3>2
        <2>3. CASE rec.st = "recover"
            <3>1. rec'.rec = rec.rec + 1
                BY <1>1, <1>5, <2>3, RecMoves
            <3> QED BY <1>2, <1>3, <1>4, <2>3, <3>1
        <2> QED BY <1>3, <2>1, <2>2, <2>3
    <1> QED BY <1>6, <1>7 DEF Recovering

\* The first comma after that finds the GT free to align on it.
LEMMA AudibleStep ==
    ASSUME TxInv, RxInv, Clock
    PROVE  Audible'
    <1> SUFFICES ASSUME calm' >= Phase' + (LossWindow + 11) PROVE gt'.ok
        BY DEF Audible, Since
    <1>1. TxTyped /\ RxTyped
        BY DEF TxInv, RxInv
    <1>2. calm \in Nat /\ calm' \in Nat /\ calm' <= calm + 1 /\ LossWindow \in Nat
        BY <1>1, ClockFacts, RxFields, RxConstants
    <1>3. /\ Phase \in 0..5 /\ Place = (IF Phase = 5 THEN 0 ELSE Phase + 1)
          /\ Phase' = (IF Phase = 5 THEN 0 ELSE Phase + 1)
        BY <1>1, ClockFacts, Times, TimesNext
    <1>4. gt.ok => gt'.ok
        BY <1>1, ClockFacts
    <1>5. CASE Phase # 5
        <2>1. calm >= Phase + (LossWindow + 11)
            BY <1>2, <1>3, <1>5
        <2>2. gt.ok
            BY <2>1 DEF RxInv, Audible, Since
        <2> QED BY <1>4, <2>2
    <1>6. CASE Phase = 5
        <2>1. calm >= LossWindow + 10 /\ Place = 0
            BY <1>2, <1>3, <1>6
        <2>2. tx.word.k
            <3>1. calm >= Place + 10
                BY <1>2, <2>1
            <3>2. tx.word = WordOf(tx.word.pkt, Place)
                BY <3>1 DEF RxInv, Framing
            <3>3. WordOf(tx.word.pkt, 0).k = TRUE
                BY DEF WordOf
            <3> QED BY <2>1, <3>2, <3>3
        <2>3. ~gt.ok => rec.st # "locked"
            <3> SUFFICES ASSUME ~gt.ok, rec.st = "locked" PROVE FALSE
                OBVIOUS
            <3>1. calm <= rec.loss + 9
                BY DEF RxInv, Deaf
            <3>2. rec.loss <= LossWindow /\ rec.loss \in Nat
                BY <1>1, RxFields DEF RxInv, Recovering
            <3> QED BY <1>2, <2>1, <3>1, <3>2
        <2> QED BY <1>1, <1>4, <2>2, <2>3, ClockFacts
    <1> QED BY <1>5, <1>6

\* From then on nothing resets the receiver.
LEMMA LetAlone ==
    ASSUME TxInv, RxInv, Clock, calm >= Bound - 1
    PROVE  /\ rec.st # "recover" /\ rec'.st # "recover"
           /\ rcv' = ReceiverClk(rcv, Delivered, gt.lane)
    <1>1. TxTyped /\ RxTyped
        BY DEF TxInv, RxInv
    <1>2. calm \in Nat /\ LossWindow \in Nat /\ RecoverLen \in Nat /\ calm >= LossWindow + RecoverLen + 11
        BY <1>1, RxFields, RxConstants
    <1>3. rec.st \in {"search", "locked", "recover"} /\ rec.loss \in Nat /\ rec.rec \in Nat
        BY <1>1, RxFields
    <1>4. rec.st # "recover"
        <2>1. rec.st = "recover" => rec.rec <= RecoverLen /\ calm <= LossWindow + 10 + rec.rec
            BY DEF RxInv, Recovering
        <2> QED BY <1>2, <1>3, <2>1
    <1>5. rec.st = "locked" => gt.ok
        <2> SUFFICES ASSUME ~gt.ok, rec.st = "locked" PROVE FALSE
            OBVIOUS
        <2>1. calm <= rec.loss + 9 /\ rec.loss <= LossWindow
            BY DEF RxInv, Deaf, Recovering
        <2> QED BY <1>2, <1>3, <2>1
    <1>6. rec'.st # "recover"
        BY <1>1, <1>3, <1>4, <1>5, ClockFacts, RecMoves
    <1> QED BY <1>1, <1>4, <1>6, ClockFacts

\* Which word lane 0 or 1 has at place j of the frame.
LEMMA Slotting ==
    ASSUME NEW lane \in {0, 1}, NEW p \in 0..5
    PROVE  /\ (8 * lane + p) \div 8 = lane /\ (8 * lane + p) % 8 = p
           /\ 8 * lane + p \in 0..15 /\ (8 * lane + p + 1) % 16 = 8 * lane + p + 1
    OBVIOUS

\* The receiver takes the word of the sender's place into its register.
LEMMA Listens ==
    ASSUME TxInv, RxInv, Clock, calm >= Bound + 5
    PROVE  /\ gt.ok /\ gt' = gt /\ rcv' = ReceiverClk(rcv, tx.word, gt.lane)
           /\ rcv'.reg0 = tx.word
           /\ tx.word = WordOf(tx.word.pkt, Phase') /\ Sound(tx.word.pkt)
           /\ tx.word.k <=> Phase' = 0
           /\ Phase' # 5 => tx'.word.pkt = tx.word.pkt
    <1>1. TxTyped /\ RxTyped
        BY DEF TxInv, RxInv
    <1>2. calm \in Nat /\ LossWindow \in Nat /\ Bound \in Nat /\ Bound >= LossWindow + 12
        BY <1>1, RxFields, RxConstants
    <1>3. /\ Phase \in 0..5 /\ Place = (IF Phase = 5 THEN 0 ELSE Phase + 1)
          /\ Phase' = (IF Phase = 5 THEN 0 ELSE Phase + 1)
        BY <1>1, ClockFacts, Times, TimesNext
    <1>4. gt.ok
        <2>1. calm >= Phase + (LossWindow + 11)
            BY <1>2, <1>3
        <2> QED BY <2>1 DEF RxInv, Audible, Since
    <1>5. rcv' = ReceiverClk(rcv, tx.word, gt.lane) /\ gt' = gt
        <2>1. calm >= Bound - 1
            BY <1>2
        <2> QED BY <1>1, <1>4, <2>1, ClockFacts, LetAlone
    <1>6. rcv'.reg0 = tx.word
        BY <1>1, <1>5, RxEdge
    <1>7. /\ tx.word = WordOf(tx.word.pkt, Phase') /\ Sound(tx.word.pkt)
          /\ Phase' # 5 => tx.gear = tx.word.pkt
        <2>1. calm >= Place + 10 /\ Place = Phase'
            BY <1>2, <1>3
        <2>2. /\ tx.word = WordOf(tx.word.pkt, Place) /\ Sound(tx.word.pkt)
              /\ Place # 5 => tx.gear = tx.word.pkt
            BY <2>1 DEF RxInv, Framing
        <2> QED BY <2>1, <2>2
    <1>8. tx.word.k <=> Phase' = 0
        <2>1. WordOf(tx.word.pkt, Phase').k <=> Phase' = 0
            BY DEF WordOf
        <2> QED BY <1>7, <2>1
    <1>9. Phase' # 5 => tx'.word.pkt = tx.word.pkt
        <2> SUFFICES ASSUME Phase' # 5 PROVE tx'.word.pkt = tx.gear
            BY <1>7
        <2>1. tx.gear # Zero
            BY <1>7 DEF Sound, Zero, Null
        <2>2. tx.gctr \in 0..5
            <3>1. tx.gctr = (tx.ctr + 3) % 6 /\ tx.ctr \in 0..5
                BY <1>1, <2>1, Fields DEF TxInv, Pacing
            <3> QED BY <3>1, Sixth
        <2>3. tx'.word = WordOf(tx.gear, tx.gctr)
            BY <1>1, <2>1, <2>2, ClockFacts, Edge
        <2> QED BY <2>3 DEF WordOf
    <1> QED BY <1>4, <1>5, <1>6, <1>7, <1>8, <1>9

\* A receiver in step puts the word of its register into the slot of its place.
LEMMA TogetherMoves ==
    ASSUME TxInv, RxInv, Clock, calm >= Phase + (Bound + 6)
    PROVE  /\ rcv'.seq % 8 \in 0..5
           /\ rcv'.seq = 8 * gt.lane + Phase'
           /\ rcv'.slots[Phase] = rcv.reg0
           /\ \A j \in Slots : j # Phase => rcv'.slots[j] = rcv.slots[j]
           /\ rcv'.present <=> Phase = 0
           /\ rcv'.out = IF Phase = 0 THEN rcv.slots ELSE rcv.out
           /\ rcv.reg0 = WordOf(rcv.reg0.pkt, Phase) /\ Sound(rcv.reg0.pkt)
           /\ \A j \in 0..Phase - 1 : rcv.slots[j] = WordOf(rcv.reg0.pkt, j)
           /\ Phase # 5 => tx.word.pkt = rcv.reg0.pkt
    <1>1. TxTyped /\ RxTyped
        BY DEF TxInv, RxInv
    <1>2. calm \in Nat /\ Bound \in Nat
        BY <1>1, RxFields, RxConstants
    <1>3. Phase \in 0..5 /\ Phase' = (IF Phase = 5 THEN 0 ELSE Phase + 1) /\ Phase' \in 0..5
        BY <1>1, ClockFacts, Times, TimesNext
    <1>4. /\ rcv' = ReceiverClk(rcv, tx.word, gt.lane)
          /\ tx.word.k <=> Phase' = 0
        <2>1. calm >= Bound + 5
            BY <1>2, <1>3
        <2> QED BY <2>1, Listens
    <1>5. /\ rcv.seq = 8 * gt.lane + Phase /\ gt.lane \in {0, 1}
          /\ rcv.reg0 = WordOf(rcv.reg0.pkt, Phase) /\ Sound(rcv.reg0.pkt)
          /\ \A j \in 0..Phase - 1 : rcv.slots[j] = WordOf(rcv.reg0.pkt, j)
          /\ Phase # 5 => tx.word.pkt = rcv.reg0.pkt
        BY <1>1, RxFields DEF RxInv, Together, Since
    <1>6. rcv.seq \div 8 = gt.lane /\ rcv.seq % 8 = Phase /\ (rcv.seq + 1) % 16 = 8 * gt.lane + Phase + 1
        BY <1>3, <1>5, Slotting
    <1>7. rcv'.slots = Fill(rcv, tx.word, gt.lane)
          /\ rcv'.seq = IF tx.word.k THEN 8 * gt.lane ELSE (rcv.seq + 1) % 16
        BY <1>1, <1>4, RxEdge
    <1>8. rcv'.seq = 8 * gt.lane + Phase'
        <2>1. CASE Phase = 5
            BY <1>3, <1>4, <1>5, <1>7, <2>1
        <2>2. CASE Phase # 5
            <3>1. Phase' = Phase + 1 /\ Phase' # 0 /\ rcv'.seq = (rcv.seq + 1) % 16
                BY <1>3, <1>4, <1>7, <2>2
            <3> QED BY <1>3, <1>5, <1>6, <3>1
        <2> QED BY <2>1, <2>2
    <1>9. rcv'.seq % 8 \in 0..5
        BY <1>3, <1>5, <1>8, Slotting
    <1>10. /\ rcv'.slots[Phase] = rcv.reg0
           /\ \A j \in Slots : j # Phase => rcv'.slots[j] = rcv.slots[j]
        <2>1. tx.word \in LinkWord
            BY <1>1, Fields DEF LinkWord
        <2>2. Assembled(rcv, tx.word, gt.lane) = rcv.reg0
            BY <1>6 DEF Assembled
        <2>3. Phase \in Slots
            BY <1>3 DEF Slots
        <2> QED BY <1>1, <1>6, <1>7, <2>1, <2>2, <2>3, FillIs
    <1>11. (rcv'.present <=> Phase = 0) /\ rcv'.out = IF Phase = 0 THEN rcv.slots ELSE rcv.out
        BY <1>1, <1>4, <1>6, RxEdge
    <1> QED BY <1>5, <1>8, <1>9, <1>10, <1>11

LEMMA TogetherStep ==
    ASSUME TxInv, RxInv, Clock
    PROVE  Together'
    <1> SUFFICES ASSUME calm' >= Phase' + (Bound + 6)
                 PROVE  /\ rcv'.seq = 8 * gt'.lane + Phase'
                        /\ rcv'.reg0 = WordOf(rcv'.reg0.pkt, Phase') /\ Sound(rcv'.reg0.pkt)
                        /\ \A j \in 0..Phase' - 1 : rcv'.slots[j] = WordOf(rcv'.reg0.pkt, j)
                        /\ Phase' # 5 => tx'.word.pkt = rcv'.reg0.pkt
                        /\ Phase' >= 1 => (rcv'.present <=> Phase' = 1)
                        /\ Phase' >= 2 => (rcv'.check[1] = "none" <=> Phase' # 2)
                        /\ Phase' >= 3 => (rcv'.check[2] = "none" <=> Phase' # 3)
                        /\ Phase' >= 4 => (rcv'.check[3] = "none" <=> Phase' # 4)
        BY DEF Together, Since, Bound
    <1>1. TxTyped /\ RxTyped
        BY DEF TxInv, RxInv
    <1>2. calm \in Nat /\ calm' \in Nat /\ calm' <= calm + 1 /\ Bound \in Nat
        BY <1>1, ClockFacts, RxFields, RxConstants
    <1>3. Phase \in 0..5 /\ Phase' = (IF Phase = 5 THEN 0 ELSE Phase + 1) /\ Phase' \in 0..5
        BY <1>1, ClockFacts, Times, TimesNext
    <1>4. calm >= Bound + 5
        BY <1>2, <1>3
    <1>5. /\ gt' = gt /\ rcv' = ReceiverClk(rcv, tx.word, gt.lane)
          /\ rcv'.reg0 = tx.word
          /\ tx.word = WordOf(tx.word.pkt, Phase') /\ Sound(tx.word.pkt)
          /\ tx.word.k <=> Phase' = 0
          /\ Phase' # 5 => tx'.word.pkt = tx.word.pkt
        BY <1>4, Listens
    <1>6. CASE Phase = 5
        <2>1. rcv'.seq = 8 * gt.lane /\ gt.lane \in {0, 1}
            <3>1. gt.lane \in {0, 1}
                BY <1>1, RxFields
            <3>2. rcv'.seq = IF tx.word.k THEN 8 * gt.lane ELSE (rcv.seq + 1) % 16
                BY <1>1, <1>5, RxEdge
            <3>3. tx.word.k
                BY <1>3, <1>5, <1>6
            <3> QED BY <3>1, <3>2, <3>3
        <2>2. rcv'.seq = 8 * gt'.lane + Phase'
            BY <1>3, <1>5, <1>6, <2>1
        <2>3. Phase' = 0
            BY <1>3, <1>6
        <2>4. \A j \in 0..Phase' - 1 : FALSE
            BY <2>3
        <2> QED BY <1>5, <2>2, <2>3, <2>4
    <1>7. CASE Phase # 5
        <2>1. calm >= Phase + (Bound + 6) /\ Phase' = Phase + 1
            BY <1>2, <1>3, <1>7
        <2>2. /\ rcv'.seq = 8 * gt.lane + Phase'
              /\ rcv'.slots[Phase] = rcv.reg0
              /\ \A j \in Slots : j # Phase => rcv'.slots[j] = rcv.slots[j]
              /\ rcv'.present <=> Phase = 0
              /\ rcv.reg0 = WordOf(rcv.reg0.pkt, Phase)
              /\ \A j \in 0..Phase - 1 : rcv.slots[j] = WordOf(rcv.reg0.pkt, j)
              /\ tx.word.pkt = rcv.reg0.pkt
            BY <1>7, <2>1, TogetherMoves
        <2>3. \A j \in 0..Phase' - 1 : rcv'.slots[j] = WordOf(rcv'.reg0.pkt, j)
            <3> SUFFICES ASSUME NEW j \in 0..Phase' - 1 PROVE rcv'.slots[j] = WordOf(tx.word.pkt, j)
                BY <1>5
            <3>1. j \in Slots /\ (j = Phase \/ j \in 0..Phase - 1)
                BY <1>3, <2>1 DEF Slots
            <3>2. CASE j = Phase
                BY <2>2, <3>2
            <3>3. CASE j # Phase
                BY <2>2, <3>1, <3>3
            <3> QED BY <3>2, <3>3
        <2>4. /\ Phase >= 1 => (rcv.present <=> Phase = 1)
              /\ Phase >= 2 => (rcv.check[1] = "none" <=> Phase # 2)
              /\ Phase >= 3 => (rcv.check[2] = "none" <=> Phase # 3)
            BY <2>1 DEF RxInv, Together, Since
        <2>5. rcv'.check[1] = Verdict(rcv) /\ rcv'.check[2] = rcv.check[1] /\ rcv'.check[3] = rcv.check[2]
            BY <1>1, <1>5, RxEdge
        <2>6. (rcv'.check[1] = "none") <=> (rcv.present = FALSE)
            BY <1>1, <2>5, RxFields DEF Verdict
        <2>7. Phase' >= 1 => (rcv'.present <=> Phase' = 1)
            BY <1>3, <2>1, <2>2
        <2>8. Phase' >= 2 => (rcv'.check[1] = "none" <=> Phase' # 2)
            BY <1>3, <2>1, <2>4, <2>6
        <2>9. /\ Phase' >= 3 => (rcv'.check[2] = "none" <=> Phase' # 3)
              /\ Phase' >= 4 => (rcv'.check[3] = "none" <=> Phase' # 4)
            BY <1>3, <2>1, <2>4, <2>5
        <2> QED BY <1>5, <2>2, <2>3, <2>7, <2>8, <2>9
    <1> QED BY <1>6, <1>7

\* The frames assembled in step are whole, and the verdict on them is good.
LEMMA PresentsStep ==
    ASSUME TxInv, RxInv, Clock
    PROVE  Presents'
    <1> SUFFICES ASSUME calm' >= Phase' + (Bound + 12)
                 PROVE  /\ Phase' = 0 => Intact(rcv'.slots) /\ ~rcv'.present
                        /\ Phase' = 1 => Intact(rcv'.out)
                        /\ rcv'.check[1] = IF Phase' = 2 THEN "good" ELSE "none"
                        /\ rcv'.check[2] = IF Phase' = 3 THEN "good" ELSE "none"
                        /\ rcv'.check[3] = IF Phase' = 4 THEN "good" ELSE "none"
        BY DEF Presents, Since, Bound, Intact, Slots
    <1>1. TxTyped /\ RxTyped
        BY DEF TxInv, RxInv
    <1>2. calm \in Nat /\ calm' \in Nat /\ calm' <= calm + 1 /\ Bound \in Nat
        BY <1>1, ClockFacts, RxFields, RxConstants
    <1>3. Phase \in 0..5 /\ Phase' = (IF Phase = 5 THEN 0 ELSE Phase + 1) /\ Phase' \in 0..5
        BY <1>1, ClockFacts, Times, TimesNext
    <1>4. calm >= Phase + (Bound + 6) /\ calm >= Bound + 5
        BY <1>2, <1>3
    <1>5. rcv' = ReceiverClk(rcv, tx.word, gt.lane)
        BY <1>4, Listens
    <1>6. /\ rcv'.slots[Phase] = rcv.reg0
          /\ \A j \in Slots : j # Phase => rcv'.slots[j] = rcv.slots[j]
          /\ rcv'.present <=> Phase = 0
          /\ rcv'.out = IF Phase = 0 THEN rcv.slots ELSE rcv.out
          /\ rcv.reg0 = WordOf(rcv.reg0.pkt, Phase) /\ Sound(rcv.reg0.pkt)
          /\ \A j \in 0..Phase - 1 : rcv.slots[j] = WordOf(rcv.reg0.pkt, j)
        BY <1>4, TogetherMoves
    <1>7. /\ Phase >= 1 => (rcv.present <=> Phase = 1)
          /\ Phase >= 2 => (rcv.check[1] = "none" <=> Phase # 2)
          /\ Phase >= 3 => (rcv.check[2] = "none" <=> Phase # 3)
        BY <1>4 DEF RxInv, Together, Since
    <1>8. rcv'.check[1] = Verdict(rcv) /\ rcv'.check[2] = rcv.check[1] /\ rcv'.check[3] = rcv.check[2]
        BY <1>1, <1>5, RxEdge
    <1>9. CASE Phase = 5
        <2>1. Phase' = 0 /\ ~rcv'.present /\ ~rcv.present
            BY <1>3, <1>6, <1>7, <1>9
        <2>2. Intact(rcv'.slots)
            <3> DEFINE p == rcv.reg0.pkt
                       f == rcv'.slots
            <3>1. \A j \in Slots : f[j] = WordOf(p, j)
                BY <1>6, <1>9 DEF Slots
            <3>2. Sound(p)
                BY <1>6
            <3> HIDE DEF p, f
            <3>3. \A j \in Slots : f[j].pkt = p /\ f[j].i = j
                <4> TAKE j \in Slots
                <4>1. WordOf(p, j).pkt = p /\ WordOf(p, j).i = j
                    BY DEF WordOf
                <4> QED BY <3>1, <4>1
            <3>4. f[1].pkt = p
                BY <3>3 DEF Slots
            <3> QED BY <3>2, <3>3, <3>4 DEF Intact, Sound, f
        <2>3. rcv'.check[1] = "none" /\ rcv'.check[2] = "none" /\ rcv'.check[3] = "none"
            BY <1>7, <1>8, <1>9, <2>1 DEF Verdict
        <2> QED BY <2>1, <2>2, <2>3
    <1>10. CASE Phase # 5
        <2>1. calm >= Phase + (Bound + 12) /\ Phase' = Phase + 1
            BY <1>2, <1>3, <1>10
        <2>2. /\ Phase = 0 => Intact(rcv.slots) /\ ~rcv.present
              /\ Phase = 1 => Intact(rcv.out)
              /\ rcv.check[1] = IF Phase = 2 THEN "good" ELSE "none"
              /\ rcv.check[2] = IF Phase = 3 THEN "good" ELSE "none"
            BY <2>1 DEF RxInv, Presents, Since
        <2>3. Verdict(rcv) = IF Phase = 1 THEN "good" ELSE "none"
            <3>1. CASE Phase = 1
                BY <1>7, <2>2, <3>1 DEF Verdict
            <3>2. CASE Phase # 1
                BY <1>3, <1>7, <2>2, <3>2 DEF Verdict
            <3> QED BY <3>1, <3>2
        <2>4. Phase' = 1 => Intact(rcv'.out)
            BY <1>3, <1>6, <2>1, <2>2
        <2> QED BY <1>3, <1>8, <2>1, <2>2, <2>3, <2>4
    <1> QED BY <1>9, <1>10

\* Five good frames align the receiver, and the FSM follows.
LEMMA PicksUpStep ==
    ASSUME TxInv, RxInv, Clock
    PROVE  PicksUp'
    <1>1. TxTyped /\ RxTyped
        BY DEF TxInv, RxInv
    <1>2. calm \in Nat /\ calm' \in Nat /\ calm' <= calm + 1 /\ Bound \in Nat
        BY <1>1, ClockFacts, RxFields, RxConstants
    <1>3. Phase \in 0..5 /\ Phase' = (IF Phase = 5 THEN 0 ELSE Phase + 1) /\ Phase' \in 0..5
        BY <1>1, ClockFacts, Times, TimesNext
    <1>4. rcv.pickup \in 0..4
        BY <1>1, RxFields
    <1>5. ASSUME calm >= Phase + (Bound + 12)
          PROVE  /\ rcv'.pickup = IF Phase = 4 THEN (IF rcv.pickup = 4 THEN 4 ELSE rcv.pickup + 1) ELSE rcv.pickup
                 /\ rcv'.aligned = IF Phase = 4 /\ rcv.pickup = 4 THEN TRUE ELSE rcv.aligned
                 /\ rec.st # "recover" /\ gt.ok
        <2>1. calm >= Bound + 5
            BY <1>2, <1>3, <1>5
        <2>2. rcv' = ReceiverClk(rcv, tx.word, gt.lane) /\ gt.ok
            BY <2>1, Listens
        <2>3. rcv.check[3] = IF Phase = 4 THEN "good" ELSE "none"
            BY <1>5 DEF RxInv, Presents, Since
        <2>4. rec.st # "recover"
            <3>1. calm >= Bound - 1
                BY <1>2, <2>1
            <3> QED BY <3>1, LetAlone
        <2>5. /\ rcv'.pickup = IF rcv.check[3] = "good" THEN (IF rcv.pickup = 4 THEN 4 ELSE rcv.pickup + 1)
                               ELSE IF rcv.check[3] = "bad" THEN 0 ELSE rcv.pickup
              /\ rcv'.aligned = IF rcv.check[3] = "good" /\ rcv.pickup = 4 THEN TRUE
                                ELSE IF rcv.check[3] = "bad" /\ rcv.dropout = 4 THEN FALSE ELSE rcv.aligned
            BY <1>1, <2>2, RxEdge
        <2> QED BY <2>2, <2>3, <2>4, <2>5
    <1>6. ASSUME NEW k \in 0..4, calm' >= Phase' + (Bound + 12 + 6 * k)
          PROVE  rcv'.pickup >= IF Phase' = 5 /\ k < 4 THEN k + 1 ELSE k
        <2>1. ASSUME NEW i \in 0..4, calm >= Phase + (Bound + 12 + 6 * i)
              PROVE  rcv.pickup >= IF Phase = 5 /\ i < 4 THEN i + 1 ELSE i
            BY <2>1 DEF RxInv, PicksUp, Since
        <2>2. CASE Phase # 5
            <3>1. calm >= Phase + (Bound + 12 + 6 * k) /\ calm >= Phase + (Bound + 12) /\ Phase' = Phase + 1
                BY <1>2, <1>3, <1>6, <2>2
            <3>2. rcv.pickup >= k
                BY <2>1, <2>2, <3>1
            <3>3. rcv'.pickup = IF Phase = 4 THEN (IF rcv.pickup = 4 THEN 4 ELSE rcv.pickup + 1) ELSE rcv.pickup
                BY <1>5, <3>1
            <3> QED BY <1>3, <1>4, <3>1, <3>2, <3>3
        <2>3. CASE Phase = 5 /\ k > 0
            <3>1. k - 1 \in 0..4 /\ k - 1 < 4
                BY <2>3
            <3>2. calm >= Phase + (Bound + 12 + 6 * (k - 1)) /\ calm >= Phase + (Bound + 12) /\ Phase' = 0
                BY <1>2, <1>3, <1>6, <2>3
            <3>3. rcv.pickup >= k - 1 + 1
                BY <2>1, <2>3, <3>1, <3>2
            <3>4. rcv'.pickup = rcv.pickup
                BY <1>5, <2>3, <3>2
            <3> QED BY <1>4, <2>3, <3>2, <3>3, <3>4
        <2>4. CASE Phase = 5 /\ k = 0
            <3>1. rcv'.pickup \in 0..4
                BY <1>1, ClockFacts, ReceiveTyped DEF RxRegs
            <3> QED BY <1>3, <2>4, <3>1
        <2> QED BY <2>2, <2>3, <2>4
    <1>7. ASSUME calm' >= Phase' + (Bound + 36), Phase' = 5
          PROVE  rcv'.aligned
        <2>1. Phase = 4 /\ calm >= Phase + (Bound + 12 + 6 * 4) /\ calm >= Phase + (Bound + 12)
            BY <1>2, <1>3, <1>7
        <2>2. rcv.pickup >= 4
            BY <2>1 DEF RxInv, PicksUp, Since
        <2>3. Phase = 4 /\ rcv.pickup = 4
            BY <1>4, <2>1, <2>2
        <2>4. rcv'.aligned = IF Phase = 4 /\ rcv.pickup = 4 THEN TRUE ELSE rcv.aligned
            BY <1>5, <2>1
        <2>5. rcv'.aligned = TRUE
            BY <2>3, <2>4
        <2> QED BY <2>5
    <1>8. ASSUME calm' >= Phase' + (Bound + 42)
          PROVE  rcv'.aligned /\ (Phase' # 0 => rec'.st = "locked")
        <2>1. calm >= Phase + (Bound + 12)
            BY <1>2, <1>3, <1>8
        <2>2. rcv.aligned
            <3>1. CASE Phase = 5
                <4>1. calm >= Phase + (Bound + 36)
                    BY <1>2, <1>3, <1>8, <3>1
                <4> QED BY <3>1, <4>1 DEF RxInv, PicksUp, Since
            <3>2. CASE Phase # 5
                <4>1. calm >= Phase + (Bound + 42)
                    BY <1>2, <1>3, <1>8, <3>2
                <4> QED BY <4>1 DEF RxInv, PicksUp, Since
            <3> QED BY <3>1, <3>2
        <2>3. rcv'.aligned
            <3>1. rcv.aligned = TRUE
                BY <1>1, <2>2, RxFields
            <3>2. rcv'.aligned = TRUE
                BY <1>5, <2>1, <3>1
            <3> QED BY <3>2
        <2>4. rec'.st = "locked"
            BY <1>1, <1>5, <2>1, <2>2, ClockFacts, RecMoves, RxFields
        <2> QED BY <2>3, <2>4
    <1>9. ASSUME calm' >= Phase' + (Bound + 48)
          PROVE  rec'.st = "locked"
        <2>1. calm' >= Phase' + (Bound + 42) /\ calm >= Phase + (Bound + 42) /\ calm >= Phase + (Bound + 12)
            BY <1>2, <1>3, <1>9
        <2>2. CASE Phase' # 0
            BY <1>8, <2>1, <2>2
        <2>3. CASE Phase' = 0
            <3>1. rec.st = "locked"
                <4>1. Phase # 0
                    BY <1>3, <2>3
                <4> QED BY <2>1, <4>1 DEF RxInv, PicksUp, Since
            <3> QED BY <1>1, <1>5, <2>1, <3>1, ClockFacts, RecMoves
        <2> QED BY <2>2, <2>3
    <1> QED BY <1>6, <1>7, <1>8, <1>9 DEF PicksUp, Since, Bound

LEMMA ClockInv ==
    ASSUME TxInv, RxInv, Clock
    PROVE  RxInv'
    <1>1. TxTyped /\ RxTyped
        BY DEF TxInv, RxInv
    <1>2. RxTyped'
        <2>1. rcv' \in RxRegs /\ Len(rcv'.check) = 3
            BY <1>1, ClockFacts, ReceiveTyped
        <2>2. rec' \in [st : {"search", "locked", "recover"}, loss : Nat, rec : Nat]
            BY <1>1, ClockFacts, RecMoves
        <2>3. gt' \in [ok : BOOLEAN, lane : {0, 1}] /\ calm' \in Nat
            BY <1>1, ClockFacts
        <2> QED BY <2>1, <2>2, <2>3 DEF RxTyped
    <1>3. Starting' /\ Framing'
        BY <1>1, ClockFacts, StartingStep, FramingStep
    <1> QED BY <1>2, <1>3, DeafStep, RecoveringStep, AudibleStep, TogetherStep, PresentsStep, PicksUpStep DEF RxInv

\* In the clock of a fault all that was known of the receiver's side is void.
Afresh ==
    /\ TxTyped /\ RxTyped /\ calm = 0
    /\ tx.gear # Zero => Sound(tx.gear)
    /\ rec.st = "locked" => rec.loss <= LossWindow
    /\ rec.st = "recover" => rec.rec <= RecoverLen

LEMMA Anew == Afresh => RxInv
    <1> SUFFICES ASSUME Afresh PROVE RxInv
        OBVIOUS
    <1> USE DEF Afresh
    <1>1. Phase \in 0..5 /\ Place \in 0..5 /\ tx.ctr \in 0..5
        BY Times
    <1>2. LossWindow \in Nat /\ RecoverLen \in Nat /\ Bound \in Nat /\ rec.loss \in Nat /\ rec.rec \in Nat
          /\ Bound = LossWindow + RecoverLen + 12
        BY RxFields, RxConstants
    <1>3. Starting /\ Framing
        BY <1>1 DEF Starting, Framing
    <1>4. Deaf
        BY <1>2 DEF Deaf
    <1>5. Recovering
        BY <1>2 DEF Recovering
    <1>6. ~Since(LossWindow + 11) /\ ~Since(Bound + 6) /\ ~Since(Bound + 12)
        BY <1>1, <1>2 DEF Since
    <1>7. ~Since(Bound + 36) /\ ~Since(Bound + 42) /\ ~Since(Bound + 48)
        BY <1>1, <1>2 DEF Since
    <1>8. \A k \in 0..4 : ~Since(Bound + 12 + 6 * k)
        BY <1>1, <1>2 DEF Since
    <1>9. Audible /\ Together /\ Presents /\ PicksUp
        BY <1>6, <1>7, <1>8 DEF Audible, Together, Presents, PicksUp
    <1> QED BY <1>3, <1>4, <1>5, <1>9 DEF RxInv

LEMMA FaultInv ==
    ASSUME TxInv, RxInv, Damage \/ Forge \/ Slip \/ TxReset
    PROVE  RxInv'
    <1>1. TxTyped /\ RxTyped /\ TxTyped'
        <2>1. TxInv'
            <3>1. [LinkNext]_link_vars
                BY DEF LinkNext
            <3> QED BY <3>1, LinkStep
        <2> QED BY <2>1 DEF TxInv, RxInv
    <1>2. tx.word \in LinkWord /\ gt \in [ok : BOOLEAN, lane : {0, 1}] /\ gt.lane \in {0, 1}
        BY <1>1, Fields, RxFields DEF LinkWord, RxTyped
    <1>3. calm' = 0
        BY DEF Damage, Forge, Slip, TxReset, Fault
    <1>4. \E w \in LinkWord : Receive(w)
        <2>1. Delivered \in LinkWord
            BY <1>2, RxWords DEF Delivered
        <2>2. [tx.word EXCEPT !.k = TRUE] \in LinkWord
            BY <1>2 DEF LinkWord
        <2> QED BY <2>1, <2>2, RxWords DEF Damage, Forge, Slip, TxReset
    <1>5. rcv' \in RxRegs /\ Len(rcv'.check) = 3
        BY <1>1, <1>4, ReceiveTyped
    <1>6. /\ rec' \in [st : {"search", "locked", "recover"}, loss : Nat, rec : Nat]
          /\ rec'.st = "locked" => rec'.loss <= LossWindow
          /\ rec'.st = "recover" => rec'.rec <= RecoverLen
        <2>1. rec' = RecoveryClk(rec, rcv.aligned, gt.ok)
            BY <1>4 DEF Receive
        <2>2. /\ rec.st = "locked" => rec.loss <= LossWindow
              /\ rec.st = "recover" => rec.rec <= RecoverLen
            BY DEF RxInv, Recovering
        <2> QED BY <1>1, <2>1, <2>2, RecMoves
    <1>7. gt' \in [ok : BOOLEAN, lane : {0, 1}]
        <2>1. CASE UNCHANGED gt
            BY <1>2, <2>1
        <2>2. CASE gt' = [gt EXCEPT !.ok = FALSE]
            BY <1>2, <2>2
        <2>3. CASE gt' \in [ok : {TRUE}, lane : {0, 1}]
            BY <2>3
        <2> QED BY <2>1, <2>2, <2>3 DEF Damage, Forge, Slip, TxReset, Align
    <1>8. RxTyped'
        BY <1>3, <1>5, <1>6, <1>7 DEF RxTyped
    <1>9. tx'.gear # Zero => Sound(tx'.gear)
        <2>1. CASE Encode
            <3>1. tx'.gear = IF CrcValid(tx) THEN tx.aclk ELSE tx.gear
                BY <1>1, <2>1, Edge
            <3>2. tx.aclk \in {Zero, Null} \/ IsEvent(tx.aclk)
                BY DEF TxInv, Kept
            <3>3. tx.gear # Zero => Sound(tx.gear)
                BY DEF RxInv, Starting
            <3> QED BY <3>1, <3>2, <3>3 DEF Sound, IsEvent
        <2>2. CASE TxReset
            <3>1. tx' = EncoderReset(tx.ram) /\ tx.ram \in [Codes -> Nat]
                BY <1>1, <2>2, Fields DEF TxReset
            <3> QED BY <3>1, ResetFields
        <2> QED BY <2>1, <2>2 DEF Damage, Forge, Slip
    <1> QED
        <2>1. Afresh'
            BY <1>1, <1>3, <1>6, <1>8, <1>9 DEF Afresh
        <2> QED BY <2>1, Anew, PTL

LEMMA RxInitInv ==
    ASSUME LinkInit
    PROVE  RxInv
    <1>1. TxTyped
        BY LinkInitInv DEF TxInv
    <1>2. rcv = ReceiverReset /\ rec = RecoveryReset /\ gt = [ok |-> FALSE, lane |-> 0] /\ calm = 0
        BY DEF LinkInit
    <1>3. rec = [st |-> "search", loss |-> 0, rec |-> 0]
        BY <1>2 DEF RecoveryReset
    <1>4. RxTyped /\ rec.st = "search"
        BY <1>2, <1>3, ResetReceiver DEF RxTyped
    <1>5. tx.gear = Zero
        BY Constants, ResetFields DEF LinkInit
    <1> QED BY <1>1, <1>2, <1>4, <1>5, Anew DEF Afresh

LEMMA RxStep ==
    ASSUME TxInv, RxInv, [LinkNext]_link_vars
    PROVE  RxInv'
    <1>1. CASE UNCHANGED link_vars
        <2>1. tx' = tx /\ rcv' = rcv /\ rec' = rec /\ gt' = gt /\ calm' = calm
            BY <1>1 DEF link_vars
        <2>2. Phase' = Phase /\ Place' = Place /\ \A n : Since(n)' <=> Since(n)
            BY <2>1 DEF Phase, Place, Since
        <2>3. RxTyped' /\ Starting' /\ Framing' /\ Deaf' /\ Recovering'
            BY <2>1, <2>2 DEF RxInv, RxTyped, Starting, Framing, Deaf, Recovering
        <2>4. Audible' /\ Together' /\ Presents' /\ PicksUp'
            BY <2>1, <2>2 DEF RxInv, Audible, Together, Presents, PicksUp, Since
        <2> QED BY <2>3, <2>4 DEF RxInv
    <1> QED BY <1>1, ClockInv, FaultInv DEF LinkNext

\* Where the receiver and the recovery FSM are, in every clock since the last fault
\* (aclk_rcv.v, the FSM of aclk_pipeline_bd_top.v).
THEOREM LockInvariance == LinkSpec => []RxInv
    <1>1. LinkInit => RxInv
        BY RxInitInv
    <1>2. TxInv /\ RxInv /\ [LinkNext]_link_vars => RxInv'
        BY RxStep
    <1> QED BY <1>1, <1>2, LinkInvariance, PTL DEF LinkSpec

\* Hence Relock clocks after any fault, whatever state it left the two in, the receiver is aligned
\* and the FSM locked: a loss of lock cannot be for good, and no event keeps them from it.
THEOREM LockReturns == LinkSpec => []RelocksInTime
    <1>1. TxInv /\ RxInv => RelocksInTime
        <2> SUFFICES ASSUME TxInv, RxInv, calm = Relock PROVE rcv.aligned /\ rec.st = "locked"
            BY DEF RelocksInTime
        <2>1. Bound \in Nat /\ Relock = Bound + 54 /\ Phase \in 0..5
            BY RxConstants, Times DEF TxInv
        <2>2. Since(Bound + 42) /\ Since(Bound + 48)
            BY <2>1 DEF Since
        <2> QED BY <2>2 DEF RxInv, PicksUp
    <1> QED BY <1>1, LinkInvariance, LockInvariance, PTL

-----------------------------------------------------------------------------
(***************************************************************************)
(* AclkLink: the frames in flight.                                         *)
(***************************************************************************)
Frame == [pkt : Pkts, age : Nat, safe : BOOLEAN]

\* A frame sent since the receiver was in step: its words are coming in, or it is being checked.
Matches(x) ==
    \/ x.age = Phase + 1 /\ x.pkt = rcv.reg0.pkt
    \/ x.age = Phase + 7 /\ x.pkt = (IF Phase = 0 THEN rcv.slots[1].pkt ELSE rcv.out[1].pkt)
Flights ==
    /\ flight \in Seq(Frame)
    /\ \A i \in 1..Len(flight) :
         /\ flight[i].pkt # Null /\ flight[i].age >= 1 /\ flight[i].age <= ArrivesIn
         /\ flight[i].safe => calm = Relock
         /\ calm >= flight[i].age + (Bound + 6) => Matches(flight[i])
    /\ \A i, j \in 1..Len(flight) : i < j => flight[i].age > flight[j].age
\* A frame checked then has its strobe in the last clock of the next one.
Strobes == Since(Bound + 43) /\ Phase = 5 => rcv.valid

-----------------------------------------------------------------------------
LEMMA Oldest ==
    ASSUME NEW T, T \subseteq Nat, T # {}
    PROVE  \E x \in T : \A y \in T : x <= y
    <1> DEFINE R == OpToRel(<, Nat)
    <1>1. IsWellFoundedOn(R, Nat) /\ \A x, y \in Nat : <<y, x>> \in R <=> y < x
        BY NatLessThanWellFounded DEF OpToRel
    <1> HIDE DEF R
    <1>2. \E x \in T : \A y \in T : <<y, x>> \notin R
        BY <1>1, WFMin
    <1>3. PICK x \in T : \A y \in T : <<y, x>> \notin R
        BY <1>2
    <1>4. ASSUME NEW y \in T PROVE x <= y
        <2>1. x \in Nat /\ y \in Nat
            OBVIOUS
        <2>2. ~(y < x)
            BY <1>1, <1>3, <2>1
        <2> QED BY <2>1, <2>2
    <1> QED BY <1>3, <1>4

\* What the readout was given leaves the ledger with all that was before it.
Left(rest, m, got) ==
    /\ Len(rest) = Len(flight) - m
    /\ \A i \in 1..Len(rest) : rest[i] = flight[i + m] /\ i + m \in 1..Len(flight)
    /\ Delivers /\ 1 \in got => m = 1
    /\ m # 0 => Delivers /\ m \in got
LEMMA RestIs ==
    ASSUME flight \in Seq(Frame), NEW got, got = {i \in DOMAIN flight : flight[i].pkt = Event(rcv)},
           NEW rest, rest = IF Delivers /\ got # {} THEN SubSeq(flight, Min(got) + 1, Len(flight)) ELSE flight
    PROVE  /\ rest \in Seq(Frame)
           /\ \E m \in 0..Len(flight) : Left(rest, m, got)
    <1> USE DEF Left
    <1>1. CASE ~(Delivers /\ got # {})
        <2>1. rest = flight
            BY <1>1
        <2>2. Len(flight) \in Nat
            BY LenProperties
        <2> QED BY <1>1, <2>1, <2>2
    <1>2. CASE Delivers /\ got # {}
        <2> DEFINE m == Min(got)
                   n == Len(flight)
        <2>1. n \in Nat /\ got \subseteq 1..n
            BY LenProperties
        <2>2. \E x \in got : \A y \in got : x <= y
            <3>1. got \subseteq Nat
                BY <2>1
            <3> QED BY <1>2, <3>1, Oldest
        <2>3. m \in got /\ \A y \in got : m <= y
            BY <2>2 DEF Min
        <2>4. rest = SubSeq(flight, m + 1, n)
            BY <1>2
        <2> HIDE DEF m, n
        <2>5. m \in 1..n /\ m \in Nat
            BY <2>1, <2>3
        <2>6. \A i \in m + 1..n : flight[i] \in Frame
            <3>1. \A i \in 1..n : flight[i] \in Frame
                BY ElementOfSeq DEF n
            <3> QED BY <2>1, <2>5, <3>1
        <2>7. /\ rest \in Seq(Frame) /\ Len(rest) = n - m
              /\ \A i \in 1..n - m : rest[i] = flight[m + 1 + i - 1]
            <3> DEFINE a == m + 1
                       q == SubSeq(flight, a, n)
            <3>1. a \in Int /\ n \in Int /\ a <= n + 1 /\ n - a + 1 = n - m
                BY <2>1, <2>5
            <3>2. \A i \in a..n : flight[i] \in Frame
                BY <2>6
            <3>3. rest = q
                BY <2>4
            <3> HIDE DEF a
            <3>4. /\ q \in Seq(Frame) /\ Len(q) = IF a <= n THEN n - a + 1 ELSE 0
                  /\ \A i \in 1..n - a + 1 : q[i] = flight[a + i - 1]
                BY <3>1, <3>2, SubSeqProperties
            <3> HIDE DEF q
            <3>5. Len(q) = n - m
                BY <2>1, <2>5, <3>1, <3>4 DEF a
            <3>6. \A i \in 1..n - m : q[i] = flight[a + i - 1]
                BY <3>1, <3>4
            <3> QED BY <3>3, <3>4, <3>5, <3>6 DEF a
        <2>8. \A i \in 1..n - m : rest[i] = flight[i + m] /\ i + m \in 1..n
            <3> TAKE i \in 1..n - m
            <3>1. m + 1 + i - 1 = i + m /\ i + m \in 1..n
                BY <2>1, <2>5
            <3> QED BY <2>7, <3>1
        <2>9. 1 \in got => m = 1
            BY <2>3, <2>5
        <2>10. m \in 0..Len(flight) /\ Len(rest) = Len(flight) - m
            BY <2>1, <2>5, <2>7 DEF n
        <2>11. \A i \in 1..Len(rest) : rest[i] = flight[i + m] /\ i + m \in 1..Len(flight)
            BY <2>7, <2>8 DEF n
        <2>12. rest \in Seq(Frame)
            BY <2>7
        <2> QED BY <1>2, <2>3, <2>9, <2>10, <2>11, <2>12
    <1> QED BY <1>1, <1>2

\* A frame in the ledger gets older, and is not safe any more once there is a fault.
Later(x, b) == [pkt |-> x.pkt, age |-> x.age + 1, safe |-> x.safe /\ b]
Sending(b) == [pkt |-> tx.word.pkt, age |-> 1, safe |-> calm = Relock /\ b]

LEMMA MarkedAged ==
    ASSUME NEW s \in Seq(Frame), NEW b \in BOOLEAN, \A i \in 1..Len(s) : s[i].age <= ArrivesIn,
           NEW q, q = Aged([i \in DOMAIN s |-> [s[i] EXCEPT !.safe = @ /\ b]], ArrivesIn)
    PROVE  q \in Seq(Frame) /\ Len(q) = Len(s) /\ \A i \in 1..Len(s) : q[i] = Later(s[i], b)
    <1> DEFINE n == Len(s)
               u == [i \in 1..n |-> [s[i] EXCEPT !.safe = @ /\ b]]
               v == [i \in 1..n |-> [u[i] EXCEPT !.age = UpTo(@, ArrivesIn + 1)]]
    <1>1. n \in Nat /\ DOMAIN s = 1..n /\ \A i \in 1..n : s[i] \in Frame
        BY LenProperties, ElementOfSeq
    <1>2. q = v
        BY <1>1 DEF Aged
    <1>3. ASSUME NEW i \in 1..n PROVE v[i] = Later(s[i], b) /\ v[i] \in Frame
        <2>1. s[i] \in Frame /\ s[i].pkt \in Pkts /\ s[i].age \in Nat /\ s[i].safe \in BOOLEAN
            BY <1>1 DEF Frame
        <2>2. u[i] = [s[i] EXCEPT !.safe = @ /\ b]
            OBVIOUS
        <2>3. u[i] = [pkt |-> s[i].pkt, age |-> s[i].age, safe |-> s[i].safe /\ b]
            BY <2>1, <2>2 DEF Frame
        <2>4. v[i] = [u[i] EXCEPT !.age = UpTo(@, ArrivesIn + 1)]
            OBVIOUS
        <2>5. UpTo(s[i].age, ArrivesIn + 1) = s[i].age + 1
            BY <2>1 DEF UpTo, ArrivesIn
        <2> HIDE DEF u, v
        <2>6. v[i] = Later(s[i], b)
            BY <2>3, <2>4, <2>5 DEF Later
        <2>7. Later(s[i], b) \in Frame
            <3>1. s[i].age + 1 \in Nat /\ (s[i].safe /\ b) \in BOOLEAN
                BY <2>1
            <3> QED BY <2>1, <3>1 DEF Later, Frame
        <2> QED BY <2>6, <2>7
    <1>4. v \in Seq(Frame) /\ Len(v) = n
        <2> HIDE DEF u
        <2>1. \A i \in 1..n : v[i] \in Frame
            BY <1>3
        <2>2. v \in [1..n -> Frame]
            <3>1. DOMAIN v = 1..n
                OBVIOUS
            <3> QED BY <2>1
        <2> HIDE DEF v
        <2> QED BY <1>1, <2>2
    <1> QED BY <1>2, <1>3, <1>4

\* One clock of the ledger: of the frames in flight the first m are gone, the others get older, and
\* the frame that starts comes last.
Ledger(q, m, b) ==
    /\ Len(q) = Len(flight) - m + (IF Starts THEN 1 ELSE 0)
    /\ \A i \in 1..Len(flight) - m : q[i] = Later(flight[i + m], b)
    /\ Starts => q[Len(q)] = Sending(b)
    /\ m # 0 => Delivers /\ flight[m].pkt = Event(rcv)
    /\ (Len(flight) > 0 /\ Delivers /\ flight[1].pkt = Event(rcv)) => m = 1
LEMMA LedgerIs ==
    ASSUME TxTyped, flight \in Seq(Frame), \A i \in 1..Len(flight) : flight[i].age <= ArrivesIn,
           NEW b \in BOOLEAN, flight' = FlightNext(b)
    PROVE  \E q \in Seq(Frame), m \in 0..Len(flight) : flight' = Weeded(q) /\ Ledger(q, m, b)
    <1> DEFINE got == {i \in DOMAIN flight : flight[i].pkt = Event(rcv)}
               rest == IF Delivers /\ got # {} THEN SubSeq(flight, Min(got) + 1, Len(flight)) ELSE flight
               new == [pkt |-> tx.word.pkt, age |-> 0, safe |-> calm = Relock]
               sent == IF Starts THEN Append(rest, new) ELSE rest
               q == Aged([i \in DOMAIN sent |-> [sent[i] EXCEPT !.safe = @ /\ b]], ArrivesIn)
    <1>1. flight' = Weeded(q)
        BY DEF FlightNext
    <1>2. Len(flight) \in Nat /\ DOMAIN flight = 1..Len(flight)
        BY LenProperties
    <1>3. rest \in Seq(Frame) /\ \E m \in 0..Len(flight) : Left(rest, m, got)
        <2>1. /\ got = {i \in DOMAIN flight : flight[i].pkt = Event(rcv)}
              /\ rest = IF Delivers /\ got # {} THEN SubSeq(flight, Min(got) + 1, Len(flight)) ELSE flight
            OBVIOUS
        <2> HIDE DEF got, rest
        <2> QED BY <2>1, RestIs
    <1>4. PICK m \in 0..Len(flight) : Left(rest, m, got)
        BY <1>3
    <1>5. \A i : i \in got <=> i \in 1..Len(flight) /\ flight[i].pkt = Event(rcv)
        BY <1>2
    <1>6. new \in Frame /\ Later(new, b) = Sending(b) /\ new.age <= ArrivesIn
        <2>1. tx.word.pkt \in Pkts
            BY Fields
        <2>2. (calm = Relock) \in BOOLEAN
            OBVIOUS
        <2>3. new \in Frame
            BY <2>1, <2>2 DEF Frame
        <2>4. new.pkt = tx.word.pkt /\ new.age = 0 /\ new.age + 1 = 1 /\ new.safe = (calm = Relock)
            OBVIOUS
        <2> HIDE DEF new
        <2>5. Later(new, b) = Sending(b)
            BY <2>4 DEF Later, Sending
        <2> QED BY <2>3, <2>4, <2>5 DEF ArrivesIn
    <1>7. /\ sent \in Seq(Frame) /\ Len(sent) = Len(rest) + (IF Starts THEN 1 ELSE 0)
          /\ \A i \in 1..Len(rest) : sent[i] = rest[i]
          /\ Starts => sent[Len(rest) + 1] = new
        <2>1. CASE Starts
            <3> HIDE DEF rest, new
            <3>1. sent = Append(rest, new)
                BY <2>1
            <3> HIDE DEF sent
            <3> QED BY <1>3, <1>6, <2>1, <3>1, AppendProperties
        <2>2. CASE ~Starts
            <3> HIDE DEF rest
            <3>1. sent = rest
                BY <2>2
            <3> HIDE DEF sent
            <3>2. Len(rest) \in Nat
                BY <1>3, LenProperties
            <3> QED BY <1>3, <2>2, <3>1, <3>2
        <2> QED BY <2>1, <2>2
    <1> HIDE DEF got, rest
    <1>8. /\ Len(rest) = Len(flight) - m /\ Len(rest) \in Nat
          /\ \A i \in 1..Len(rest) : rest[i] = flight[i + m] /\ i + m \in 1..Len(flight)
        BY <1>3, <1>4, LenProperties DEF Left
    <1>9. ASSUME NEW i \in 1..Len(sent)
          PROVE  \/ i \in 1..Len(rest) /\ i + m \in 1..Len(flight) /\ sent[i] = flight[i + m]
                 \/ i = Len(rest) + 1 /\ Starts /\ sent[i] = new
        <2> HIDE DEF sent, new
        <2>1. i \in 1..Len(rest) \/ (i = Len(rest) + 1 /\ Starts)
            BY <1>7, <1>8
        <2> QED BY <1>7, <1>8, <2>1
    <1>10. \A i \in 1..Len(sent) : sent[i].age <= ArrivesIn
        <2> TAKE i \in 1..Len(sent)
        <2> HIDE DEF sent, new
        <2> QED BY <1>6, <1>9
    <1>11. q \in Seq(Frame) /\ Len(q) = Len(sent) /\ \A i \in 1..Len(sent) : q[i] = Later(sent[i], b)
        <2> HIDE DEF sent
        <2> QED BY <1>7, <1>10, MarkedAged
    <1> HIDE DEF q, sent, new
    <1>12. \A i \in 1..Len(flight) - m : q[i] = Later(flight[i + m], b)
        <2> TAKE i \in 1..Len(flight) - m
        <2>1. i \in 1..Len(rest) /\ i \in 1..Len(sent)
            BY <1>7, <1>8
        <2> QED BY <1>7, <1>8, <1>11, <2>1
    <1>13. Starts => q[Len(q)] = Sending(b)
        <2> SUFFICES ASSUME Starts PROVE q[Len(q)] = Sending(b)
            OBVIOUS
        <2>1. Len(sent) = Len(rest) + 1 /\ sent[Len(rest) + 1] = new
            BY <1>7
        <2>2. Len(q) = Len(rest) + 1 /\ Len(q) \in 1..Len(sent) /\ sent[Len(q)] = new
            BY <1>8, <1>11, <2>1
        <2> QED BY <1>6, <1>11, <2>2
    <1>14. m # 0 => Delivers /\ flight[m].pkt = Event(rcv)
        BY <1>4, <1>5 DEF Left
    <1>15. (Len(flight) > 0 /\ Delivers /\ flight[1].pkt = Event(rcv)) => m = 1
        <2>1. Len(flight) > 0 => 1 \in 1..Len(flight)
            BY <1>2
        <2> QED BY <1>4, <1>5, <2>1 DEF Left
    <1>16. Len(q) = Len(flight) - m + (IF Starts THEN 1 ELSE 0)
        BY <1>7, <1>8, <1>11
    <1>17. Ledger(q, m, b)
        BY <1>12, <1>13, <1>14, <1>15, <1>16 DEF Ledger
    <1> QED BY <1>1, <1>11, <1>17

\* Hence each frame in flight was there before, or is the one that starts.
LEMMA FlightMoves ==
    ASSUME TxTyped, flight \in Seq(Frame),
           \A i \in 1..Len(flight) : flight[i].age <= ArrivesIn,
           \A i, j \in 1..Len(flight) : i < j => flight[i].age > flight[j].age,
           NEW b \in BOOLEAN, flight' = FlightNext(b)
    PROVE  /\ flight' \in Seq(Frame)
           /\ \E m \in Nat :
                 /\ \A i \in 1..Len(flight') :
                      \/ i + m \in 1..Len(flight) /\ flight'[i] = Later(flight[i + m], b)
                      \/ i = Len(flight') /\ Starts /\ flight'[i] = Sending(b)
                 /\ (Len(flight) > 0 /\ Delivers /\ flight[1].pkt = Event(rcv)) => m > 0
                 /\ (Len(flight') > 0 /\ m = 0) => flight'[1].safe \/ flight'[1].age <= ArrivesIn
    <1>1. PICK q \in Seq(Frame), k \in 0..Len(flight) : flight' = Weeded(q) /\ Ledger(q, k, b)
        BY LedgerIs
    <1>2. Len(flight) \in Nat /\ Len(q) \in Nat /\ k \in Nat
        BY LenProperties
    <1>3. /\ Len(q) = Len(flight) - k + (IF Starts THEN 1 ELSE 0)
          /\ \A i \in 1..Len(flight) - k : q[i] = Later(flight[i + k], b)
          /\ Starts => q[Len(q)] = Sending(b)
        BY <1>1 DEF Ledger
    <1>4. (Len(flight) > 0 /\ Delivers /\ flight[1].pkt = Event(rcv)) => k > 0
        BY <1>1 DEF Ledger
    <1>5. ASSUME NEW i \in 1..Len(q)
           PROVE  \/ i + k \in 1..Len(flight) /\ q[i] = Later(flight[i + k], b)
                  \/ i = Len(q) /\ Starts /\ q[i] = Sending(b)
        <2>1. CASE i \in 1..Len(flight) - k
            <3>1. i + k \in 1..Len(flight)
                BY <1>2, <2>1
            <3> QED BY <1>3, <2>1, <3>1
        <2>2. CASE i \notin 1..Len(flight) - k
            BY <1>2, <1>3, <2>2
        <2> QED BY <2>1, <2>2
    <1>6. CASE q # <<>> /\ ~Head(q).safe /\ Head(q).age > ArrivesIn
        <2>1. flight' = Tail(q)
            BY <1>1, <1>6 DEF Weeded
        <2>2. /\ Tail(q) \in Seq(Frame) /\ Len(Tail(q)) = Len(q) - 1
              /\ \A i \in 1..Len(Tail(q)) : Tail(q)[i] = q[i + 1]
            BY <1>6, HeadTailProperties
        <2>3. \A i \in 1..Len(flight') :
                 \/ i + (k + 1) \in 1..Len(flight) /\ flight'[i] = Later(flight[i + (k + 1)], b)
                 \/ i = Len(flight') /\ Starts /\ flight'[i] = Sending(b)
            <3> TAKE i \in 1..Len(flight')
            <3>1. Len(flight') = Len(q) - 1
                BY <2>1, <2>2
            <3>2. i + 1 \in 1..Len(q) /\ (i + 1 = Len(q) => i = Len(flight'))
                BY <1>2, <3>1
            <3>3. flight'[i] = q[i + 1]
                BY <2>1, <2>2
            <3>4. (i + 1) + k = i + (k + 1)
                BY <1>2, <3>2
            <3> QED BY <1>5, <3>2, <3>3, <3>4
        <2>4. k + 1 \in Nat /\ k + 1 > 0
            BY <1>2
        <2> DEFINE m == k + 1
        <2>5. flight' \in Seq(Frame)
            BY <2>1, <2>2
        <2>6. m \in Nat /\ m > 0 /\ m # 0
            BY <2>4
        <2>7. \A i \in 1..Len(flight') :
                 \/ i + m \in 1..Len(flight) /\ flight'[i] = Later(flight[i + m], b)
                 \/ i = Len(flight') /\ Starts /\ flight'[i] = Sending(b)
            BY <2>3
        <2> HIDE DEF m
        <2> QED BY <2>5, <2>6, <2>7
    <1>7. CASE ~(q # <<>> /\ ~Head(q).safe /\ Head(q).age > ArrivesIn)
        <2>1. flight' = q
            BY <1>1, <1>7 DEF Weeded
        <2>2. Len(flight') > 0 => flight'[1].safe \/ flight'[1].age <= ArrivesIn
            <3> SUFFICES ASSUME Len(q) > 0 PROVE q[1].safe \/ q[1].age <= ArrivesIn
                BY <2>1
            <3>1. q # <<>> /\ Head(q) = q[1] /\ q[1] \in Frame
                BY <1>2, ElementOfSeq
            <3>2. q[1].age \in Nat
                BY <3>1 DEF Frame
            <3> QED BY <1>7, <3>1, <3>2 DEF ArrivesIn
        <2>3. \A i \in 1..Len(flight') :
                 \/ i + k \in 1..Len(flight) /\ flight'[i] = Later(flight[i + k], b)
                 \/ i = Len(flight') /\ Starts /\ flight'[i] = Sending(b)
            BY <1>5, <2>1
        <2>4. flight' \in Seq(Frame) /\ k \in Nat
            BY <1>2, <2>1
        <2>5. (Len(flight') > 0 /\ k = 0) => flight'[1].safe \/ flight'[1].age <= ArrivesIn
            BY <2>2
        <2> QED BY <1>4, <2>3, <2>4, <2>5
    <1> QED BY <1>6, <1>7

LEMMA StrobesStep ==
    ASSUME TxInv, RxInv, Clock
    PROVE  Strobes'
    <1> SUFFICES ASSUME calm' >= Phase' + (Bound + 43), Phase' = 5 PROVE rcv'.valid
        BY DEF Strobes, Since, Bound
    <1>1. TxTyped /\ RxTyped
        BY DEF TxInv, RxInv
    <1>2. calm \in Nat /\ calm' \in Nat /\ calm' <= calm + 1 /\ Bound \in Nat
        BY <1>1, ClockFacts, RxFields, RxConstants
    <1>3. Phase \in 0..5 /\ Phase' = (IF Phase = 5 THEN 0 ELSE Phase + 1)
        BY <1>1, ClockFacts, Times, TimesNext
    <1>4. Phase = 4 /\ calm >= Phase + (Bound + 42) /\ calm >= Phase + (Bound + 12) /\ calm >= Bound + 5
        BY <1>2, <1>3
    <1>5. rcv' = ReceiverClk(rcv, tx.word, gt.lane)
        BY <1>4, Listens
    <1>6. rcv.aligned
        BY <1>4 DEF RxInv, PicksUp, Since
    <1>7. rcv.check[3] = "good"
        BY <1>4 DEF RxInv, Presents, Since
    <1>8. rcv'.valid = (rcv.check[3] = "good" /\ rcv.aligned)
        BY <1>1, <1>5, RxEdge
    <1> QED BY <1>6, <1>7, <1>8

\* A frame that matches what the receiver holds does so in the next clock, until its strobe.
LEMMA MatchesStep ==
    ASSUME TxInv, RxInv, Clock, NEW x \in Frame, Matches(x), calm >= x.age + (Bound + 6)
    PROVE  \/ x.age + 1 = Phase' + 1 /\ x.pkt = rcv'.reg0.pkt
           \/ x.age + 1 = Phase' + 7 /\ x.pkt = (IF Phase' = 0 THEN rcv'.slots[1].pkt ELSE rcv'.out[1].pkt)
           \/ x.age = 12
    <1>1. TxTyped /\ RxTyped /\ x.age \in Nat
        BY DEF TxInv, RxInv, Frame
    <1>2. calm \in Nat /\ Bound \in Nat
        BY <1>1, RxFields, RxConstants
    <1>3. Phase \in 0..5 /\ Phase' = (IF Phase = 5 THEN 0 ELSE Phase + 1)
        BY <1>1, ClockFacts, Times, TimesNext
    <1>4. calm >= Phase + (Bound + 6) /\ calm >= Bound + 5
        BY <1>1, <1>2, <1>3 DEF Matches
    <1>5. /\ rcv'.slots[Phase] = rcv.reg0
          /\ \A j \in Slots : j # Phase => rcv'.slots[j] = rcv.slots[j]
          /\ rcv'.out = IF Phase = 0 THEN rcv.slots ELSE rcv.out
          /\ \A j \in 0..Phase - 1 : rcv.slots[j] = WordOf(rcv.reg0.pkt, j)
          /\ Phase # 5 => tx.word.pkt = rcv.reg0.pkt
        BY <1>4, TogetherMoves
    <1>6. CASE x.age = Phase + 1 /\ x.pkt = rcv.reg0.pkt
        <2>1. CASE Phase = 5
            <3>1. rcv'.slots[1] = WordOf(rcv.reg0.pkt, 1)
                <4>1. 1 \in Slots /\ 1 # Phase /\ 1 \in 0..Phase - 1
                    BY <2>1 DEF Slots
                <4> QED BY <1>5, <4>1
            <3>2. WordOf(rcv.reg0.pkt, 1).pkt = rcv.reg0.pkt
                BY DEF WordOf
            <3> QED BY <1>3, <1>6, <2>1, <3>1, <3>2
        <2>2. CASE Phase # 5
            <3>1. rcv'.reg0 = tx.word
                BY <1>4, Listens
            <3> QED BY <1>3, <1>5, <1>6, <2>2, <3>1
        <2> QED BY <2>1, <2>2
    <1>7. CASE x.age = Phase + 7 /\ x.pkt = (IF Phase = 0 THEN rcv.slots[1].pkt ELSE rcv.out[1].pkt)
        <2>1. CASE Phase = 5
            BY <1>7, <2>1
        <2>2. CASE Phase # 5
            <3>1. Phase' = Phase + 1 /\ Phase' # 0
                BY <1>3, <2>2
            <3>2. rcv'.out[1].pkt = IF Phase = 0 THEN rcv.slots[1].pkt ELSE rcv.out[1].pkt
                BY <1>5
            <3> QED BY <1>3, <1>7, <3>1, <3>2
        <2> QED BY <2>1, <2>2
    <1> QED BY <1>6, <1>7 DEF Matches

\* No frame stays for more than ArrivesIn clocks: one that met no fault has been delivered by then,
\* the others are forgotten.
LEMMA FlightsNext ==
    ASSUME TxInv, RxInv, Flights, Strobes, NEW b \in BOOLEAN, flight' = FlightNext(b)
    PROVE  /\ flight' \in Seq(Frame)
           /\ \A i \in 1..Len(flight') : /\ flight'[i].pkt # Null
                                         /\ flight'[i].age >= 1 /\ flight'[i].age <= ArrivesIn
           /\ \A i, j \in 1..Len(flight') : i < j => flight'[i].age > flight'[j].age
           /\ \A i \in 1..Len(flight') :
                 \/ \E k \in 1..Len(flight) : flight'[i] = Later(flight[k], b)
                 \/ Starts /\ flight'[i] = Sending(b)
    <1>1. TxTyped /\ RxTyped /\ flight \in Seq(Frame)
        BY DEF TxInv, RxInv, Flights
    <1>2. \A k \in 1..Len(flight) :
             /\ flight[k].pkt # Null /\ flight[k].age \in Nat /\ flight[k].age >= 1 /\ flight[k].age <= ArrivesIn
             /\ flight[k].safe => calm = Relock
             /\ calm >= flight[k].age + (Bound + 6) => Matches(flight[k])
        <2> TAKE k \in 1..Len(flight)
        <2>1. flight[k] \in Frame
            BY <1>1, ElementOfSeq
        <2>2. flight[k].age \in Nat
            BY <2>1 DEF Frame
        <2> QED BY <2>2 DEF Flights
    <1>3. \A i, j \in 1..Len(flight) : i < j => flight[i].age > flight[j].age
        BY DEF Flights
    <1>4. flight' \in Seq(Frame)
        BY <1>1, <1>2, <1>3, FlightMoves
    <1>5. PICK m \in Nat :
             /\ \A i \in 1..Len(flight') :
                  \/ i + m \in 1..Len(flight) /\ flight'[i] = Later(flight[i + m], b)
                  \/ i = Len(flight') /\ Starts /\ flight'[i] = Sending(b)
             /\ (Len(flight) > 0 /\ Delivers /\ flight[1].pkt = Event(rcv)) => m > 0
             /\ (Len(flight') > 0 /\ m = 0) => flight'[1].safe \/ flight'[1].age <= ArrivesIn
        BY <1>1, <1>2, <1>3, FlightMoves
    <1>6. Len(flight) \in Nat /\ Len(flight') \in Nat
        BY <1>1, <1>4, LenProperties
    <1>7. ASSUME NEW k \in 1..Len(flight)
          PROVE  /\ Later(flight[k], b).pkt = flight[k].pkt /\ Later(flight[k], b).age = flight[k].age + 1
                 /\ Later(flight[k], b).safe => flight[k].safe
        BY DEF Later
    <1>8. Sending(b).pkt = tx.word.pkt /\ Sending(b).age = 1
        BY DEF Sending
    <1>9. ASSUME NEW i \in 1..Len(flight'), i + m \in 1..Len(flight), flight'[i] = Later(flight[i + m], b)
          PROVE  flight'[i].age <= ArrivesIn
        <2>1. flight'[i].age = flight[i + m].age + 1
            BY <1>7, <1>9
        <2>2. CASE i + m > 1
            <3>1. 1 \in 1..Len(flight)
                BY <1>6, <1>9
            <3>2. flight[1].age > flight[i + m].age
                BY <1>3, <1>9, <2>2, <3>1
            <3>3. flight[1].age \in Nat /\ flight[1].age <= ArrivesIn /\ flight[i + m].age \in Nat
                BY <1>2, <1>9, <3>1
            <3> QED BY <2>1, <3>2, <3>3 DEF ArrivesIn
        <2>3. CASE i + m = 1
            <3>1. i = 1 /\ m = 0 /\ Len(flight) > 0 /\ Len(flight') > 0 /\ 1 \in 1..Len(flight)
                BY <1>6, <1>9, <2>3
            <3> SUFFICES ASSUME ~(flight'[1].age <= ArrivesIn) PROVE FALSE
                BY <3>1
            <3>2. flight'[1].safe
                BY <1>5, <3>1
            <3>3. flight[1].safe /\ flight'[1].age = flight[1].age + 1
                BY <1>7, <1>9, <2>3, <3>1, <3>2
            <3>4. calm = Relock /\ flight[1].age = ArrivesIn /\ flight[1].pkt # Null
                BY <1>2, <3>1, <3>3 DEF ArrivesIn
            <3>5. Phase \in 0..5 /\ Bound \in Nat /\ Relock = Bound + 54
                BY <1>1, Times, RxConstants
            <3>6. Matches(flight[1])
                <4>1. calm >= flight[1].age + (Bound + 6)
                    BY <3>4, <3>5 DEF ArrivesIn
                <4> QED BY <1>2, <3>1, <4>1
            <3>7. Phase = 5 /\ flight[1].pkt = rcv.out[1].pkt
                BY <3>4, <3>5, <3>6 DEF Matches, ArrivesIn
            <3>8. rcv.valid
                BY <3>4, <3>5, <3>7 DEF Strobes, Since
            <3>9. Delivers /\ flight[1].pkt = Event(rcv)
                BY <3>4, <3>7, <3>8 DEF Delivers, Event
            <3> QED BY <1>5, <3>1, <3>9
        <2> QED BY <1>9, <2>2, <2>3
    <1>10. ASSUME NEW i \in 1..Len(flight')
           PROVE  flight'[i].pkt # Null /\ flight'[i].age >= 1 /\ flight'[i].age <= ArrivesIn
        <2>1. CASE i + m \in 1..Len(flight) /\ flight'[i] = Later(flight[i + m], b)
            <3>1. flight'[i].pkt = flight[i + m].pkt /\ flight'[i].age = flight[i + m].age + 1
                BY <1>7, <2>1
            <3>2. flight[i + m].pkt # Null /\ flight[i + m].age \in Nat
                BY <1>2, <2>1
            <3>3. flight'[i].age <= ArrivesIn
                BY <1>9, <2>1
            <3> QED BY <3>1, <3>2, <3>3
        <2>2. CASE Starts /\ flight'[i] = Sending(b)
            <3>1. tx.word.pkt # Null
                BY <2>2 DEF Starts
            <3> QED BY <1>8, <2>2, <3>1 DEF ArrivesIn
        <2> QED BY <1>5, <2>1, <2>2
    <1>11. ASSUME NEW i \in 1..Len(flight'), NEW j \in 1..Len(flight'), i < j
           PROVE  flight'[i].age > flight'[j].age
        <2>1. i # Len(flight')
            BY <1>6, <1>11
        <2>2. i + m \in 1..Len(flight) /\ flight'[i] = Later(flight[i + m], b)
            BY <1>5, <2>1
        <2>3. flight'[i].age = flight[i + m].age + 1 /\ flight[i + m].age \in Nat /\ flight[i + m].age >= 1
            BY <1>2, <1>7, <2>2
        <2>4. CASE j + m \in 1..Len(flight) /\ flight'[j] = Later(flight[j + m], b)
            <3>1. flight'[j].age = flight[j + m].age + 1 /\ flight[j + m].age \in Nat
                BY <1>2, <1>7, <2>4
            <3>2. i + m < j + m
                BY <1>11
            <3>3. flight[i + m].age > flight[j + m].age
                BY <1>3, <2>2, <2>4, <3>2
            <3> QED BY <2>3, <3>1, <3>3
        <2>5. CASE flight'[j] = Sending(b)
            BY <1>8, <2>3, <2>5
        <2> QED BY <1>5, <2>4, <2>5
    <1>12. ASSUME NEW i \in 1..Len(flight')
           PROVE  \/ \E k \in 1..Len(flight) : flight'[i] = Later(flight[k], b)
                  \/ Starts /\ flight'[i] = Sending(b)
        BY <1>5
    <1> QED BY <1>4, <1>10, <1>11, <1>12

LEMMA LaterIs ==
    ASSUME NEW x, NEW b \in BOOLEAN
    PROVE  /\ Later(x, b).pkt = x.pkt /\ Later(x, b).age = x.age + 1
           /\ Later(x, b).safe => x.safe
           /\ Later(x, b).safe => b
    BY DEF Later

LEMMA SendingIs ==
    ASSUME NEW b \in BOOLEAN
    PROVE  /\ Sending(b).pkt = tx.word.pkt /\ Sending(b).age = 1
           /\ Sending(b).safe => calm = Relock
           /\ Sending(b).safe => b
    BY DEF Sending

LEMMA ClockFlights ==
    ASSUME TxInv, RxInv, Flights, Strobes, Clock
    PROVE  Flights'
    <1>1. TxTyped /\ RxTyped /\ flight \in Seq(Frame)
        BY DEF TxInv, RxInv, Flights
    <1>2. calm \in Nat /\ calm' \in Nat /\ calm' <= calm + 1 /\ Bound \in Nat /\ Relock \in Nat
        BY <1>1, ClockFacts, RxFields, RxConstants
    <1>3. Phase \in 0..5 /\ Phase' = (IF Phase = 5 THEN 0 ELSE Phase + 1)
        BY <1>1, ClockFacts, Times, TimesNext
    <1>4. calm = Relock => calm' = Relock
        BY <1>2 DEF Clock, UpTo
    <1> DEFINE b == TRUE
    <1>5. b \in BOOLEAN /\ flight' = FlightNext(b)
        BY DEF Clock
    <1> HIDE DEF b
    <1>6. /\ flight' \in Seq(Frame)
          /\ \A i \in 1..Len(flight') : /\ flight'[i].pkt # Null
                                        /\ flight'[i].age >= 1 /\ flight'[i].age <= ArrivesIn
          /\ \A i, j \in 1..Len(flight') : i < j => flight'[i].age > flight'[j].age
          /\ \A i \in 1..Len(flight') :
                \/ \E k \in 1..Len(flight) : flight'[i] = Later(flight[k], b)
                \/ Starts /\ flight'[i] = Sending(b)
        BY <1>5, FlightsNext
    <1>7. ASSUME NEW i \in 1..Len(flight')
          PROVE  /\ flight'[i].safe => calm' = Relock
                 /\ calm' >= flight'[i].age + (Bound + 6) =>
                      \/ flight'[i].age = Phase' + 1 /\ flight'[i].pkt = rcv'.reg0.pkt
                      \/ flight'[i].age = Phase' + 7
                         /\ flight'[i].pkt = (IF Phase' = 0 THEN rcv'.slots[1].pkt ELSE rcv'.out[1].pkt)
        <2>1. CASE \E k \in 1..Len(flight) : flight'[i] = Later(flight[k], b)
            <3>1. PICK k \in 1..Len(flight) : flight'[i] = Later(flight[k], b)
                BY <2>1
            <3>2. flight[k] \in Frame /\ flight[k].age \in Nat
                <4>1. flight[k] \in Frame
                    BY <1>1, ElementOfSeq
                <4> QED BY <4>1 DEF Frame
            <3>3. /\ flight'[i].pkt = flight[k].pkt /\ flight'[i].age = flight[k].age + 1
                  /\ flight'[i].safe => flight[k].safe
                <4> DEFINE x == flight[k]
                <4>1. flight'[i] = Later(x, b)
                    BY <3>1
                <4> HIDE DEF x
                <4>2. /\ Later(x, b).pkt = x.pkt /\ Later(x, b).age = x.age + 1
                      /\ Later(x, b).safe => x.safe
                    BY <1>5, LaterIs
                <4>3. /\ flight'[i].pkt = x.pkt /\ flight'[i].age = x.age + 1
                      /\ flight'[i].safe => x.safe
                    BY <4>1, <4>2
                <4> QED BY <4>3 DEF x
            <3>4. /\ flight[k].safe => calm = Relock
                  /\ calm >= flight[k].age + (Bound + 6) => Matches(flight[k])
                BY DEF Flights
            <3>5. flight'[i].age <= 12
                BY <1>6 DEF ArrivesIn
            <3>6. ASSUME calm' >= flight'[i].age + (Bound + 6)
                  PROVE  \/ flight'[i].age = Phase' + 1 /\ flight'[i].pkt = rcv'.reg0.pkt
                         \/ flight'[i].age = Phase' + 7
                            /\ flight'[i].pkt = (IF Phase' = 0 THEN rcv'.slots[1].pkt ELSE rcv'.out[1].pkt)
                <4>1. calm >= flight[k].age + (Bound + 6) /\ flight[k].age # 12
                    BY <1>2, <3>2, <3>3, <3>5, <3>6
                <4>2. Matches(flight[k])
                    BY <3>4, <4>1
                <4>3. \/ flight[k].age + 1 = Phase' + 1 /\ flight[k].pkt = rcv'.reg0.pkt
                      \/ flight[k].age + 1 = Phase' + 7
                         /\ flight[k].pkt = (IF Phase' = 0 THEN rcv'.slots[1].pkt ELSE rcv'.out[1].pkt)
                      \/ flight[k].age = 12
                    BY <3>2, <4>1, <4>2, MatchesStep
                <4> QED BY <3>3, <4>1, <4>3
            <3> QED BY <1>4, <3>3, <3>4, <3>6
        <2>2. CASE Starts /\ flight'[i] = Sending(b)
            <3>1. /\ flight'[i].pkt = tx.word.pkt /\ flight'[i].age = 1
                  /\ flight'[i].safe => calm = Relock
                BY <1>5, <2>2, SendingIs
            <3>2. ASSUME calm' >= flight'[i].age + (Bound + 6)
                  PROVE  flight'[i].age = Phase' + 1 /\ flight'[i].pkt = rcv'.reg0.pkt
                <4>1. calm >= Bound + 5
                    BY <1>2, <3>1, <3>2
                <4>2. rcv'.reg0 = tx.word /\ (tx.word.k <=> Phase' = 0)
                    BY <4>1, Listens
                <4>3. Phase' = 0
                    BY <2>2, <4>2 DEF Starts
                <4> QED BY <3>1, <4>2, <4>3
            <3> QED BY <1>4, <3>1, <3>2
        <2> QED BY <1>6, <2>1, <2>2
    <1>8. \A i \in 1..Len(flight') :
             /\ flight'[i].safe => calm' = Relock
             /\ calm' >= flight'[i].age + (Bound + 6) => Matches(flight[i])'
        BY <1>7 DEF Matches
    <1> QED BY <1>6, <1>8 DEF Flights, Bound, Relock, ArrivesIn

LEMMA FaultFlights ==
    ASSUME TxInv, RxInv, Flights, Strobes, Damage \/ Forge \/ Slip \/ TxReset
    PROVE  Flights' /\ Strobes'
    <1> DEFINE b == FALSE
    <1>1. calm' = 0 /\ flight' = FlightNext(b) /\ b \in BOOLEAN /\ ~b
        BY DEF Damage, Forge, Slip, TxReset, Fault
    <1> HIDE DEF b
    <1>2. /\ flight' \in Seq(Frame)
          /\ \A i \in 1..Len(flight') : /\ flight'[i].pkt # Null
                                        /\ flight'[i].age >= 1 /\ flight'[i].age <= ArrivesIn
          /\ \A i, j \in 1..Len(flight') : i < j => flight'[i].age > flight'[j].age
          /\ \A i \in 1..Len(flight') :
                \/ \E k \in 1..Len(flight) : flight'[i] = Later(flight[k], b)
                \/ Starts /\ flight'[i] = Sending(b)
        BY <1>1, FlightsNext
    <1>3. Bound \in Nat
        BY RxConstants
    <1>4. ASSUME NEW i \in 1..Len(flight')
          PROVE  ~flight'[i].safe /\ ~(calm' >= flight'[i].age + (Bound + 6))
        <2>1. ~flight'[i].safe
            <3>1. CASE \E k \in 1..Len(flight) : flight'[i] = Later(flight[k], b)
                BY <1>1, <3>1, LaterIs
            <3>2. CASE flight'[i] = Sending(b)
                BY <1>1, <3>2, SendingIs
            <3> QED BY <1>2, <3>1, <3>2
        <2>2. flight'[i].age \in Nat
            <3>1. flight'[i] \in Frame
                BY <1>2, ElementOfSeq
            <3> QED BY <3>1 DEF Frame
        <2> QED BY <1>1, <1>3, <2>1, <2>2
    <1>5. Flights'
        BY <1>2, <1>4 DEF Flights, Bound, Relock, ArrivesIn
    <1>6. Strobes'
        <2>1. ~(calm' >= 5 + (Bound + 43))
            BY <1>1, <1>3
        <2> QED BY <2>1 DEF Strobes, Since, Bound
    <1> QED BY <1>5, <1>6

LEMMA FlightsStep ==
    ASSUME TxInv, RxInv, Flights, Strobes, [LinkNext]_link_vars
    PROVE  Flights' /\ Strobes'
    <1>1. CASE UNCHANGED link_vars
        <2>1. tx' = tx /\ rcv' = rcv /\ calm' = calm /\ flight' = flight
            BY <1>1 DEF link_vars
        <2>2. Phase' = Phase
            BY <2>1 DEF Phase
        <2> QED BY <2>1, <2>2 DEF Flights, Strobes, Matches, Since, Bound, Relock, ArrivesIn
    <1> QED BY <1>1, ClockFlights, FaultFlights, StrobesStep DEF LinkNext

LEMMA FlightsInit ==
    ASSUME LinkInit
    PROVE  Flights /\ Strobes
    <1> DEFINE none == <<>>
    <1>1. none \in Seq(Frame) /\ Len(none) = 0 /\ flight = none /\ calm = 0
        BY DEF LinkInit
    <1> HIDE DEF none
    <1>2. Flights
        BY <1>1 DEF Flights
    <1>3. Strobes
        <2>1. Bound \in Nat /\ ~(0 >= 5 + (Bound + 43))
            BY RxConstants
        <2> QED BY <1>1, <2>1 DEF Strobes, Since
    <1> QED BY <1>2, <1>3

\* Where every frame that left the transmitter is: with the receiver in step, its age tells whether
\* its words are coming in or its CRC is being checked (aclk_rcv.v, aclk_rcv_gearbox.v).
THEOREM FlightInvariance == LinkSpec => [](Flights /\ Strobes)
    <1>1. LinkInit => Flights /\ Strobes
        BY FlightsInit
    <1>2. TxInv /\ RxInv /\ (Flights /\ Strobes) /\ [LinkNext]_link_vars => (Flights /\ Strobes)'
        BY FlightsStep
    <1> QED BY <1>1, <1>2, LinkInvariance, LockInvariance, PTL DEF LinkSpec

\* Each event leaves in time, and its frame, when no fault meets it, reaches the readout within
\* ArrivesIn clocks of its first word: none is passed over once the link is in order.
THEOREM FramesArrive == LinkSpec => []SentAndDeliveredInTime
    <1>1. SentInTime /\ Flights => SentAndDeliveredInTime
        <2> SUFFICES ASSUME SentInTime, Flights PROVE SentAndDeliveredInTime
            OBVIOUS
        <2>1. DOMAIN flight = 1..Len(flight)
            BY LenProperties DEF Flights
        <2> QED BY <2>1 DEF SentAndDeliveredInTime, SentInTime, Flights
    <1> QED BY <1>1, FramesInTime, FlightInvariance, PTL

-----------------------------------------------------------------------------
(***************************************************************************)
(* AclkLink: what is delivered.                                            *)
(***************************************************************************)
Eventful(p) == p # Null /\ Sound(p)

\* The events owed a frame have numbers of their own; q left before all of them.
Numbered ==
    /\ \A i \in 1..Len(todo) : IsEvent(todo[i].pkt) /\ todo[i].pkt.n <= count[todo[i].pkt.code]
    /\ \A i, j \in 1..Len(todo) : i < j => todo[i].pkt # todo[j].pkt
Past(q) ==
    /\ q \in Pkts /\ q.code \in Codes /\ q.n <= count[q.code]
    /\ \A i \in 1..Len(todo) : todo[i].pkt # q

\* k clocks after its reset the transmitter has no event, and its line is silent for ten.
Waking ==
    tx.aclk = Zero =>
      /\ ~tx.or_null
      /\ tx.ctr = 0 => tx.st = "start"
      /\ tx.ctr = 1 => tx.st = "sweep" /\ tx.zero = 0
      /\ tx.ctr = 2 => tx.st = "sweep"
      /\ tx.ctr = 3 => tx.st \in {"sweep", "wait"}
      /\ tx.ctr = 4 => tx.st \in {"sweep", "wait", "read"}
Rebooted(k) ==
    /\ tx.ctr = IF k < 6 THEN k ELSE IF k < 12 THEN k - 6 ELSE k - 12
    /\ k <= 4 => tx.aclk = Zero
    /\ k \in 5..10 => tx.aclk = Null
    /\ k <= 8 => tx.gear = Zero
    /\ k <= 9 => tx.word = ZeroWord
    /\ cut <= k

\* A packet sent a clocks ago at most is not sent again before that.
Spent(q, a) == Past(q) \/ \E k \in 0..a - 1 : Rebooted(k)

\* The words on the line are those of whole frames.
Wired ==
    /\ tx.word = ZeroWord \/ tx.word = WordOf(tx.word.pkt, Place)
    /\ Eventful(tx.word.pkt) /\ tx.word.i # 0 => Past(tx.word.pkt)
    /\ Eventful(tx.gear) /\ tx.ctr \notin {3, 4} => Past(tx.gear)
Sender == Numbered /\ Waking /\ Wired /\ cut \in Nat

-----------------------------------------------------------------------------
\* A packet that left, or leaves now, is not sent again before the next reset.
LEMMA NumberedStep ==
    ASSUME TxInv, Numbered, Encode
    PROVE  /\ Numbered'
           /\ \A q : Past(q) => Past(q)'
           /\ Starts => \A q : q = tx.word.pkt => Past(q)'
    <1> DEFINE k == IF Starts /\ todo # <<>> THEN 1 ELSE 0
               t == TodoNext
               x == [pkt |-> [code |-> tx'.byte, n |-> count'[tx'.byte]], age |-> 0]
    <1>1. /\ todo \in Seq(Owed) /\ Len(todo) \in Nat /\ count \in [Codes -> Nat]
          /\ todo' \in Seq(Owed) /\ count' \in [Codes -> Nat] /\ tx'.byte \in Codes /\ Codes \subseteq Nat
        <2>1. TxTyped'
            BY EncodeTyped DEF TxInv
        <2>2. todo \in Seq(Owed) /\ count \in [Codes -> Nat]
            BY DEF TxInv, TxTyped
        <2>3. todo' \in Seq(Owed) /\ count' \in [Codes -> Nat] /\ tx' \in TxRegs
            BY <2>1 DEF TxTyped
        <2>4. tx'.byte \in Codes
            BY <2>3 DEF TxRegs
        <2>5. Len(todo) \in Nat
            BY <2>2
        <2> QED BY <2>2, <2>3, <2>4, <2>5, Constants
    <1>2. /\ t \in Seq(Owed) /\ Len(t) = Len(todo) - k
          /\ \A i \in 1..Len(todo) - k : t[i].pkt = todo[i + k].pkt
        BY Moves DEF TxInv
    <1>3. k \in {0, 1} /\ (k = 1 => Len(todo) >= 1) /\ (Starts => k = 1 /\ todo[1].pkt = tx.word.pkt)
        <2>1. todo # <<>> => Len(todo) >= 1
            BY <1>1
        <2>2. Starts => todo # <<>> /\ todo[1].pkt = tx.word.pkt
            BY Leaves
        <2> QED BY <2>1, <2>2
    <1> HIDE DEF k, t
    <1>4. ASSUME NEW i \in 1..Len(t)
          PROVE  i + k \in 1..Len(todo) /\ t[i].pkt = todo[i + k].pkt /\ i \in Nat
        BY <1>1, <1>2, <1>3
    <1>5. \/ todo' = t /\ count' = count
          \/ /\ todo' = Append(t, x) /\ count' = [count EXCEPT ![tx'.byte] = @ + 1]
        BY TwoCases DEF TxInv, t, x
    <1>6. \A c \in Codes : count[c] \in Nat /\ count'[c] \in Nat /\ count[c] <= count'[c]
        BY <1>1, <1>5
    <1>7. ASSUME NEW i \in 1..Len(t)
          PROVE  IsEvent(t[i].pkt) /\ t[i].pkt.n <= count[t[i].pkt.code] /\ t[i].pkt \in Pkts
        <2> DEFINE p == todo[i + k].pkt
        <2>1. IsEvent(p) /\ p.n <= count[p.code]
            BY <1>4 DEF Numbered
        <2>2. p \in Pkts
            <3>1. todo[i + k] \in Owed
                BY <1>1, <1>4, ElementOfSeq
            <3> QED BY <3>1 DEF Owed
        <2> QED BY <1>4, <2>1, <2>2
    <1>8. ASSUME NEW i \in 1..Len(t), NEW j \in 1..Len(t), i < j PROVE t[i].pkt # t[j].pkt
        <2>1. i + k < j + k
            BY <1>3, <1>4, <1>8
        <2> QED BY <1>4, <2>1 DEF Numbered
    <1>9. ASSUME Starts, NEW q, q = tx.word.pkt
           PROVE  /\ q \in Pkts /\ q.code \in Codes /\ q.n <= count[q.code]
                  /\ \A i \in 1..Len(t) : t[i].pkt # q
        <2>1. k = 1 /\ q = todo[1].pkt /\ 1 \in 1..Len(todo)
            BY <1>1, <1>3, <1>9
        <2>2. todo[1] \in Owed
            BY <1>1, <2>1, ElementOfSeq
        <2>3. q \in Pkts /\ q.code \in Codes /\ q.n <= count[q.code]
            BY <2>1, <2>2 DEF Numbered, IsEvent, Owed
        <2>4. ASSUME NEW i \in 1..Len(t) PROVE t[i].pkt # q
            <3>1. i + 1 \in 1..Len(todo) /\ 1 < i + 1 /\ t[i].pkt = todo[i + 1].pkt
                BY <1>4, <2>1
            <3> QED BY <2>1, <3>1 DEF Numbered
        <2> QED BY <2>3, <2>4
    <1>10. CASE todo' = t /\ count' = count
        <2>1. Numbered'
            BY <1>7, <1>8, <1>10 DEF Numbered, IsEvent
        <2>2. ASSUME NEW q, Past(q) PROVE Past(q)'
            BY <1>4, <1>10, <2>2 DEF Past
        <2>3. ASSUME Starts, NEW q, q = tx.word.pkt PROVE Past(q)'
            BY <1>10, <1>9, <2>3 DEF Past
        <2> QED BY <2>1, <2>2, <2>3
    <1>11. CASE todo' = Append(t, x) /\ count' = [count EXCEPT ![tx'.byte] = @ + 1]
        <2> DEFINE c == tx'.byte
                   y == [code |-> c, n |-> count'[c]]
        <2>1. c \in Codes /\ count'[c] = count[c] + 1 /\ count[c] \in Nat
            BY <1>1, <1>11
        <2>2. x.pkt = y /\ y.code = c /\ y.n = count[c] + 1
            BY <2>1
        <2>3. x \in Owed
            <3>1. y \in Pkts
                <4>0. Codes \subseteq Int
                    BY <1>1
                <4> HIDE DEF c
                <4>1. c \in Int /\ count'[c] \in Int
                    BY <2>1, <4>0
                <4> QED BY <4>1 DEF Pkts
            <3> QED BY <3>1 DEF Owed
        <2> HIDE DEF x, y
        <2>4. /\ Len(todo') = Len(t) + 1 /\ Len(t) \in Nat
              /\ \A i \in 1..Len(t) : todo'[i] = t[i]
              /\ todo'[Len(t) + 1] = x
            BY <1>2, <1>11, <2>3, AppendProperties, LenProperties
        <2>5. ASSUME NEW i \in 1..Len(todo')
              PROVE  (i \in 1..Len(t) /\ todo'[i].pkt = t[i].pkt) \/ (i = Len(t) + 1 /\ todo'[i].pkt = y)
            BY <2>2, <2>4
        <2>6. ASSUME NEW q \in Pkts, q.n <= count[q.code], q.code \in Codes
              PROVE  q # y /\ q.n <= count'[q.code]
            <3>1. count[q.code] \in Nat /\ count'[q.code] \in Nat /\ count[q.code] <= count'[q.code] /\ q.n \in Int
                BY <1>6, <2>6 DEF Pkts
            <3>2. q = y => q.code = c /\ q.n = count[c] + 1
                BY <2>2
            <3> HIDE DEF c
            <3>3. q # y
                BY <2>1, <2>6, <3>1, <3>2
            <3>4. q.n <= count'[q.code]
                BY <2>6, <3>1
            <3> QED BY <3>3, <3>4
        <2>7. \A i \in 1..Len(t) : t[i].pkt # y /\ t[i].pkt.n <= count'[t[i].pkt.code]
            BY <1>7, <2>6 DEF IsEvent
        <2>8. IsEvent(y) /\ y.n <= count'[y.code]
            BY <2>1, <2>2 DEF IsEvent
        <2>9. Numbered'
            <3>1. ASSUME NEW i \in 1..Len(todo')
                  PROVE  IsEvent(todo'[i].pkt) /\ todo'[i].pkt.n <= count'[todo'[i].pkt.code]
                BY <1>7, <2>5, <2>7, <2>8
            <3>2. ASSUME NEW i \in 1..Len(todo'), NEW j \in 1..Len(todo'), i < j
                  PROVE  todo'[i].pkt # todo'[j].pkt
                <4>1. i \in 1..Len(t) /\ todo'[i].pkt = t[i].pkt
                    BY <2>4, <2>5, <3>2
                <4>2. CASE j \in 1..Len(t) /\ todo'[j].pkt = t[j].pkt
                    BY <1>8, <3>2, <4>1, <4>2
                <4>3. CASE todo'[j].pkt = y
                    BY <2>7, <4>1, <4>3
                <4> QED BY <2>5, <4>2, <4>3
            <3> QED BY <3>1, <3>2 DEF Numbered, IsEvent
        <2>10. ASSUME NEW q, q \in Pkts, q.code \in Codes, q.n <= count[q.code], \A i \in 1..Len(t) : t[i].pkt # q
               PROVE  Past(q)'
            <3>1. q # y /\ q.n <= count'[q.code]
                BY <2>6, <2>10
            <3>2. \A i \in 1..Len(todo') : todo'[i].pkt # q
                BY <2>5, <2>10, <3>1
            <3> QED BY <2>10, <3>1, <3>2 DEF Past
        <2>11. ASSUME NEW q, Past(q) PROVE Past(q)'
            <3>1. \A i \in 1..Len(t) : t[i].pkt # q
                BY <1>4, <2>11 DEF Past
            <3> QED BY <2>10, <2>11, <3>1 DEF Past
        <2>12. ASSUME Starts, NEW q, q = tx.word.pkt PROVE Past(q)'
            BY <1>9, <2>10, <2>12
        <2> QED BY <2>9, <2>11, <2>12
    <1> QED BY <1>5, <1>10, <1>11

\* The sender's registers that matter here.
LEMMA SenderEdge ==
    ASSUME TxInv, Encode
    PROVE  /\ tx.ctr \in 0..5 /\ tx'.ctr = IF tx.ctr = 5 THEN 0 ELSE tx.ctr + 1
           /\ tx'.aclk = IF tx.ctr = 4 THEN (IF tx.or_null THEN tx.tclk ELSE Null) ELSE tx.aclk
           /\ tx'.gear = IF tx.ctr = 2 /\ tx.aclk # Zero THEN tx.aclk ELSE tx.gear
           /\ tx.gear = Zero => tx'.word = ZeroWord
           /\ tx.gear # Zero => tx'.word = WordOf(tx.gear, (tx.ctr + 3) % 6)
    <1>1. tx.ctr \in 0..5 /\ tx'.ctr = IF tx.ctr = 5 THEN 0 ELSE tx.ctr + 1
        BY Fields, Edge, Sixth DEF TxInv
    <1>2. /\ tx.adv0 <=> tx.ctr = 4
          /\ CrcValid(tx) <=> tx.ctr = 2 /\ tx.aclk # Zero
          /\ tx.gear # Zero => tx.gctr = (tx.ctr + 3) % 6
        BY DEF TxInv, Pacing, CrcValid
    <1>3. (tx.ctr + 3) % 6 \in 0..5
        BY <1>1
    <1>4. tx'.aclk = IF tx.ctr = 4 THEN (IF tx.or_null THEN tx.tclk ELSE Null) ELSE tx.aclk
        BY <1>2, Edge DEF TxInv
    <1>5. tx'.gear = IF tx.ctr = 2 /\ tx.aclk # Zero THEN tx.aclk ELSE tx.gear
        BY <1>2, Edge DEF TxInv
    <1>6. tx'.word = IF tx.gear # Zero /\ tx.gctr \in 0..5 THEN WordOf(tx.gear, tx.gctr) ELSE ZeroWord
        BY Edge DEF TxInv
    <1> QED BY <1>1, <1>2, <1>3, <1>4, <1>5, <1>6

LEMMA WakingStep ==
    ASSUME TxInv, Waking, Encode
    PROVE  Waking'
    <1> SUFFICES ASSUME tx'.aclk = Zero
                 PROVE  /\ ~tx'.or_null
                        /\ tx'.ctr = 0 => tx'.st = "start"
                        /\ tx'.ctr = 1 => tx'.st = "sweep" /\ tx'.zero = 0
                        /\ tx'.ctr = 2 => tx'.st = "sweep"
                        /\ tx'.ctr = 3 => tx'.st \in {"sweep", "wait"}
                        /\ tx'.ctr = 4 => tx'.st \in {"sweep", "wait", "read"}
        BY DEF Waking
    <1>1. /\ tx.ctr \in 0..5 /\ tx'.ctr = IF tx.ctr = 5 THEN 0 ELSE tx.ctr + 1
          /\ tx'.aclk = IF tx.ctr = 4 THEN (IF tx.or_null THEN tx.tclk ELSE Null) ELSE tx.aclk
        BY SenderEdge
    <1>2. ~IsEvent(Zero) /\ Zero # Null
        BY Constants DEF IsEvent, Zero
    <1>3. tx.ctr # 4 /\ tx.aclk = Zero
        BY <1>1, <1>2 DEF TxInv, Kept
    <1>4. tx.ctr \in 0..3
        BY <1>1, <1>3 DEF TxInv, Pacing
    <1>5. ~tx'.or_null
        <2>1. tx.st # "store" /\ ~tx.or_null
            BY <1>3, <1>4 DEF Waking
        <2> QED BY <2>1, Edge DEF TxInv, OrNull, StoresEvent
    <1>6. tx'.ctr = tx.ctr + 1
        BY <1>1, <1>4
    <1>7. LastCode # 0
        BY Constants
    <1> QED BY <1>3, <1>4, <1>5, <1>6, <1>7, StateStep DEF Waking

LEMMA RebootedStep ==
    ASSUME TxInv, Waking, Encode, cut \in Nat, cut' \in Nat, cut' <= cut + 1, NEW k \in 0..14, Rebooted(k)
    PROVE  Rebooted(k + 1)'
    <1>1. /\ tx.ctr \in 0..5 /\ tx'.ctr = IF tx.ctr = 5 THEN 0 ELSE tx.ctr + 1
          /\ tx'.aclk = IF tx.ctr = 4 THEN (IF tx.or_null THEN tx.tclk ELSE Null) ELSE tx.aclk
          /\ tx'.gear = IF tx.ctr = 2 /\ tx.aclk # Zero THEN tx.aclk ELSE tx.gear
          /\ tx.gear = Zero => tx'.word = ZeroWord
        BY SenderEdge
    <1>2. tx.ctr = IF k < 6 THEN k ELSE IF k < 12 THEN k - 6 ELSE k - 12
        BY DEF Rebooted
    <1>3. tx'.ctr = IF k + 1 < 6 THEN k + 1 ELSE IF k + 1 < 12 THEN k + 1 - 6 ELSE k + 1 - 12
        BY <1>1, <1>2
    <1>4. k + 1 <= 4 => tx'.aclk = Zero
        BY <1>1, <1>2 DEF Rebooted
    <1>5. k + 1 \in 5..10 => tx'.aclk = Null
        <2>1. CASE k = 4
            BY <1>1, <1>2, <2>1 DEF Rebooted, Waking
        <2>2. CASE k \in 5..9
            BY <1>1, <1>2, <2>2 DEF Rebooted
        <2> QED BY <2>1, <2>2
    <1>6. k + 1 <= 8 => tx'.gear = Zero
        BY <1>1, <1>2 DEF Rebooted
    <1>7. k + 1 <= 9 => tx'.word = ZeroWord
        BY <1>1 DEF Rebooted
    <1>8. cut' <= k + 1
        BY DEF Rebooted
    <1> QED BY <1>3, <1>4, <1>5, <1>6, <1>7, <1>8 DEF Rebooted

LEMMA WiredStep ==
    ASSUME TxInv, Sender, Encode
    PROVE  Wired'
    <1>1. /\ tx.ctr \in 0..5 /\ tx'.ctr = IF tx.ctr = 5 THEN 0 ELSE tx.ctr + 1
          /\ tx'.gear = IF tx.ctr = 2 /\ tx.aclk # Zero THEN tx.aclk ELSE tx.gear
          /\ tx.gear = Zero => tx'.word = ZeroWord
          /\ tx.gear # Zero => tx'.word = WordOf(tx.gear, (tx.ctr + 3) % 6)
        BY SenderEdge
    <1>2. Place' = (tx.ctr + 3) % 6 /\ (tx.ctr + 3) % 6 = IF tx.ctr < 3 THEN tx.ctr + 3 ELSE tx.ctr - 3
        BY <1>1, TimesNext, Sixth DEF TxInv
    <1>3. ASSUME Eventful(tx.gear), tx.ctr # 3, NEW q, q = tx.gear PROVE Past(q)'
        <2>1. CASE tx.ctr = 4
            <3>1. tx.gear # Zero
                BY <1>3 DEF Eventful, Sound, Zero, Null
            <3>2. tx.gear = tx.aclk /\ tx.word.k /\ tx.word.pkt = tx.aclk
                BY <2>1, <3>1 DEF TxInv, Pacing
            <3>3. Starts /\ q = tx.word.pkt
                BY <1>3, <3>2 DEF Starts, Eventful
            <3> QED BY <3>3, NumberedStep DEF Sender
        <2>2. CASE tx.ctr # 4
            <3>1. Past(q)
                BY <1>3, <2>2 DEF Sender, Wired
            <3> QED BY <3>1, NumberedStep DEF Sender
        <2> QED BY <2>1, <2>2
    <1>4. CASE tx.gear = Zero
        <2>1. tx'.word = ZeroWord /\ ~Eventful(Zero) /\ ZeroWord.pkt = Zero
            BY <1>1, <1>4 DEF Eventful, Sound, Zero, Null, ZeroWord
        <2>2. Eventful(tx'.gear) /\ tx'.ctr \notin {3, 4} => FALSE
            BY <1>1, <1>4, <2>1
        <2> QED BY <2>1, <2>2 DEF Wired, Eventful, Sound
    <1>5. CASE tx.gear # Zero
        <2> DEFINE i == (tx.ctr + 3) % 6
        <2>1. tx'.word = WordOf(tx.gear, i) /\ i = Place'
            BY <1>1, <1>2, <1>5
        <2> HIDE DEF i
        <2>2. tx'.word.pkt = tx.gear /\ tx'.word.i = i
            BY <2>1 DEF WordOf
        <2>3. Eventful(tx'.word.pkt) /\ tx'.word.i # 0 => \A q : q = tx'.word.pkt => Past(q)'
            BY <1>1, <1>2, <1>3, <2>2 DEF i
        <2>4. Eventful(tx'.gear) /\ tx'.ctr \notin {3, 4} => \A q : q = tx'.gear => Past(q)'
            BY <1>1, <1>3
        <2>5. Eventful(tx'.word.pkt) /\ tx'.word.i # 0 => Past(tx.word.pkt)'
            BY <2>3 DEF Past
        <2>6. Eventful(tx'.gear) /\ tx'.ctr \notin {3, 4} => Past(tx.gear)'
            BY <2>4 DEF Past
        <2> QED BY <2>1, <2>2, <2>5, <2>6 DEF Wired, Eventful, Sound
    <1> QED BY <1>4, <1>5

\* The transmitter is as its reset leaves it.
Restarted ==
    /\ \E ram \in [Codes -> Nat] : tx = EncoderReset(ram)
    /\ todo = <<>> /\ cut \in Nat
LEMMA SenderReset == Restarted => Sender /\ (cut = 0 => Rebooted(0))
    <1> SUFFICES ASSUME Restarted PROVE Sender /\ (cut = 0 => Rebooted(0))
        OBVIOUS
    <1> PICK ram \in [Codes -> Nat] : tx = EncoderReset(ram)
        BY DEF Restarted
    <1>1. /\ tx.st = "start" /\ tx.ctr = 0 /\ ~tx.or_null /\ tx.aclk = Zero /\ tx.gear = Zero
          /\ tx.word = ZeroWord
        BY DEF EncoderReset
    <1>2. ~Eventful(Zero) /\ ZeroWord.pkt = Zero
        BY DEF Eventful, Sound, Zero, Null, ZeroWord
    <1>3. Numbered
        <2>1. Len(todo) = 0
            BY DEF Restarted
        <2> QED BY <2>1 DEF Numbered
    <1>4. Waking /\ Wired
        BY <1>1, <1>2 DEF Waking, Wired
    <1>5. cut = 0 => Rebooted(0)
        BY <1>1 DEF Rebooted
    <1> QED BY <1>3, <1>4, <1>5 DEF Sender, Restarted

LEMMA CutMoves ==
    ASSUME Sender, LinkNext
    PROVE  cut' \in Nat /\ cut' <= cut + 1
    <1>1. cut \in Nat
        BY DEF Sender
    <1>2. ASSUME NEW w, cut' = Cut(w) PROVE cut' \in Nat /\ cut' <= cut + 1
        BY <1>1, <1>2 DEF Cut, UpTo, CutFor
    <1>3. cut' = 0 \/ \E w : cut' = Cut(w)
        BY DEF LinkNext, Clock, Damage, Forge, Slip, TxReset
    <1> QED BY <1>1, <1>2, <1>3

LEMMA TwoSteps ==
    ASSUME LinkNext
    PROVE  Encode \/ TxReset
    BY DEF LinkNext, Clock, Damage, Forge, Slip

LEMMA ResetStep ==
    ASSUME TxInv, TxReset
    PROVE  Sender' /\ Rebooted(0)'
    <1>1. tx.ram \in [Codes -> Nat]
        BY Fields DEF TxInv
    <1>2. Restarted'
        BY <1>1 DEF TxReset, Restarted
    <1>3. Sender' /\ (cut = 0 => Rebooted(0))'
        BY <1>2, SenderReset, PTL
    <1> QED BY <1>3 DEF TxReset

LEMMA SenderStep ==
    ASSUME TxInv, Sender, LinkNext
    PROVE  Sender'
    <1>1. CASE Encode
        <2>1. Numbered' /\ Waking' /\ Wired'
            BY <1>1, NumberedStep, WakingStep, WiredStep DEF Sender
        <2> QED BY <2>1, CutMoves DEF Sender
    <1> QED BY <1>1, TwoSteps, ResetStep

LEMMA SpentStep ==
    ASSUME TxInv, Sender, LinkNext, NEW q, NEW a \in 1..15, Spent(q, a)
    PROVE  Spent(q, a + 1)'
    <1>1. CASE Encode
        <2>1. CASE Past(q)
            BY <1>1, <2>1, NumberedStep DEF Spent, Sender
        <2>2. CASE \E k \in 0..a - 1 : Rebooted(k)
            <3>1. PICK k \in 0..a - 1 : Rebooted(k)
                BY <2>2
            <3>2. k \in 0..14 /\ k + 1 \in 0..(a + 1) - 1
                OBVIOUS
            <3>3. Rebooted(k + 1)'
                BY <1>1, <3>1, <3>2, CutMoves, RebootedStep DEF Sender
            <3> QED BY <3>2, <3>3 DEF Spent
        <2> QED BY <2>1, <2>2 DEF Spent
    <1>2. CASE TxReset
        <2>1. 0 \in 0..(a + 1) - 1
            OBVIOUS
        <2> QED BY <1>2, <2>1, ResetStep DEF Spent
    <1> QED BY <1>1, <1>2, TwoSteps

\* What was just sent, or is to be sent again only after a reset.
LEMMA SpentNow ==
    ASSUME TxInv, Sender, LinkNext, NEW q, NEW a \in 1..16, Past(q) \/ (Starts /\ q = tx.word.pkt)
    PROVE  Spent(q, a)'
    <1>1. CASE Encode
        BY <1>1, NumberedStep DEF Spent, Sender
    <1>2. CASE TxReset
        <2>1. 0 \in 0..a - 1
            OBVIOUS
        <2> QED BY <1>2, <2>1, ResetStep DEF Spent
    <1> QED BY <1>1, <1>2, TwoSteps

LEMMA SpentMore ==
    ASSUME NEW q, NEW a \in 0..20, NEW b \in 0..20, a <= b, Spent(q, a)
    PROVE  Spent(q, b)
    <1>1. 0..a - 1 \subseteq 0..b - 1
        OBVIOUS
    <1> QED BY <1>1 DEF Spent

LEMMA Silent ==
    ASSUME TxInv, NEW k \in 0..14, Rebooted(k)
    PROVE  ~Starts /\ (k <= 9 => ~tx.word.k) 
    <1>1. tx.word.k <=> tx.ctr = 4 /\ tx.aclk # Zero
        BY DEF TxInv, Pacing
    <1>2. tx.word.k => tx.word.pkt = tx.aclk
        BY DEF TxInv, Pacing
    <1>3. tx.ctr = 4 => k = 4 \/ k = 10
        BY DEF Rebooted
    <1>4. tx.word.k => k = 10 /\ tx.word.pkt = Null
        BY <1>1, <1>2, <1>3 DEF Rebooted
    <1> QED BY <1>4 DEF Starts

LEMMA Apart ==
    ASSUME TxInv, Sender, Starts, NEW q, NEW a \in 0..15, Spent(q, a)
    PROVE  q # tx.word.pkt
    <1>1. \A k \in 0..a - 1 : ~Rebooted(k)
        <2> TAKE k \in 0..a - 1
        <2>1. k \in 0..14
            OBVIOUS
        <2> QED BY <2>1, Silent
    <1>2. Past(q)
        BY <1>1 DEF Spent
    <1>3. todo # <<>> /\ todo[1].pkt = tx.word.pkt
        BY Leaves
    <1>4. 1 \in 1..Len(todo)
        BY <1>3, Fields DEF TxInv
    <1> QED BY <1>2, <1>3, <1>4 DEF Past

-----------------------------------------------------------------------------
Newest(a, p) == Len(flight) > 0 /\ flight[Len(flight)].pkt = p /\ flight[Len(flight)].age = a
Aloft(a, p) == \E i \in 1..Len(flight) : flight[i].pkt = p /\ flight[i].age = a

LEMMA Aboard ==
    ASSUME Flights
    PROVE  /\ flight \in Seq(Frame) /\ Len(flight) \in Nat
           /\ \A i \in 1..Len(flight) : flight[i].age \in Nat /\ flight[i].age <= ArrivesIn
           /\ \A i, j \in 1..Len(flight) : i < j => flight[i].age > flight[j].age
    <1>1. flight \in Seq(Frame) /\ Len(flight) \in Nat
        BY LenProperties DEF Flights
    <1>2. ASSUME NEW i \in 1..Len(flight) PROVE flight[i].age \in Nat
        <2>1. flight[i] \in Frame
            BY <1>1, ElementOfSeq
        <2> QED BY <2>1 DEF Frame
    <1> QED BY <1>1, <1>2 DEF Flights

\* Only a frame whose time is over is forgotten.
LEMMA WeededIs ==
    ASSUME NEW q \in Seq(Frame), NEW k \in 1..Len(q), q[k].age <= ArrivesIn
    PROVE  /\ Len(Weeded(q)) \in Nat
           /\ \E i \in 1..Len(Weeded(q)) : Weeded(q)[i] = q[k] /\ (k = Len(q) => i = Len(Weeded(q)))
    <1>1. Len(q) \in Nat /\ q # <<>> /\ Head(q) = q[1]
        BY LenProperties
    <1>2. CASE ~Head(q).safe /\ Head(q).age > ArrivesIn
        <2> DEFINE t == Tail(q)
        <2>1. Weeded(q) = t
            BY <1>1, <1>2 DEF Weeded
        <2>2. Len(t) = Len(q) - 1 /\ \A i \in 1..Len(t) : t[i] = q[i + 1]
            BY <1>1, HeadTailProperties
        <2> HIDE DEF t
        <2>3. k # 1
            <3>1. q[k] \in Frame
                BY ElementOfSeq
            <3>2. q[k].age \in Nat
                BY <3>1 DEF Frame
            <3> QED BY <1>1, <1>2, <3>2 DEF ArrivesIn
        <2> DEFINE i == k - 1
        <2>4. i \in 1..Len(t) /\ i + 1 = k /\ (k = Len(q) => i = Len(t))
            BY <1>1, <2>2, <2>3
        <2> HIDE DEF i
        <2>5. t[i] = q[k]
            BY <2>2, <2>4
        <2>6. Len(t) \in Nat
            BY <1>1, <2>2, <2>4
        <2> QED BY <2>1, <2>4, <2>5, <2>6
    <1>3. CASE ~(~Head(q).safe /\ Head(q).age > ArrivesIn)
        <2>1. Weeded(q) = q
            BY <1>3 DEF Weeded
        <2> QED BY <1>1, <2>1
    <1> QED BY <1>2, <1>3

\* A frame in flight stays there until its twelfth clock, but for what was given to the readout.
Carries(i, k) ==
    /\ flight'[i].pkt = flight[k].pkt /\ flight'[i].age = flight[k].age + 1
    /\ k = Len(flight) /\ ~Starts => i = Len(flight')
LEMMA Carried ==
    ASSUME TxTyped, Flights, NEW b \in BOOLEAN, flight' = FlightNext(b),
           NEW k \in 1..Len(flight), flight[k].age <= 11,
           Delivers => k = Len(flight) /\ flight[k].pkt # Event(rcv)
    PROVE  \E i \in 1..Len(flight') : Carries(i, k)
    <1>1. /\ flight \in Seq(Frame) /\ Len(flight) \in Nat
          /\ \A i \in 1..Len(flight) : flight[i].age \in Nat /\ flight[i].age <= ArrivesIn
        BY Aboard
    <1>2. PICK q \in Seq(Frame), m \in 0..Len(flight) : flight' = Weeded(q) /\ Ledger(q, m, b)
        BY <1>1, LedgerIs
    <1>3. m < k
        BY <1>1, <1>2 DEF Ledger
    <1> DEFINE j == k - m
    <1>4. j \in 1..Len(flight) - m /\ j + m = k
        BY <1>1, <1>3
    <1> HIDE DEF j
    <1>5. Len(q) = Len(flight) - m + (IF Starts THEN 1 ELSE 0) /\ q[j] = Later(flight[k], b)
        BY <1>2, <1>4 DEF Ledger
    <1>6. j \in 1..Len(q) /\ (k = Len(flight) /\ ~Starts => j = Len(q))
        BY <1>1, <1>4, <1>5
    <1>7. q[j].pkt = flight[k].pkt /\ q[j].age = flight[k].age + 1
        BY <1>5, LaterIs
    <1>8. q[j].age <= ArrivesIn
        BY <1>1, <1>7 DEF ArrivesIn
    <1>9. \E i \in 1..Len(Weeded(q)) : Weeded(q)[i] = q[j] /\ (j = Len(q) => i = Len(Weeded(q)))
        BY <1>6, <1>8, WeededIs
    <1> QED BY <1>2, <1>6, <1>7, <1>9 DEF Carries

LEMMA Launched ==
    ASSUME TxTyped, Flights, NEW b \in BOOLEAN, flight' = FlightNext(b), Starts, NEW p, p = tx.word.pkt
    PROVE  Newest(1, p)'
    <1>1. /\ flight \in Seq(Frame) /\ Len(flight) \in Nat
          /\ \A i \in 1..Len(flight) : flight[i].age \in Nat /\ flight[i].age <= ArrivesIn
        BY Aboard
    <1>2. PICK q \in Seq(Frame), m \in 0..Len(flight) : flight' = Weeded(q) /\ Ledger(q, m, b)
        BY <1>1, LedgerIs
    <1> DEFINE j == Len(q)
    <1>3. j \in 1..Len(q) /\ q[j] = Sending(b)
        BY <1>1, <1>2 DEF Ledger
    <1>4. q[j].pkt = p /\ q[j].age = 1 /\ q[j].age <= ArrivesIn /\ j = Len(q)
        BY <1>3, SendingIs DEF ArrivesIn
    <1> HIDE DEF j
    <1>5. /\ Len(Weeded(q)) \in Nat
          /\ \E i \in 1..Len(Weeded(q)) : Weeded(q)[i] = q[j] /\ (j = Len(q) => i = Len(Weeded(q)))
        BY <1>3, <1>4, WeededIs
    <1>6. Len(flight') > 0 /\ flight'[Len(flight')] = q[j]
        BY <1>2, <1>4, <1>5
    <1> QED BY <1>4, <1>6 DEF Newest

LEMMA NewestStep ==
    ASSUME TxTyped, Flights, NEW b \in BOOLEAN, flight' = FlightNext(b),
           NEW p, NEW a \in 1..11, Newest(a, p), Delivers => p # Event(rcv)
    PROVE  Aloft(a + 1, p)' /\ (~Starts => Newest(a + 1, p)')
    <1> DEFINE k == Len(flight)
    <1>1. k \in 1..Len(flight) /\ flight[k].pkt = p /\ flight[k].age = a /\ flight[k].age <= 11 /\ k = Len(flight)
        BY Aboard DEF Newest
    <1> HIDE DEF k
    <1>2. PICK i \in 1..Len(flight') : Carries(i, k)
        BY <1>1, Carried
    <1>3. flight'[i].pkt = p /\ flight'[i].age = a + 1
        BY <1>1, <1>2 DEF Carries
    <1>4. ~Starts => i = Len(flight') /\ Len(flight') > 0
        BY <1>1, <1>2 DEF Carries
    <1> QED BY <1>3, <1>4 DEF Newest, Aloft

LEMMA AloftStep ==
    ASSUME TxTyped, Flights, NEW b \in BOOLEAN, flight' = FlightNext(b),
           NEW p, NEW a \in 1..11, Aloft(a, p), ~Delivers
    PROVE  Aloft(a + 1, p)'
    <1>1. PICK k \in 1..Len(flight) : flight[k].pkt = p /\ flight[k].age = a
        BY DEF Aloft
    <1>2. flight[k].age <= 11
        BY <1>1
    <1>3. PICK i \in 1..Len(flight') : Carries(i, k)
        BY <1>2, Carried
    <1>4. flight'[i].pkt = p /\ flight'[i].age = a + 1
        BY <1>1, <1>3 DEF Carries
    <1> QED BY <1>4 DEF Aloft

-----------------------------------------------------------------------------
Slot == rcv.seq % 8
Good(j) == rcv.check[j] = "good"
First(w) == w.i = 0 /\ Sound(w.pkt)
InPace(s) == tx.aclk # Zero /\ Phase = s

LEMMA AnyFlight ==
    ASSUME LinkNext
    PROVE  \E b \in BOOLEAN : flight' = FlightNext(b)
    <1>1. CASE Clock
        BY <1>1 DEF Clock
    <1>2. CASE Damage \/ Forge \/ Slip \/ TxReset
        BY <1>2 DEF Damage, Forge, Slip, TxReset, Fault
    <1> QED BY <1>1, <1>2 DEF LinkNext

\* What the receiver hears of the line.
FromLine(w) ==
    /\ Sound(w.pkt) => w.pkt = tx.word.pkt /\ w.i = tx.word.i
    /\ First(w) => w = tx.word /\ w.k
    /\ w.k # tx.word.k => cut' = 0
LEMMA Hearing ==
    ASSUME TxInv, RxTyped, Sender, LinkNext
    PROVE  /\ \E w \in LinkWord : Receive(w) /\ FromLine(w)
           /\ \E b \in BOOLEAN : flight' = FlightNext(b)
    <1> DEFINE x == tx.word
               f == [tx.word EXCEPT !.k = TRUE]
    <1>1. x \in LinkWord /\ Garbage \in LinkWord /\ ~Sound(Garbage.pkt)
        BY Fields, RxWords DEF TxInv, LinkWord, Dud
    <1>2. f \in LinkWord /\ f.pkt = x.pkt /\ f.i = x.i /\ f.k
        BY <1>1 DEF LinkWord
    <1>3. x.i = 0 /\ Sound(x.pkt) => x.k
        <2>1. ~Sound(ZeroWord.pkt)
            BY RxWords DEF Dud
        <2>2. \A p, i : WordOf(p, i).i = i /\ (i = 0 => WordOf(p, i).k)
            BY DEF WordOf
        <2>3. x = ZeroWord \/ x = WordOf(x.pkt, Place)
            BY DEF Sender, Wired
        <2> HIDE DEF x
        <2>4. x.i = 0 /\ x = WordOf(x.pkt, Place) => x.k
            BY <2>2
        <2> QED BY <2>1, <2>3, <2>4
    <1>4. /\ x.k = tx.word.k \/ cut' = 0 => FromLine(x)
          /\ Garbage.k = tx.word.k \/ cut' = 0 => FromLine(Garbage)
        BY <1>1, <1>3 DEF FromLine, First
    <1>5. ASSUME Forge PROVE Receive(f) /\ FromLine(f)
        <2>1. Receive(f) /\ cut' = 0 /\ ~x.k
            BY <1>5 DEF Forge
        <2> HIDE DEF x, f
        <2>2. f.pkt = tx.word.pkt /\ f.i = tx.word.i
            BY <1>2 DEF x
        <2>3. ~First(f)
            BY <1>2, <1>3, <2>1 DEF First
        <2> QED BY <2>1, <2>2, <2>3 DEF FromLine
    <1>6. ASSUME NEW w, cut' = Cut(w) PROVE w.k = tx.word.k \/ cut' = 0
        BY <1>6 DEF Cut
    <1>7. Delivered \in {x, Garbage}
        BY DEF Delivered
    <1> HIDE DEF x, f
    <1>8. ASSUME NEW w \in {x, Garbage}, cut' = Cut(w) \/ cut' = 0 PROVE FromLine(w) /\ w \in LinkWord
        BY <1>1, <1>4, <1>6, <1>8
    <1>9. CASE Clock \/ Slip \/ TxReset
        <2>1. Receive(Delivered) /\ (cut' = Cut(Delivered) \/ cut' = 0)
            BY <1>9 DEF Clock, Slip, TxReset
        <2> QED BY <1>7, <1>8, <2>1, AnyFlight
    <1>10. CASE Damage
        <2>1. Receive(Garbage) /\ cut' = Cut(Garbage) /\ Garbage \in {x, Garbage}
            BY <1>10 DEF Damage
        <2> QED BY <1>8, <2>1, AnyFlight
    <1>11. CASE Forge
        BY <1>2, <1>5, <1>11, AnyFlight
    <1> QED BY <1>9, <1>10, <1>11 DEF LinkNext

\* The receiver's registers that matter here.
LEMMA RxMoves ==
    ASSUME RxTyped, NEW w \in LinkWord, rcv' = ReceiverClk(rcv, w, gt.lane)
    PROVE  /\ Slot \in 0..7 /\ Slot' = IF w.k \/ Slot = 7 THEN 0 ELSE Slot + 1
           /\ rcv'.reg0 = w
           /\ rcv'.out = IF Slot = 0 THEN rcv.slots ELSE rcv.out
           /\ rcv'.present <=> Slot = 0
           /\ Good(1)' <=> rcv.present /\ Intact(rcv.out)
           /\ Good(2)' <=> Good(1)
           /\ Good(3)' <=> Good(2)
           /\ rcv'.valid => Good(3)
           /\ ~rcv.present => rcv'.check[1] = "none"
           /\ rcv'.check[2] = rcv.check[1] /\ rcv'.check[3] = rcv.check[2]
    <1>1. Slot \in 0..7 /\ rcv.seq \in 0..15
        <2>1. rcv.seq \in 0..15
            BY RxFields
        <2>2. ASSUME NEW q \in 0..15 PROVE q % 8 \in 0..7
            OBVIOUS
        <2> QED BY <2>1, <2>2 DEF Slot
    <1>2. rcv'.seq = IF w.k THEN 8 * gt.lane ELSE (rcv.seq + 1) % 16
        BY RxEdge
    <1>3. Slot' = IF w.k \/ Slot = 7 THEN 0 ELSE Slot + 1
        <2>1. CASE w.k
            <3>1. (8 * gt.lane) % 8 = 0
                BY RxFields
            <3> QED BY <1>2, <2>1, <3>1 DEF Slot
        <2>2. CASE ~w.k
            <3>1. rcv'.seq % 8 = IF rcv.seq % 8 = 7 THEN 0 ELSE (rcv.seq % 8) + 1
                BY <1>1, <1>2, <2>2, Wraps
            <3> QED BY <2>2, <3>1 DEF Slot
        <2> QED BY <2>1, <2>2
    <1>4. Good(1)' <=> rcv.present /\ Intact(rcv.out)
        BY RxEdge DEF Good, Verdict
    <1>5. /\ Good(2)' <=> Good(1)
          /\ Good(3)' <=> Good(2)
          /\ rcv'.valid => Good(3)
        BY RxEdge DEF Good
    <1>6. ~rcv.present => rcv'.check[1] = "none"
        BY RxEdge DEF Verdict
    <1>7. /\ rcv'.reg0 = w
          /\ rcv'.out = IF Slot = 0 THEN rcv.slots ELSE rcv.out
          /\ rcv'.present <=> Slot = 0
          /\ rcv'.check[2] = rcv.check[1] /\ rcv'.check[3] = rcv.check[2]
        BY RxEdge DEF Slot
    <1> QED BY <1>1, <1>3, <1>4, <1>5, <1>6, <1>7

LEMMA RxFills ==
    ASSUME RxTyped, NEW w \in LinkWord, rcv' = ReceiverClk(rcv, w, gt.lane)
    PROVE  /\ \A j \in Slots : j # Slot => rcv'.slots[j] = rcv.slots[j]
           /\ \A j \in Slots : (j = Slot /\ Sound(rcv'.slots[j].pkt)) =>
                  /\ rcv'.slots[j].pkt = rcv.reg0.pkt
                  /\ rcv'.slots[j].i # -1 => rcv'.slots[j] = rcv.reg0
    <1>1. rcv'.slots = Fill(rcv, w, gt.lane)
        BY RxEdge
    <1>2. \A j \in Slots : j # Slot => rcv'.slots[j] = rcv.slots[j]
        BY <1>1, FillIs DEF Slot
    <1>3. ASSUME NEW j \in Slots, j = Slot, Sound(rcv'.slots[j].pkt)
          PROVE  rcv'.slots[j].pkt = rcv.reg0.pkt /\ (rcv'.slots[j].i # -1 => rcv'.slots[j] = rcv.reg0)
        <2> DEFINE g == rcv'.slots[j]
        <2>1. g = Assembled(rcv, w, gt.lane) /\ Sound(g.pkt)
            BY <1>1, <1>3, FillIs DEF Slot
        <2>2. ~Sound(Garbage.pkt)
            BY RxWords DEF Dud
        <2> HIDE DEF g
        <2>3. g = rcv.reg0 \/ (rcv.reg0.pkt = Null /\ g = [k |-> FALSE, pkt |-> Null, i |-> -1])
            BY <2>1, <2>2 DEF Assembled
        <2>4. g.pkt = rcv.reg0.pkt /\ (g.i # -1 => g = rcv.reg0)
            BY <2>3
        <2> QED BY <2>4 DEF g
    <1> QED BY <1>2, <1>3

LEMMA Pace ==
    ASSUME TxInv, NEW s \in 0..5, InPace(s)
    PROVE  /\ tx.word.k <=> s = 5
           /\ Starts => s = 5
    <1>1. tx.word.k <=> tx.ctr = 4
        BY DEF TxInv, Pacing, InPace
    <1>2. Phase = (IF tx.ctr = 5 THEN 0 ELSE tx.ctr + 1) /\ tx.ctr \in 0..5
        BY Times DEF TxInv
    <1> QED BY <1>1, <1>2 DEF InPace, Starts

LEMMA PaceStep ==
    ASSUME TxInv, Encode, NEW s \in 0..5, InPace(s), NEW n, n = IF s = 5 THEN 0 ELSE s + 1
    PROVE  InPace(n)'
    <1>1. Phase' = n
        BY TimesNext DEF TxInv, InPace
    <1>2. tx'.aclk = IF tx.ctr = 4 THEN (IF tx.or_null THEN tx.tclk ELSE Null) ELSE tx.aclk
        BY SenderEdge
    <1>3. ~IsEvent(Zero) /\ Zero # Null
        BY Constants DEF IsEvent, Zero
    <1>4. tx.or_null => tx.tclk # Zero
        BY <1>3 DEF TxInv, Kept
    <1> QED BY <1>1, <1>2, <1>3, <1>4 DEF InPace

\* From the first word of a frame on.
LEMMA PaceFirst ==
    ASSUME TxInv, Encode, tx.word.k
    PROVE  InPace(0)'
    <1>1. tx.ctr = 4 /\ tx.aclk # Zero
        BY DEF TxInv, Pacing
    <1>2. Phase = 5
        BY <1>1, Times DEF TxInv
    <1>3. InPace(5)
        BY <1>1, <1>2 DEF InPace
    <1> QED BY <1>3, PaceStep

-----------------------------------------------------------------------------
\* What the receiver holds of the packets sent.
Hot == (rcv.present /\ Intact(rcv.out)) \/ Good(1) \/ Good(2) \/ Good(3)
Whole == Slot = 0 /\ Intact(rcv.slots)
Dated(w, a) == \A q, n : (q = w.pkt /\ n = a /\ Eventful(q)) => Spent(q, n)

\* Six clocks after a comma nothing is left to be checked of the frame before.
Drained ==
    /\ Slot >= 2 => ~rcv.present
    /\ Slot >= 3 => rcv.check[1] = "none"
    /\ Slot >= 4 => rcv.check[2] = "none"
    /\ Slot >= 5 => rcv.check[3] = "none"
    /\ Slot >= 6 => ~rcv.valid
Register ==
    /\ Sound(rcv.reg0.pkt) => rcv.reg0.i \in 0..5 /\ Dated(rcv.reg0, rcv.reg0.i + 1)
    /\ First(rcv.reg0) => InPace(0) \/ Rebooted(0)
    /\ First(rcv.reg0) /\ rcv.reg0.pkt # Null =>
         /\ Newest(1, rcv.reg0.pkt)
         /\ Hot \/ rcv.valid => rcv.out[1].pkt # rcv.reg0.pkt
         /\ Hot \/ Whole => rcv.slots[1].pkt # rcv.reg0.pkt

\* A frame whose first word came in is that of the clocks since, unless a comma was cut.
Assembling(s) == InPace(s) \/ \E k \in 0..s : Rebooted(k) /\ (Sound(rcv.reg0.pkt) => k = 0)
Broken(s) ==
    \/ cut <= s - 6
    \/ \E k \in 0..s : Rebooted(k) /\ (rcv.slots[5].i = 5 /\ Sound(rcv.slots[5].pkt) => k <= s - 5)
Begun(s, q) == Newest(s + 1, q) /\ (Hot \/ rcv.valid => rcv.out[1].pkt # q)
Filling ==
    First(rcv.slots[0]) => \A s \in 0..7 : Slot = s =>
      /\ Dated(rcv.slots[0], IF s = 0 THEN 9 ELSE s + 1)
      /\ s \in 1..5 => Assembling(s)
      /\ s \in 1..5 => \A q : q = rcv.slots[0].pkt /\ q # Null => Begun(s, q)
      /\ s \in 6..7 => Broken(s)
Stale ==
    /\ rcv.present => rcv.slots[1] = rcv.out[1]
    /\ rcv.present /\ Intact(rcv.out) => Dated(rcv.out[1], 10)
    /\ \A j \in 1..3 : Good(j) => Dated(rcv.out[1], 10 + j) /\ Dated(rcv.slots[1], 10 + j)

\* A good frame, s clocks after the comma that completed it, is the only one that is checked, and it
\* is still in flight, unless a comma was cut.
Ours(s, p) ==
    /\ Slot = s /\ ~rcv.valid /\ (s = 0 => ~rcv.present) /\ (\A j \in 1..3 : j >= s => ~Good(j))
    /\ InPace(s) \/ \E k \in 0..s + 1 : Rebooted(k)
    /\ p # Null => Aloft(s + 7, p)
Tracked(c, s, f) == cut <= c \/ \A p : p = f[1].pkt => Ours(s, p)
Checking ==
    /\ Whole => Tracked(3, 0, rcv.slots)
    /\ rcv.present /\ Intact(rcv.out) => Tracked(4, 1, rcv.out)
    /\ \A j \in 1..3 : Good(j) => Tracked(4 + j, 1 + j, rcv.out)
    /\ rcv.valid => cut <= 8 \/ \A p : p = rcv.out[1].pkt /\ p # Null => Aloft(12, p)
Inside == Drained /\ Register /\ Filling /\ Stale /\ Checking

-----------------------------------------------------------------------------
LEMMA SpentOn ==
    ASSUME TxInv, Sender, LinkNext, NEW q, NEW a \in 1..15, NEW c \in 0..20, a < c, Spent(q, a)
    PROVE  Spent(q, c)'
    <1>1. Spent(q, a + 1)'
        BY SpentStep
    <1>2. 0..(a + 1) - 1 \subseteq 0..c - 1
        OBVIOUS
    <1> QED BY <1>1, <1>2 DEF Spent

LEMMA IntactIs ==
    ASSUME NEW f, Intact(f)
    PROVE  /\ First(f[0]) /\ f[0].pkt = f[1].pkt /\ Sound(f[1].pkt)
           /\ f[5].i = 5 /\ f[5].pkt = f[1].pkt
    BY DEF Intact, First, Sound, Slots

LEMMA Midframe ==
    ASSUME TxInv, NEW s \in 0..4, InPace(s) \/ \E k \in 0..s + 1 : Rebooted(k)
    PROVE  ~tx.word.k /\ ~Starts
    <1>1. CASE InPace(s)
        BY <1>1, Pace
    <1>2. ASSUME NEW k \in 0..s + 1, Rebooted(k) PROVE ~tx.word.k /\ ~Starts
        <2>1. k \in 0..14 /\ k <= 9
            OBVIOUS
        <2> QED BY <1>2, <2>1, Silent
    <1> QED BY <1>1, <1>2

\* What is checked or assembled now was sent thirteen clocks ago at most, and not since.
LEMMA HotOld ==
    ASSUME Stale, Hot, NEW q, Eventful(q), q = rcv.out[1].pkt \/ q = rcv.slots[1].pkt
    PROVE  Spent(q, 13)
    <1>1. CASE rcv.present /\ Intact(rcv.out)
        <2>1. Spent(q, 10)
            BY <1>1 DEF Stale, Dated
        <2> QED BY <2>1, SpentMore
    <1>2. ASSUME NEW j \in 1..3, Good(j) PROVE Spent(q, 13)
        <2>1. 10 + j \in 0..20 /\ 10 + j <= 13
            OBVIOUS
        <2>2. Spent(q, 10 + j)
            BY <1>2 DEF Stale, Dated
        <2> QED BY <2>1, <2>2, SpentMore
    <1> QED BY <1>1, <1>2 DEF Hot

LEMMA FillingOld ==
    ASSUME Filling, Slot \in 0..7, First(rcv.slots[0]), NEW q, Eventful(q), q = rcv.slots[0].pkt
    PROVE  Spent(q, 9)
    <1> DEFINE s == Slot
               n == IF s = 0 THEN 9 ELSE s + 1
    <1>1. Dated(rcv.slots[0], n)
        BY DEF Filling
    <1>2. n \in 0..20 /\ n <= 9
        OBVIOUS
    <1> HIDE DEF n
    <1>3. Spent(q, n)
        BY <1>1 DEF Dated
    <1> QED BY <1>2, <1>3, SpentMore

LEMMA RegisterOld ==
    ASSUME Register, NEW q, Eventful(q), q = rcv.reg0.pkt
    PROVE  Spent(q, 6)
    <1> DEFINE n == rcv.reg0.i + 1
    <1>1. Dated(rcv.reg0, n) /\ n \in 0..20 /\ n <= 6
        BY DEF Register, Eventful
    <1> HIDE DEF n
    <1>2. Spent(q, n)
        BY <1>1 DEF Dated
    <1> QED BY <1>1, <1>2, SpentMore

LEMMA HotNext ==
    ASSUME RxTyped, NEW w \in LinkWord, rcv' = ReceiverClk(rcv, w, gt.lane)
    PROVE  Hot' \/ rcv'.valid => Whole \/ Hot
    <1>1. rcv'.present /\ Intact(rcv'.out) => Whole
        BY RxMoves DEF Whole
    <1> QED BY <1>1, RxMoves DEF Hot

\* What is delivered next, and what is assembled next, was sent before the packet that starts now.
LEMMA OutOld ==
    ASSUME RxTyped, Inside, NEW w \in LinkWord, rcv' = ReceiverClk(rcv, w, gt.lane),
           Hot' \/ rcv'.valid, NEW q, Eventful(q), q = rcv'.out[1].pkt
    PROVE  Spent(q, 13)
    <1>1. /\ Slot \in 0..7 /\ rcv'.out = IF Slot = 0 THEN rcv.slots ELSE rcv.out
          /\ Whole \/ Hot
        BY RxMoves, HotNext
    <1>2. q = rcv.out[1].pkt \/ (q = rcv.slots[1].pkt /\ Slot = 0)
        BY <1>1
    <1>3. CASE Hot
        BY <1>2, <1>3, HotOld DEF Inside
    <1>4. CASE Whole
        <2>1. First(rcv.slots[0]) /\ q = rcv.slots[0].pkt
            BY <1>1, <1>4, IntactIs DEF Whole
        <2>2. Spent(q, 9)
            BY <1>1, <2>1, FillingOld DEF Inside
        <2> QED BY <2>2, SpentMore
    <1> QED BY <1>1, <1>3, <1>4

LEMMA SlotsOld ==
    ASSUME RxTyped, Inside, NEW w \in LinkWord, rcv' = ReceiverClk(rcv, w, gt.lane),
           Hot' \/ Whole', NEW q, Eventful(q), q = rcv'.slots[1].pkt
    PROVE  Spent(q, 13)
    <1>1. /\ Slot \in 0..7
          /\ Hot' => Whole \/ Hot
          /\ \A j \in Slots : j # Slot => rcv'.slots[j] = rcv.slots[j]
          /\ \A j \in Slots : j = Slot /\ Sound(rcv'.slots[j].pkt) => rcv'.slots[j].pkt = rcv.reg0.pkt
        BY RxMoves, RxFills, HotNext
    <1>2. 0 \in Slots /\ 1 \in Slots /\ Sound(q)
        BY DEF Slots, Eventful
    <1>3. Whole' => First(rcv'.slots[0]) /\ Sound(rcv'.slots[0].pkt) /\ q = rcv'.slots[0].pkt
        BY IntactIs DEF Whole, First
    <1>4. ASSUME q = rcv.reg0.pkt PROVE Spent(q, 13)
        <2>1. Spent(q, 6)
            BY <1>4, RegisterOld DEF Inside
        <2> QED BY <2>1, SpentMore
    <1>5. ASSUME First(rcv.slots[0]), q = rcv.slots[0].pkt PROVE Spent(q, 13)
        <2>1. Spent(q, 9)
            BY <1>1, <1>5, FillingOld DEF Inside
        <2> QED BY <2>1, SpentMore
    <1>6. CASE Slot = 1
        BY <1>1, <1>2, <1>4, <1>6
    <1>7. CASE Slot # 1
        <2>1. q = rcv.slots[1].pkt
            BY <1>1, <1>2, <1>7
        <2>2. CASE Hot
            BY <2>1, <2>2, HotOld DEF Inside
        <2>3. CASE Whole
            <3>1. First(rcv.slots[0]) /\ q = rcv.slots[0].pkt
                BY <2>1, <2>3, IntactIs DEF Whole
            <3> QED BY <1>5, <3>1
        <2>4. CASE Whole' /\ Slot = 0
            BY <1>1, <1>2, <1>3, <1>4, <2>4
        <2>5. CASE Whole' /\ Slot # 0
            BY <1>1, <1>2, <1>3, <1>5, <2>5
        <2> QED BY <1>1, <2>2, <2>3, <2>4, <2>5
    <1> QED BY <1>6, <1>7

-----------------------------------------------------------------------------
LEMMA DrainedStep ==
    ASSUME RxTyped, Drained, NEW w \in LinkWord, rcv' = ReceiverClk(rcv, w, gt.lane)
    PROVE  Drained'
    <1>1. Slot \in 0..7 /\ Slot' = IF w.k \/ Slot = 7 THEN 0 ELSE Slot + 1
        BY RxMoves
    <1>2. Slot' >= 2 => ~rcv'.present
        BY <1>1, RxMoves
    <1>3. Slot' >= 3 => rcv'.check[1] = "none"
        <2>1. Slot' >= 3 => ~rcv.present
            BY <1>1 DEF Drained
        <2> QED BY <2>1, RxMoves
    <1>4. Slot' >= 4 => rcv'.check[2] = "none"
        <2>1. Slot' >= 4 => rcv.check[1] = "none"
            BY <1>1 DEF Drained
        <2> QED BY <2>1, RxMoves
    <1>5. Slot' >= 5 => rcv'.check[3] = "none"
        <2>1. Slot' >= 5 => rcv.check[2] = "none"
            BY <1>1 DEF Drained
        <2> QED BY <2>1, RxMoves
    <1>6. Slot' >= 6 => ~rcv'.valid
        <2>1. Slot' >= 6 => ~Good(3)
            BY <1>1 DEF Drained, Good
        <2> QED BY <2>1, RxMoves
    <1> QED BY <1>2, <1>3, <1>4, <1>5, <1>6 DEF Drained

LEMMA RegisterStep ==
    ASSUME TxInv, RxTyped, Sender, Flights, Inside, LinkNext,
           NEW w \in LinkWord, FromLine(w), rcv' = ReceiverClk(rcv, w, gt.lane)
    PROVE  Register'
    <1>1. /\ rcv'.reg0 = w
          /\ Sound(w.pkt) => w.pkt = tx.word.pkt /\ w.i = tx.word.i
          /\ First(w) => w = tx.word /\ w.k
        BY RxMoves DEF FromLine
    <1>2. Sound(w.pkt) => w.i \in 0..5 /\ w.i = Place
        <2>1. ~Sound(ZeroWord.pkt)
            BY RxWords DEF Dud
        <2>2. Place \in 0..5
            BY Times DEF TxInv
        <2>3. \A p, i : WordOf(p, i).i = i
            BY DEF WordOf
        <2>4. tx.word = ZeroWord \/ tx.word = WordOf(tx.word.pkt, Place)
            BY DEF Sender, Wired
        <2>5. tx.word # ZeroWord => tx.word.i = Place
            BY <2>3, <2>4
        <2> QED BY <1>1, <2>1, <2>2, <2>5
    <1>3. First(w) /\ w.pkt # Null => Starts /\ w.pkt = tx.word.pkt
        BY <1>1 DEF Starts
    <1>4. ASSUME Sound(w.pkt), NEW q, NEW n, q = w.pkt, n = w.i + 1, Eventful(q) PROVE Spent(q, n)'
        <2>1. n \in 1..16
            BY <1>2, <1>4
        <2>2. CASE w.i = 0
            <3>1. Starts /\ q = tx.word.pkt
                BY <1>3, <1>4, <2>2 DEF First, Eventful
            <3> QED BY <2>1, <3>1, SpentNow
        <2>3. CASE w.i # 0
            <3>1. Past(q)
                BY <1>1, <1>4, <2>3 DEF Sender, Wired
            <3> QED BY <2>1, <3>1, SpentNow
        <2> QED BY <2>2, <2>3
    <1>5. Sound(w.pkt) => w.i \in 0..5 /\ \A q, n : (q = w.pkt /\ n = w.i + 1 /\ Eventful(q)) => Spent(q, n)'
        BY <1>2, <1>4
    <1>6. First(w) => InPace(0)' \/ Rebooted(0)'
        <2> SUFFICES ASSUME First(w) PROVE InPace(0)' \/ Rebooted(0)'
            OBVIOUS
        <2>1. tx.word.k
            BY <1>1
        <2> QED BY <2>1, TwoSteps, PaceFirst, ResetStep
    <1>7. ASSUME First(w), w.pkt # Null
          PROVE  /\ \A q : q = w.pkt => Newest(1, q)'
                 /\ Hot' \/ rcv'.valid => rcv'.out[1].pkt # w.pkt
                 /\ Hot' \/ Whole' => rcv'.slots[1].pkt # w.pkt
        <2>1. Starts /\ w.pkt = tx.word.pkt /\ Eventful(w.pkt)
            BY <1>3, <1>7 DEF First, Eventful
        <2>2. ASSUME NEW q, q = w.pkt PROVE Newest(1, q)'
            <3>1. PICK b \in BOOLEAN : flight' = FlightNext(b)
                BY AnyFlight
            <3> QED BY <2>1, <2>2, <3>1, Launched DEF TxInv
        <2>3. ASSUME NEW q, Spent(q, 13) PROVE q # w.pkt
            <3>1. 13 \in 0..15
                OBVIOUS
            <3> QED BY <2>1, <2>3, <3>1, Apart
        <2>4. ASSUME Hot' \/ rcv'.valid PROVE rcv'.out[1].pkt # w.pkt
            <3>1. ASSUME NEW q, Eventful(q), q = rcv'.out[1].pkt PROVE q # w.pkt
                BY <2>3, <2>4, <3>1, OutOld
            <3> QED BY <2>1, <3>1
        <2>5. ASSUME Hot' \/ Whole' PROVE rcv'.slots[1].pkt # w.pkt
            <3>1. ASSUME NEW q, Eventful(q), q = rcv'.slots[1].pkt PROVE q # w.pkt
                BY <2>3, <2>5, <3>1, SlotsOld
            <3> QED BY <2>1, <3>1
        <2> QED BY <2>2, <2>4, <2>5
    <1>8. First(w) /\ w.pkt # Null => Newest(1, rcv.reg0.pkt)'
        BY <1>1, <1>7 DEF Newest
    <1>9. Sound(rcv'.reg0.pkt) => rcv'.reg0.i \in 0..5 /\ Dated(rcv.reg0, rcv.reg0.i + 1)'
        BY <1>1, <1>5 DEF Dated
    <1> QED BY <1>1, <1>6, <1>7, <1>8, <1>9 DEF Register, First, Sound

LEMMA StaleStep ==
    ASSUME TxInv, RxTyped, Sender, Inside, LinkNext,
           NEW w \in LinkWord, rcv' = ReceiverClk(rcv, w, gt.lane)
    PROVE  Stale'
    <1>1. /\ Slot \in 0..7
          /\ rcv'.out = IF Slot = 0 THEN rcv.slots ELSE rcv.out
          /\ rcv'.present <=> Slot = 0
          /\ Good(1)' <=> rcv.present /\ Intact(rcv.out)
          /\ Good(2)' <=> Good(1)
          /\ Good(3)' <=> Good(2)
          /\ \A j \in Slots : j # Slot => rcv'.slots[j] = rcv.slots[j]
          /\ \A j \in Slots : j = Slot /\ Sound(rcv'.slots[j].pkt) => rcv'.slots[j].pkt = rcv.reg0.pkt
        BY RxMoves, RxFills
    <1>2. 1 \in Slots
        BY DEF Slots
    <1>3. rcv'.present => rcv'.slots[1] = rcv'.out[1]
        BY <1>1, <1>2
    <1>4. ASSUME Slot = 0, Intact(rcv.slots), NEW q, Eventful(q), q = rcv'.out[1].pkt PROVE Spent(q, 10)'
        <2>1. First(rcv.slots[0]) /\ q = rcv.slots[0].pkt
            BY <1>1, <1>4, IntactIs
        <2>2. Spent(q, 9)
            BY <1>1, <1>4, <2>1, FillingOld DEF Inside
        <2> QED BY <2>2, SpentOn
    <1>5. ASSUME NEW n \in 10..12, Dated(rcv.out[1], n), Dated(rcv.slots[1], n),
                 NEW q, Eventful(q), q = rcv'.out[1].pkt \/ q = rcv'.slots[1].pkt
          PROVE  Spent(q, n + 1)'
        <2>1. n \in 1..15 /\ n + 1 \in 0..20 /\ n < n + 1 /\ 6 < n + 1 /\ 6 \in 1..15
            OBVIOUS
        <2>2. CASE q = rcv.out[1].pkt \/ q = rcv.slots[1].pkt
            <3>1. Spent(q, n)
                BY <1>5, <2>2 DEF Dated
            <3> QED BY <2>1, <3>1, SpentOn
        <2>3. CASE q = rcv.reg0.pkt
            <3>1. Spent(q, 6)
                BY <1>5, <2>3, RegisterOld DEF Inside
            <3> QED BY <2>1, <3>1, SpentOn
        <2>4. q = rcv.out[1].pkt \/ q = rcv.slots[1].pkt \/ q = rcv.reg0.pkt
            <3>1. Sound(q)
                BY <1>5 DEF Eventful
            <3> QED BY <1>1, <1>2, <1>5, <3>1
        <2> QED BY <2>2, <2>3, <2>4
    <1>6. ASSUME NEW j \in 1..3, Good(j)' PROVE \A q, n : 
             ((q = rcv'.out[1].pkt \/ q = rcv'.slots[1].pkt) /\ n = 10 + j /\ Eventful(q)) => Spent(q, n)'
        <2> DEFINE n == 9 + j
        <2>1. n \in 10..12 /\ n + 1 = 10 + j
            OBVIOUS
        <2>2. Dated(rcv.out[1], n) /\ Dated(rcv.slots[1], n)
            <3>1. CASE j = 1
                <4>1. n = 10 /\ rcv.present /\ Intact(rcv.out)
                    BY <1>1, <1>6, <3>1
                <4> QED BY <4>1 DEF Inside, Stale
            <3>2. CASE j \in {2, 3}
                <4>1. Good(j - 1) /\ j - 1 \in 1..3 /\ n = 10 + (j - 1)
                    BY <1>1, <1>6, <3>2
                <4> HIDE DEF n
                <4> QED BY <4>1 DEF Inside, Stale
            <3> QED BY <3>1, <3>2
        <2> HIDE DEF n
        <2> QED BY <1>5, <2>1, <2>2
    <1>7. rcv'.present /\ Intact(rcv'.out) => \A q, n : (q = rcv'.out[1].pkt /\ n = 10 /\ Eventful(q)) => Spent(q, n)'
        BY <1>1, <1>4
    <1> QED BY <1>3, <1>6, <1>7 DEF Stale, Dated

LEMMA AssemblingStep ==
    ASSUME TxInv, Sender, LinkNext, NEW w, FromLine(w), rcv'.reg0 = w, NEW s \in 0..4,
           InPace(s) \/ \E k \in 0..s : Rebooted(k)
    PROVE  Assembling(s + 1)'
    <1>1. 0 \in 0..s + 1 /\ s + 1 \in 1..5 /\ s \in 0..5 /\ s # 5
        OBVIOUS
    <1>2. CASE TxReset
        <2>1. Rebooted(0)'
            BY <1>2, ResetStep
        <2> QED BY <1>1, <2>1 DEF Assembling
    <1>3. CASE Encode /\ InPace(s)
        <2>1. InPace(s + 1)'
            BY <1>1, <1>3, PaceStep
        <2> QED BY <2>1 DEF Assembling
    <1>4. CASE Encode /\ \E k \in 0..s : Rebooted(k)
        <2>1. PICK k \in 0..s : Rebooted(k)
            BY <1>4
        <2>2. k \in 0..14 /\ k <= 9 /\ k + 1 \in 0..s + 1
            OBVIOUS
        <2>3. Rebooted(k + 1)'
            BY <1>4, <2>1, <2>2, CutMoves, RebootedStep DEF Sender
        <2>4. tx.word = ZeroWord
            BY <2>1, <2>2 DEF Rebooted
        <2>5. ~Sound(ZeroWord.pkt)
            BY RxWords DEF Dud
        <2>6. ~Sound(w.pkt)
            BY <2>4, <2>5 DEF FromLine
        <2>7. ~Sound(rcv.reg0.pkt)'
            BY <2>6 DEF Sound
        <2> QED BY <2>2, <2>3, <2>7 DEF Assembling
    <1> QED BY <1>2, <1>3, <1>4, TwoSteps

LEMMA FillingStep ==
    ASSUME TxInv, RxTyped, Sender, Flights, Inside, LinkNext,
           NEW w \in LinkWord, FromLine(w), rcv' = ReceiverClk(rcv, w, gt.lane)
    PROVE  Filling'
    <1> DEFINE z == rcv'.slots[0]
    <1> SUFFICES ASSUME First(z), NEW s \in 0..7, Slot' = s
                 PROVE  /\ \A q, n : (q = z.pkt /\ n = (IF s = 0 THEN 9 ELSE s + 1) /\ Eventful(q)) => Spent(q, n)'
                        /\ s \in 1..5 => Assembling(s)'
                        /\ s \in 1..5 => \A q : q = z.pkt /\ q # Null => Begun(s, q)'
                        /\ s \in 6..7 => Broken(s)'
        BY DEF Filling, Dated, First, Sound
    <1>1. /\ Slot \in 0..7 /\ s = IF w.k \/ Slot = 7 THEN 0 ELSE Slot + 1
          /\ rcv'.reg0 = w
          /\ rcv'.out = IF Slot = 0 THEN rcv.slots ELSE rcv.out
          /\ rcv'.present <=> Slot = 0
          /\ \A j \in Slots : j # Slot => rcv'.slots[j] = rcv.slots[j]
          /\ \A j \in Slots : (j = Slot /\ Sound(rcv'.slots[j].pkt)) =>
                  /\ rcv'.slots[j].pkt = rcv.reg0.pkt
                  /\ rcv'.slots[j].i # -1 => rcv'.slots[j] = rcv.reg0
        BY RxMoves, RxFills
    <1>2. 0 \in Slots /\ 5 \in Slots
        BY DEF Slots
    <1>3. (Slot = 0 => z = rcv.reg0) /\ (Slot # 0 => z = rcv.slots[0])
        BY <1>1, <1>2 DEF First
    <1> HIDE DEF z
    <1>4. (Slot = 0 => First(rcv.reg0)) /\ (Slot # 0 => First(rcv.slots[0]))
        BY <1>3
    <1>5. s \in 1..7 => Slot = s - 1 /\ ~w.k
        BY <1>1
    <1>6. ASSUME NEW q, NEW n, q = z.pkt, n = (IF s = 0 THEN 9 ELSE s + 1), Eventful(q) PROVE Spent(q, n)'
        <2>1. n \in 0..20
            BY <1>6
        <2>2. CASE Slot = 0
            <3>1. Dated(rcv.reg0, 1)
                BY <1>4, <2>2 DEF Inside, Register, First
            <3>2. Spent(q, 1)
                BY <1>3, <1>6, <2>2, <3>1 DEF Dated
            <3>3. 1 \in 1..15 /\ 1 < n
                BY <1>6
            <3> QED BY <2>1, <3>2, <3>3, SpentOn
        <2>3. CASE Slot # 0
            <3> DEFINE a == Slot + 1
            <3>1. Dated(rcv.slots[0], a)
                BY <1>1, <1>4, <2>3 DEF Inside, Filling
            <3>2. a \in 1..15 /\ a < n
                BY <1>1, <1>6, <2>3
            <3> HIDE DEF a
            <3>3. Spent(q, a)
                BY <1>3, <1>6, <2>3, <3>1 DEF Dated
            <3> QED BY <2>1, <3>2, <3>3, SpentOn
        <2> QED BY <2>2, <2>3
    <1>7. s \in 1..6 => InPace(s - 1) \/ \E k \in 0..s - 1 : Rebooted(k)
        <2>1. CASE s = 1
            <3>1. 0 \in 0..s - 1
                BY <2>1
            <3>2. Slot = 0
                BY <1>5, <2>1
            <3> QED BY <1>4, <2>1, <3>1, <3>2 DEF Inside, Register
        <2>2. CASE s \in 2..6
            <3>1. Assembling(s - 1)
                <4>1. Slot = s - 1 /\ s - 1 \in 1..5 /\ s - 1 \in 0..7 /\ Slot # 0
                    BY <1>5, <2>2
                <4> QED BY <1>4, <4>1 DEF Inside, Filling
            <3> QED BY <3>1 DEF Assembling
        <2> QED BY <2>1, <2>2
    <1>8. s \in 1..5 => Assembling(s)'
        <2> SUFFICES ASSUME s \in 1..5 PROVE Assembling(s)'
            OBVIOUS
        <2> DEFINE u == s - 1
        <2>1. u \in 0..4 /\ u + 1 = s
            OBVIOUS
        <2>2. InPace(u) \/ \E k \in 0..u : Rebooted(k)
            BY <1>7
        <2> HIDE DEF u
        <2>3. Assembling(u + 1)'
            BY <1>1, <2>1, <2>2, AssemblingStep
        <2> QED BY <2>1, <2>3
    <1>9. ASSUME s \in 1..5, NEW q, q = z.pkt, q # Null PROVE Begun(s, q)'
        <2>1. PICK b \in BOOLEAN : flight' = FlightNext(b)
            BY AnyFlight
        <2> DEFINE u == s - 1
        <2>2. u \in 0..4 /\ u + 1 = s /\ Slot = u
            BY <1>5, <1>9
        <2>3. InPace(u) \/ \E k \in 0..u : Rebooted(k)
            BY <1>7, <1>9
        <2>4. ~Starts
            <3>1. 0..u \subseteq 0..u + 1
                BY <2>2
            <3> HIDE DEF u
            <3> QED BY <2>2, <2>3, <3>1, Midframe
        <2>5. Newest(s, q) /\ (rcv.valid => rcv.out[1].pkt # q)
            <3>1. CASE s = 1
                <4>1. q = rcv.reg0.pkt /\ First(rcv.reg0)
                    BY <1>3, <1>4, <1>5, <1>9, <3>1
                <4> QED BY <1>9, <3>1, <4>1 DEF Inside, Register
            <3>2. CASE s # 1
                <4>1. q = rcv.slots[0].pkt /\ First(rcv.slots[0]) /\ u \in 1..5 /\ u \in 0..7
                    BY <1>3, <1>4, <1>9, <2>2, <3>2
                <4>2. Begun(u, q)
                    BY <1>9, <2>2, <4>1 DEF Inside, Filling
                <4> QED BY <2>2, <4>2 DEF Begun
            <3> QED BY <3>1, <3>2
        <2>6. Newest(s + 1, q)'
            <3>1. s \in 1..11 /\ (Delivers => q # Event(rcv))
                BY <1>9, <2>5 DEF Delivers, Event
            <3> QED BY <2>1, <2>4, <2>5, <3>1, NewestStep DEF TxInv
        <2>7. ASSUME Hot' \/ rcv'.valid PROVE rcv'.out[1].pkt # q
            <3>1. Whole \/ Hot
                BY <2>7, HotNext
            <3>2. CASE Slot = 0
                <4>1. q = rcv.reg0.pkt /\ First(rcv.reg0) /\ rcv'.out = rcv.slots
                    BY <1>1, <1>3, <1>4, <1>9, <3>2
                <4> QED BY <1>9, <3>1, <4>1 DEF Inside, Register
            <3>3. CASE Slot # 0
                <4>1. q = rcv.slots[0].pkt /\ First(rcv.slots[0]) /\ u \in 1..5 /\ u \in 0..7 /\ rcv'.out = rcv.out
                    BY <1>1, <1>3, <1>4, <1>9, <2>2, <3>3
                <4>2. Begun(u, q)
                    BY <1>9, <2>2, <4>1 DEF Inside, Filling
                <4>3. Hot
                    BY <3>1, <3>3 DEF Whole
                <4> QED BY <4>1, <4>2, <4>3 DEF Begun
            <3> QED BY <3>2, <3>3
        <2> QED BY <2>6, <2>7 DEF Begun
    <1>10. s = 6 => Broken(6)'
        <2> SUFFICES ASSUME s = 6 PROVE Broken(6)'
            OBVIOUS
        <2>1. Slot = 5 /\ ~w.k /\ First(rcv.slots[0])
            BY <1>4, <1>5
        <2>2. Assembling(5)
            BY <2>1 DEF Inside, Filling
        <2>3. CASE TxReset
            <3>1. cut' = 0
                BY <2>3 DEF TxReset
            <3> QED BY <3>1 DEF Broken
        <2>4. CASE InPace(5)
            <3>1. tx.word.k
                BY <2>4, Pace
            <3>2. cut' = 0
                BY <2>1, <3>1 DEF FromLine
            <3> QED BY <3>2 DEF Broken
        <2>5. CASE Encode /\ \E k \in 0..5 : Rebooted(k) /\ (Sound(rcv.reg0.pkt) => k = 0)
            <3>1. PICK k \in 0..5 : Rebooted(k) /\ (Sound(rcv.reg0.pkt) => k = 0)
                BY <2>5
            <3>2. k \in 0..14 /\ k + 1 \in 0..6
                OBVIOUS
            <3>3. Rebooted(k + 1)'
                BY <2>5, <3>1, <3>2, CutMoves, RebootedStep DEF Sender
            <3>4. rcv'.slots[5].i = 5 /\ Sound(rcv'.slots[5].pkt) => k + 1 <= 1
                BY <1>1, <1>2, <2>1, <3>1
            <3> QED BY <3>2, <3>3, <3>4 DEF Broken, Sound
        <2> QED BY <2>2, <2>3, <2>4, <2>5, TwoSteps DEF Assembling
    <1>11. s = 7 => Broken(7)'
        <2> SUFFICES ASSUME s = 7 PROVE Broken(7)'
            OBVIOUS
        <2>1. Slot = 6 /\ First(rcv.slots[0])
            BY <1>4, <1>5
        <2>2. Broken(6)
            BY <2>1 DEF Inside, Filling
        <2>3. rcv'.slots[5] = rcv.slots[5]
            BY <1>1, <1>2, <2>1
        <2>4. CASE TxReset
            <3>1. cut' = 0
                BY <2>4 DEF TxReset
            <3> QED BY <3>1 DEF Broken
        <2>5. CASE cut <= 0
            <3>1. cut' <= 1
                BY <2>5, CutMoves DEF Sender
            <3> QED BY <3>1 DEF Broken
        <2>6. CASE Encode /\ \E k \in 0..6 : Rebooted(k) /\ (rcv.slots[5].i = 5 /\ Sound(rcv.slots[5].pkt) => k <= 1)
            <3>1. PICK k \in 0..6 : Rebooted(k) /\ (rcv.slots[5].i = 5 /\ Sound(rcv.slots[5].pkt) => k <= 1)
                BY <2>6
            <3>2. k \in 0..14 /\ k + 1 \in 0..7
                OBVIOUS
            <3>3. Rebooted(k + 1)'
                BY <2>6, <3>1, <3>2, CutMoves, RebootedStep DEF Sender
            <3>4. rcv'.slots[5].i = 5 /\ Sound(rcv'.slots[5].pkt) => k + 1 <= 2
                BY <2>3, <3>1
            <3> QED BY <3>2, <3>3, <3>4 DEF Broken, Sound
        <2>7. cut <= 0 \/ \E k \in 0..6 : Rebooted(k) /\ (rcv.slots[5].i = 5 /\ Sound(rcv.slots[5].pkt) => k <= 1)
            BY <2>2 DEF Broken
        <2>8. Encode \/ TxReset
            BY TwoSteps
        <2> QED BY <2>4, <2>5, <2>6, <2>7, <2>8
    <1> QED BY <1>6, <1>8, <1>9, <1>10, <1>11

\* A frame is complete with the comma of the next, and in flight for seven clocks.
LEMMA WholeStep ==
    ASSUME TxInv, RxTyped, Sender, Flights, Inside, LinkNext, Whole',
           NEW w \in LinkWord, FromLine(w), rcv' = ReceiverClk(rcv, w, gt.lane)
    PROVE  Tracked(3, 0, rcv.slots)'
    <1> DEFINE z == rcv'.slots
    <1>1. /\ Slot \in 0..7 /\ (w.k \/ Slot = 7)
          /\ \A j \in Slots : j # Slot => z[j] = rcv.slots[j]
          /\ \A j \in Slots : (j = Slot /\ Sound(z[j].pkt)) =>
                  /\ z[j].pkt = rcv.reg0.pkt
                  /\ z[j].i # -1 => z[j] = rcv.reg0
          /\ rcv'.present <=> Slot = 0
          /\ Good(1)' <=> rcv.present /\ Intact(rcv.out)
          /\ Good(2)' <=> Good(1)
          /\ Good(3)' <=> Good(2)
          /\ rcv'.valid => Good(3)
        <2>1. Slot \in 0..7 /\ Slot' = IF w.k \/ Slot = 7 THEN 0 ELSE Slot + 1
            BY RxMoves
        <2>2. w.k \/ Slot = 7
            BY <2>1 DEF Whole
        <2> QED BY <2>1, <2>2, RxMoves, RxFills
    <1>2. 0 \in Slots /\ 1 \in Slots /\ 5 \in Slots
        BY DEF Slots
    <1>3. /\ First(z[0]) /\ Sound(z[0].pkt) /\ z[0].i # -1 /\ z[0].pkt = z[1].pkt
          /\ z[5].i = 5 /\ z[5].pkt = z[1].pkt /\ Sound(z[5].pkt)
        BY IntactIs DEF Whole, First
    <1>4. (Slot = 0 => First(rcv.reg0)) /\ (Slot # 0 => First(rcv.slots[0]) /\ z[0] = rcv.slots[0])
        BY <1>1, <1>2, <1>3
    <1>5. cut' \in Nat /\ cut' <= cut + 1 /\ cut \in Nat
        BY CutMoves DEF Sender
    <1>6. ASSUME w.k, ~tx.word.k PROVE cut' <= 3
        <2>1. cut' = 0
            BY <1>6 DEF FromLine
        <2> QED BY <2>1
    <1>7. CASE TxReset
        <2>1. cut' = 0
            BY <1>7 DEF TxReset
        <2> QED BY <2>1 DEF Tracked
    <1>8. ASSUME Slot \in 0..4 PROVE cut' <= 3
        <2> DEFINE u == Slot
        <2>1. u \in 0..4 /\ w.k /\ 0..u \subseteq 0..u + 1
            BY <1>1, <1>8
        <2>2. InPace(u) \/ \E k \in 0..u : Rebooted(k)
            <3>1. CASE Slot = 0
                <4>1. 0 \in 0..u
                    BY <3>1
                <4> QED BY <1>4, <3>1, <4>1 DEF Inside, Register
            <3>2. CASE Slot # 0
                <4>1. u \in 1..5 /\ u \in 0..7
                    BY <1>8, <3>2
                <4>2. Assembling(u)
                    BY <1>4, <3>2, <4>1 DEF Inside, Filling
                <4> QED BY <4>2 DEF Assembling
            <3> QED BY <3>1, <3>2
        <2> HIDE DEF u
        <2>3. ~tx.word.k
            BY <2>1, <2>2, Midframe
        <2> QED BY <1>6, <2>1, <2>3
    <1>9. ASSUME Slot = 5, \E k \in 0..5 : Rebooted(k) /\ (Sound(rcv.reg0.pkt) => k = 0) PROVE cut' <= 3
        <2>1. PICK k \in 0..5 : Rebooted(k) /\ (Sound(rcv.reg0.pkt) => k = 0)
            BY <1>9
        <2>2. Sound(rcv.reg0.pkt)
            BY <1>1, <1>2, <1>3, <1>9
        <2>3. cut <= 0
            BY <2>1, <2>2 DEF Rebooted
        <2> QED BY <1>5, <2>3
    <1>10. ASSUME Slot = 5, InPace(5), Encode PROVE \A p : p = z[1].pkt => Ours(0, p)'
        <2>1. rcv.check[1] = "none" /\ rcv.check[2] = "none" /\ rcv.check[3] = "none" /\ ~rcv.present
            BY <1>10 DEF Inside, Drained
        <2>2. ~Good(1) /\ ~Good(2) /\ ~Good(3)
            BY <2>1 DEF Good
        <2>3. Slot' = 0 /\ ~rcv'.valid /\ ~rcv'.present /\ ~Good(1)' /\ ~Good(2)' /\ ~Good(3)'
            BY <1>1, <1>10, <2>1, <2>2 DEF Whole
        <2>4. InPace(0)'
            BY <1>10, PaceStep
        <2>5. ASSUME NEW p, p = z[1].pkt, p # Null PROVE Aloft(7, p)'
            <3>1. First(rcv.slots[0]) /\ p = rcv.slots[0].pkt
                BY <1>3, <1>4, <1>10, <2>5
            <3>2. Begun(5, p)
                BY <1>10, <2>5, <3>1 DEF Inside, Filling
            <3>3. Newest(6, p) /\ (Delivers => p # Event(rcv))
                BY <3>2 DEF Begun, Delivers, Event
            <3>4. PICK b \in BOOLEAN : flight' = FlightNext(b)
                BY AnyFlight
            <3> QED BY <3>3, <3>4, NewestStep DEF TxInv
        <2> HIDE DEF z
        <2>6. ASSUME NEW j \in 1..3 PROVE ~Good(j)'
            BY <2>3
        <2> QED BY <2>3, <2>4, <2>5, <2>6 DEF Ours
    <1>11. CASE Encode /\ Slot = 5
        <2>1. Assembling(5)
            BY <1>4, <1>11 DEF Inside, Filling
        <2>2. InPace(5) => Tracked(3, 0, rcv.slots)'
            BY <1>10, <1>11 DEF Tracked
        <2>3. ~InPace(5) => cut' <= 3
            BY <1>9, <1>11, <2>1 DEF Assembling
        <2> QED BY <2>2, <2>3 DEF Tracked
    <1>12. ASSUME Slot \in 6..7 PROVE cut' <= 3
        <2>1. First(rcv.slots[0]) /\ z[5] = rcv.slots[5]
            BY <1>1, <1>2, <1>4, <1>12
        <2>2. Broken(Slot)
            BY <1>12, <2>1 DEF Inside, Filling
        <2>3. CASE cut <= Slot - 6
            BY <1>5, <1>12, <2>3
        <2>4. CASE \E k \in 0..Slot : /\ Rebooted(k)
                                      /\ rcv.slots[5].i = 5 /\ Sound(rcv.slots[5].pkt) => k <= Slot - 5
            <3>1. PICK k \in 0..Slot : /\ Rebooted(k)
                                       /\ rcv.slots[5].i = 5 /\ Sound(rcv.slots[5].pkt) => k <= Slot - 5
                BY <2>4
            <3>2. k <= 2 /\ cut <= k
                BY <1>3, <1>12, <2>1, <3>1 DEF Rebooted
            <3> QED BY <1>5, <3>2
        <2> QED BY <2>2, <2>3, <2>4 DEF Broken
    <1>13. Slot \in 0..4 \/ Slot = 5 \/ Slot \in 6..7
        BY <1>1
    <1>14. cut' <= 3 => Tracked(3, 0, rcv.slots)'
        BY DEF Tracked
    <1> QED BY <1>7, <1>8, <1>11, <1>12, <1>13, <1>14, TwoSteps

\* A frame that is being checked stays in flight.
LEMMA AloftOurs ==
    ASSUME TxInv, Flights, LinkNext, NEW s \in 0..4, NEW p, Ours(s, p), p # Null
    PROVE  Aloft(s + 8, p)'
    <1>1. PICK b \in BOOLEAN : flight' = FlightNext(b)
        BY AnyFlight
    <1> DEFINE a == s + 7
    <1>2. a \in 1..11 /\ a + 1 = s + 8 /\ Aloft(a, p) /\ ~Delivers
        BY DEF Ours, Delivers
    <1> HIDE DEF a
    <1>3. Aloft(a + 1, p)'
        BY <1>1, <1>2, AloftStep DEF TxInv
    <1> QED BY <1>2, <1>3

LEMMA OursStep ==
    ASSUME TxInv, RxTyped, Sender, Flights, LinkNext,
           NEW w \in LinkWord, FromLine(w), rcv' = ReceiverClk(rcv, w, gt.lane),
           NEW s \in 0..3, NEW p, Ours(s, p)
    PROVE  cut' = 0 \/ Ours(s + 1, p)'
    <1>1. /\ Slot = s /\ ~rcv.valid /\ (s = 0 => ~rcv.present) /\ (\A j \in 1..3 : j >= s => ~Good(j))
          /\ InPace(s) \/ \E k \in 0..s + 1 : Rebooted(k)
        BY DEF Ours
    <1>2. ~tx.word.k
        BY <1>1, Midframe
    <1>3. cut' = 0 \/ ~w.k
        BY <1>2 DEF FromLine
    <1>4. /\ Slot' = IF w.k \/ Slot = 7 THEN 0 ELSE Slot + 1
          /\ Good(1)' <=> rcv.present /\ Intact(rcv.out)
          /\ Good(2)' <=> Good(1)
          /\ Good(3)' <=> Good(2)
          /\ rcv'.valid => Good(3)
        BY RxMoves
    <1>5. ~w.k => Slot' = s + 1
        BY <1>1, <1>4
    <1>6. ASSUME NEW j \in 1..3, j >= s + 1 PROVE ~Good(j)'
        <2>1. CASE j = 1
            BY <1>1, <1>4, <1>6, <2>1
        <2>2. CASE j = 2
            BY <1>1, <1>4, <1>6, <2>2
        <2>3. CASE j = 3
            BY <1>1, <1>4, <1>6, <2>3
        <2> QED BY <2>1, <2>2, <2>3
    <1>7. ~rcv'.valid
        BY <1>1, <1>4
    <1>8. CASE TxReset
        BY <1>8 DEF TxReset
    <1>9. CASE Encode
        <2>1. InPace(s + 1)' \/ \E k \in 0..(s + 1) + 1 : Rebooted(k)'
            <3>1. CASE InPace(s)
                <4>1. s \in 0..5 /\ s + 1 = IF s = 5 THEN 0 ELSE s + 1
                    OBVIOUS
                <4> QED BY <1>9, <3>1, <4>1, PaceStep
            <3>2. CASE \E k \in 0..s + 1 : Rebooted(k)
                <4>1. PICK k \in 0..s + 1 : Rebooted(k)
                    BY <3>2
                <4>2. k \in 0..14 /\ k + 1 \in 0..(s + 1) + 1
                    OBVIOUS
                <4>3. Rebooted(k + 1)'
                    BY <1>9, <4>1, <4>2, CutMoves, RebootedStep DEF Sender
                <4> QED BY <4>2, <4>3
            <3> QED BY <1>1, <3>1, <3>2
        <2>2. p # Null => Aloft((s + 1) + 7, p)'
            <3>1. s \in 0..4 /\ s + 8 = (s + 1) + 7
                OBVIOUS
            <3> QED BY <3>1, AloftOurs
        <2>3. s + 1 # 0
            OBVIOUS
        <2> QED BY <1>3, <1>5, <1>6, <1>7, <2>1, <2>2, <2>3 DEF Ours
    <1> QED BY <1>8, <1>9, TwoSteps

LEMMA TrackedStep ==
    ASSUME TxInv, RxTyped, Sender, Flights, LinkNext,
           NEW w \in LinkWord, FromLine(w), rcv' = ReceiverClk(rcv, w, gt.lane),
           NEW s \in 0..3, NEW c \in 0..20, NEW p, cut <= c \/ Ours(s, p)
    PROVE  cut' <= c + 1 \/ Ours(s + 1, p)'
    <1>1. cut' \in Nat /\ cut' <= cut + 1 /\ cut \in Nat
        BY CutMoves DEF Sender
    <1>2. CASE cut <= c
        BY <1>1, <1>2
    <1>3. CASE Ours(s, p)
        <2>1. cut' = 0 \/ Ours(s + 1, p)'
            BY <1>3, OursStep
        <2> QED BY <2>1
    <1> QED BY <1>2, <1>3

LEMMA CheckingStep ==
    ASSUME TxInv, RxTyped, Sender, Flights, Inside, LinkNext,
           NEW w \in LinkWord, FromLine(w), rcv' = ReceiverClk(rcv, w, gt.lane)
    PROVE  Checking'
    <1>1. /\ rcv'.out = IF Slot = 0 THEN rcv.slots ELSE rcv.out
          /\ rcv'.present <=> Slot = 0
          /\ Good(1)' <=> rcv.present /\ Intact(rcv.out)
          /\ Good(2)' <=> Good(1)
          /\ Good(3)' <=> Good(2)
          /\ rcv'.valid => Good(3)
        BY RxMoves
    <1>2. Whole' => Tracked(3, 0, rcv.slots)'
        BY WholeStep
    <1>3. rcv'.present /\ Intact(rcv'.out) => Tracked(4, 1, rcv.out)'
        <2> SUFFICES ASSUME Slot = 0, Intact(rcv.slots), rcv'.out = rcv.slots PROVE Tracked(4, 1, rcv.out)'
            BY <1>1
        <2>1. Tracked(3, 0, rcv.slots)
            BY DEF Inside, Checking, Whole
        <2>2. ASSUME NEW p, p = rcv'.out[1].pkt PROVE cut' <= 4 \/ Ours(1, p)'
            <3>1. cut <= 3 \/ Ours(0, p)
                BY <2>1, <2>2 DEF Tracked
            <3> QED BY <3>1, TrackedStep
        <2> QED BY <2>2 DEF Tracked
    <1>4. ASSUME NEW s \in 1..3, Tracked(3 + s, s, rcv.out) PROVE Tracked(4 + s, 1 + s, rcv.out)'
        <2>1. ASSUME NEW p, p = rcv'.out[1].pkt PROVE cut' <= 4 + s \/ Ours(1 + s, p)'
            <3>1. s \in 0..3 /\ 3 + s \in 0..20 /\ (3 + s) + 1 = 4 + s /\ s + 1 = 1 + s
                OBVIOUS
            <3>2. cut <= 3 + s \/ Ours(s, p)
                <4>1. cut <= 3 + s \/ Ours(s, rcv.out[1].pkt)
                    BY <1>4 DEF Tracked
                <4>2. Ours(s, rcv.out[1].pkt) => Slot = s
                    BY DEF Ours
                <4>3. Slot = s => p = rcv.out[1].pkt
                    BY <1>1, <2>1
                <4> QED BY <4>1, <4>2, <4>3
            <3>3. cut' <= (3 + s) + 1 \/ Ours(s + 1, p)'
                BY <3>1, <3>2, TrackedStep
            <3> QED BY <3>1, <3>3
        <2> QED BY <2>1 DEF Tracked
    <1>5. ASSUME NEW j \in 1..3, Good(j)' PROVE Tracked(4 + j, 1 + j, rcv.out)'
        <2>1. Tracked(3 + j, j, rcv.out)
            <3>1. CASE j = 1
                BY <1>1, <1>5, <3>1 DEF Inside, Checking
            <3>2. CASE j \in {2, 3}
                <4> DEFINE i == j - 1
                <4>1. i \in 1..3 /\ Good(i) /\ 4 + i = 3 + j /\ 1 + i = j
                    BY <1>1, <1>5, <3>2
                <4> HIDE DEF i
                <4>2. Tracked(4 + i, 1 + i, rcv.out)
                    BY <4>1 DEF Inside, Checking
                <4> QED BY <4>1, <4>2
            <3> QED BY <3>1, <3>2
        <2> QED BY <1>4, <2>1
    <1>6. ASSUME rcv'.valid PROVE cut' <= 8 \/ \A p : p = rcv'.out[1].pkt /\ p # Null => Aloft(12, p)'
        <2>1. Tracked(7, 4, rcv.out)
            BY <1>1, <1>6 DEF Inside, Checking
        <2>2. CASE cut <= 7
            <3>1. cut' \in Nat /\ cut' <= cut + 1 /\ cut \in Nat
                BY CutMoves DEF Sender
            <3> QED BY <2>2, <3>1
        <2>3. ASSUME \A p : p = rcv.out[1].pkt => Ours(4, p), NEW p, p = rcv'.out[1].pkt, p # Null
              PROVE  Aloft(12, p)'
            <3>1. Slot = 4
                BY <2>3 DEF Ours
            <3>2. p = rcv.out[1].pkt
                BY <1>1, <2>3, <3>1
            <3>3. Aloft(4 + 8, p)'
                BY <2>3, <3>2, AloftOurs
            <3> QED BY <3>3
        <2> QED BY <2>1, <2>2, <2>3 DEF Tracked
    <1> QED BY <1>2, <1>3, <1>5, <1>6 DEF Checking

\* A receiver that was reset holds nothing.
Blank == rcv = ReceiverReset
LEMMA BlankInside == Blank => Inside
    <1> SUFFICES ASSUME Blank PROVE Inside
        OBVIOUS
    <1>1. /\ rcv.reg0 = ZeroWord /\ rcv.slots[0] = ZeroWord /\ rcv.slots[1] = ZeroWord
          /\ ~rcv.present /\ rcv.check[1] = "none" /\ rcv.check[2] = "none" /\ rcv.check[3] = "none"
        BY ResetReceiver DEF Blank, Slots
    <1>2. ~rcv.valid
        BY DEF Blank, ReceiverReset
    <1>3. ~Sound(ZeroWord.pkt) /\ ~First(ZeroWord)
        BY RxWords DEF Dud, First
    <1>4. ~Whole
        BY <1>1, <1>3, IntactIs DEF Whole
    <1>5. \A j \in 1..3 : ~Good(j)
        BY <1>1 DEF Good
    <1>6. Drained
        BY <1>1, <1>2 DEF Drained
    <1>7. Register
        BY <1>1, <1>3 DEF Register
    <1>8. Filling
        BY <1>1, <1>3 DEF Filling
    <1>9. Stale
        BY <1>1, <1>5 DEF Stale
    <1>10. Checking
        BY <1>1, <1>2, <1>4, <1>5 DEF Checking
    <1> QED BY <1>6, <1>7, <1>8, <1>9, <1>10 DEF Inside

LEMMA InsideStep ==
    ASSUME TxInv, RxInv, Flights, Sender, Inside, [LinkNext]_link_vars
    PROVE  Sender' /\ Inside'
    <1>1. RxTyped
        BY DEF RxInv
    <1>2. CASE UNCHANGED link_vars
        <2>1. tx' = tx /\ rcv' = rcv /\ cut' = cut /\ count' = count /\ todo' = todo /\ flight' = flight
            BY <1>2 DEF link_vars
        <2>2. /\ Phase' = Phase /\ Place' = Place /\ Slot' = Slot /\ (\A j : Good(j)' <=> Good(j))
              /\ Hot' = Hot /\ Whole' = Whole
            BY <2>1 DEF Phase, Place, Slot, Good, Hot, Whole
        <2>3. \A q : Past(q)' <=> Past(q)
            BY <2>1 DEF Past
        <2>4. \A k : Rebooted(k)' <=> Rebooted(k)
            BY <2>1 DEF Rebooted
        <2>5. \A q, n : Spent(q, n)' <=> Spent(q, n)
            BY <2>3, <2>4 DEF Spent
        <2>6. Sender'
            BY <2>1, <2>2, <2>3 DEF Sender, Numbered, Waking, Wired, Past
        <2>7. \A s : InPace(s)' <=> InPace(s)
            BY <2>1, <2>2 DEF InPace
        <2>8. \A s, p : (Newest(s, p)' <=> Newest(s, p)) /\ (Aloft(s, p)' <=> Aloft(s, p))
            BY <2>1 DEF Newest, Aloft
        <2>9. Drained' /\ Stale'
            BY <2>1, <2>2, <2>5 DEF Inside, Drained, Stale, Dated
        <2>10. \A s, q : Begun(s, q)' <=> Begun(s, q)
            BY <2>1, <2>2, <2>8 DEF Begun
        <2>11. \A s : (Assembling(s)' <=> Assembling(s)) /\ (Broken(s)' <=> Broken(s))
            BY <2>1, <2>4, <2>7 DEF Assembling, Broken
        <2>12. \A s, p : Ours(s, p)' <=> Ours(s, p)
            BY <2>1, <2>2, <2>4, <2>7, <2>8 DEF Ours
        <2>13. Register'
            BY <2>1, <2>2, <2>4, <2>5, <2>7, <2>8 DEF Inside, Register, Dated
        <2>14. Filling'
            BY <2>1, <2>2, <2>5, <2>10, <2>11 DEF Inside, Filling, Dated
        <2>15. Checking'
            BY <2>1, <2>2, <2>8, <2>12 DEF Inside, Checking, Tracked
        <2> QED BY <2>6, <2>9, <2>13, <2>14, <2>15 DEF Inside
    <1>3. CASE LinkNext
        <2>1. Sender'
            BY <1>3, SenderStep
        <2>2. PICK w \in LinkWord : Receive(w) /\ FromLine(w)
            BY <1>1, <1>3, Hearing
        <2>3. CASE rcv' = ReceiverReset
            <3>1. Blank'
                BY <2>3 DEF Blank
            <3>2. Inside'
                BY <3>1, BlankInside, PTL
            <3> QED BY <2>1, <3>2
        <2>4. CASE rcv' = ReceiverClk(rcv, w, gt.lane)
            <3>1. Drained' /\ Register' /\ Filling' /\ Stale' /\ Checking'
                BY <1>1, <1>3, <2>2, <2>4, DrainedStep, RegisterStep, FillingStep, StaleStep, CheckingStep DEF Inside
            <3> QED BY <2>1, <3>1 DEF Inside
        <2> QED BY <2>2, <2>3, <2>4 DEF Receive
    <1> QED BY <1>2, <1>3

LEMMA InsideInit ==
    ASSUME LinkInit
    PROVE  Sender /\ Inside
    <1>1. Restarted
        <2> DEFINE zero == [c \in Codes |-> 0]
        <2>1. zero \in [Codes -> Nat] /\ tx = EncoderReset(zero) /\ todo = <<>> /\ cut = 9
            BY DEF LinkInit, CutFor
        <2> HIDE DEF zero
        <2> QED BY <2>1 DEF Restarted
    <1>2. Blank
        BY DEF LinkInit, Blank
    <1> QED BY <1>1, <1>2, SenderReset, BlankInside

\* What each register of the link holds of the packets sent: the receiver completes a frame seven clocks
\* after its first word, checks it while it is still in flight, and delivers nothing else, unless the
\* comma that ends a frame was lost, forged or cut off by a reset (aclk_rcv_gearbox.v, aclk_rcv.v).
THEOREM PacketInvariance == LinkSpec => [](Sender /\ Inside)
    <1>1. LinkInit => Sender /\ Inside
        BY InsideInit
    <1>2. TxInv /\ RxInv /\ (Flights /\ Strobes) /\ (Sender /\ Inside) /\ [LinkNext]_link_vars => (Sender /\ Inside)'
        BY InsideStep
    <1> QED BY <1>1, <1>2, LinkInvariance, LockInvariance, FlightInvariance, PTL DEF LinkSpec

\* What reaches the readout is the packet of an event frame in flight, no frame that met no fault being
\* left behind, but for the nine clocks after a comma was lost or forged or the transmitter was reset.
THEOREM OnlyWhatWasSent == LinkSpec => []DeliveredAsSent
    <1>1. Flights /\ Sender /\ Inside => DeliveredAsSent
        <2> SUFFICES ASSUME Flights, Sender, Inside, Delivers, ~(cut < CutFor)
                     PROVE  \E i \in DOMAIN flight : /\ flight[i].pkt = Event(rcv)
                                                     /\ \A j \in 1..i-1 : ~flight[j].safe
            BY DEF DeliveredAsSent
        <2> DEFINE p == rcv.out[1].pkt
        <2>1. rcv.valid /\ p # Null /\ Event(rcv) = p
            BY DEF Delivers, Event
        <2>2. Aloft(12, p)
            BY <2>1 DEF Sender, Inside, Checking, CutFor
        <2> HIDE DEF p
        <2>3. PICK i \in 1..Len(flight) : flight[i].pkt = p /\ flight[i].age = 12
            BY <2>2 DEF Aloft
        <2>4. /\ flight \in Seq(Frame) /\ Len(flight) \in Nat
              /\ \A k \in 1..Len(flight) : flight[k].age \in Nat /\ flight[k].age <= 12
              /\ \A j, k \in 1..Len(flight) : j < k => flight[j].age > flight[k].age
            BY Aboard DEF ArrivesIn
        <2>5. ASSUME NEW j \in 1..i - 1 PROVE FALSE
            <3>1. j \in 1..Len(flight) /\ j < i
                BY <2>4
            <3> QED BY <2>3, <2>4, <3>1
        <2>6. i \in DOMAIN flight
            BY <2>4
        <2> QED BY <2>1, <2>3, <2>5, <2>6
    <1> QED BY <1>1, FlightInvariance, PacketInvariance, PTL
=============================================================================
