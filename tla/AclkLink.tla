------------------------------ MODULE AclkLink ------------------------------
(***************************************************************************)
(* The TCLK events of one side as ACLK events of the other: the encoder,   *)
(* the fibre, the receiver and the recovery FSM, in the clock of the link. *)
(* TCLK events come at any clock, MinGap apart at least; the fibre damages *)
(* a word, forges a comma, or slips (the GT loses its alignment and finds  *)
(* it at the next comma once the FSM lets it); the transmitter is reset.   *)
(***************************************************************************)
EXTENDS AclkReceiver

CONSTANTS MinGap,     \* clocks between two TCLK events (75 on the board)
          MaxStrobes, MaxFaults

ASSUME LinkAssumption == MinGap \in Nat /\ MinGap >= 6 /\ MaxStrobes \in Nat /\ MaxFaults \in Nat

VARIABLES tx, rcv, rec,              \* the registers of the three blocks
          gt,      \* the receiver of the GT: byte alignment and lane
          gap,     \* clocks since the last TCLK event
          calm,    \* clocks since the last fault
          cut,     \* clocks since a comma was lost or forged
          count,   \* events of each code since the encoder was reset
          todo,    \* events the encoder owes a frame, with their age
          flight,  \* event frames sent and not yet received, with their age
          strobes, faults
link_vars == <<tx, rcv, rec, gt, gap, calm, cut, count, todo, flight, strobes, faults>>

SendsIn == 17                        \* from an event to the first word of its frame
ArrivesIn == 12                      \* from that word to the strobe of the receiver
CutFor == 9                          \* from a lost or forged comma to the last strobe it can spoil
Relock == LossWindow + RecoverLen + 11 * 6
UpTo(n, m) == IF n < m THEN n + 1 ELSE m
Aged(q, m) == [i \in DOMAIN q |-> [q[i] EXCEPT !.age = UpTo(@, m + 1)]]

LinkInit ==
    /\ tx = EncoderReset([c \in Codes |-> 0]) /\ rcv = ReceiverReset /\ rec = RecoveryReset
    /\ gt = [ok |-> FALSE, lane |-> 0]
    /\ gap = 0 /\ calm = 0 /\ cut = CutFor
    /\ count = [c \in Codes |-> 0] /\ todo = <<>> /\ flight = <<>>
    /\ strobes = 0 /\ faults = 0

(***************************** the ledger **********************************)
\* The first word of an event's frame leaves; an event reaches the readout.
Starts == tx.word.k /\ tx.word.pkt # Null
Delivers == rcv.valid /\ Event(rcv) # Null

TodoNext == Aged(IF Starts /\ todo # <<>> THEN Tail(todo) ELSE todo, SendsIn)
\* A frame that met a fault is forgotten when its time has passed: the oldest, since they are six clocks apart.
Weeded(q) == IF q # <<>> /\ ~Head(q).safe /\ Head(q).age > ArrivesIn THEN Tail(q) ELSE q
FlightNext(safe) ==
    LET got == {i \in DOMAIN flight : flight[i].pkt = Event(rcv)}
        rest == IF Delivers /\ got # {} THEN SubSeq(flight, Min(got) + 1, Len(flight)) ELSE flight
        sent == IF Starts THEN Append(rest, [pkt |-> tx.word.pkt, age |-> 0, safe |-> calm = Relock]) ELSE rest
        mark == [i \in DOMAIN sent |-> [sent[i] EXCEPT !.safe = @ /\ safe]]
    IN  Weeded(Aged(mark, ArrivesIn))

(***************************** the link ************************************)
\* The receiver's side of a clock in which the GT delivers w.  A recovery holds the decoder in reset.
Receive(w) ==
    /\ rec' = RecoveryClk(rec, rcv.aligned, gt.ok)
    /\ rcv' = IF "recover" \in {rec.st, rec'.st} THEN ReceiverReset ELSE ReceiverClk(rcv, w, gt.lane)

\* A comma the transmitter sent and the receiver did not get, or the reverse.
Cut(w) == IF w.k # tx.word.k THEN 0 ELSE UpTo(cut, CutFor)

\* A GT out of alignment delivers garbage, until the FSM lets it align on a comma.
Delivered == IF gt.ok THEN tx.word ELSE Garbage
Align == IF ~gt.ok /\ AlignEn(rec) /\ tx.word.k THEN gt' \in [ok : {TRUE}, lane : {0, 1}] ELSE UNCHANGED gt

\* An event has crossed after two clocks, and is passed over while the encoder sweeps.
Heeds(e) == ~Sweeping(e) \/ (e.st = "sweep" /\ e.zero + 1 >= LastCode)

\* The encoder's side, with or without a TCLK event in this clock.
Encode ==
    \/ /\ tx' = ClkTx(tx) /\ todo' = TodoNext /\ gap' = UpTo(gap, MinGap)
       /\ UNCHANGED <<count, strobes>>
    \/ /\ gap = MinGap /\ strobes < MaxStrobes
       /\ \E c \in Codes :
            /\ tx' = Strobe(ClkTx(tx), c)
            /\ IF Heeds(tx')
               THEN /\ count' = [count EXCEPT ![c] = @ + 1]
                    /\ todo' = Append(TodoNext, [pkt |-> [code |-> c, n |-> count'[c]], age |-> 0])
               ELSE todo' = TodoNext /\ UNCHANGED count
       /\ gap' = 0 /\ strobes' = strobes + 1

Clock ==
    /\ Encode /\ Receive(Delivered) /\ Align
    /\ flight' = FlightNext(TRUE)
    /\ calm' = UpTo(calm, Relock) /\ cut' = Cut(Delivered)
    /\ UNCHANGED faults

Fault ==
    /\ faults < MaxFaults /\ faults' = faults + 1
    /\ calm' = 0
    /\ flight' = FlightNext(FALSE)

\* A word is damaged on the fibre (a damaged comma is none), or damaged into a comma.
Damage ==
    /\ Fault /\ gt.ok
    /\ Encode /\ Receive(Garbage) /\ cut' = Cut(Garbage) /\ UNCHANGED gt
Forge ==
    /\ Fault /\ gt.ok /\ ~tx.word.k
    /\ Encode /\ Receive([tx.word EXCEPT !.k = TRUE]) /\ cut' = 0 /\ UNCHANGED gt
Slip ==
    /\ Fault /\ gt.ok /\ Encode /\ Receive(Delivered) /\ cut' = Cut(Delivered)
    /\ gt' = [gt EXCEPT !.ok = FALSE]

\* The transmitter's reset (tx_active fell): the events of the encoder are lost, and so are those
\* that come before the counts are swept.
TxReset ==
    /\ Fault /\ tx' = EncoderReset(tx.ram) /\ Receive(Delivered) /\ Align /\ cut' = 0
    /\ todo' = <<>> /\ count' = [c \in Codes |-> 0] /\ gap' = UpTo(gap, MinGap)
    /\ UNCHANGED strobes

LinkNext == Clock \/ Damage \/ Forge \/ Slip \/ TxReset
LinkSpec == LinkInit /\ [][LinkNext]_link_vars

(**************************** properties ***********************************)
\* Each TCLK event leaves the encoder in one frame, in order, with its code's count since the
\* reset: none is replaced while the toggle, the FSM or the gearbox holds it, none is sent twice.
SentAsCounted == Starts => todo # <<>> /\ Head(todo).pkt = tx.word.pkt

\* What reaches the readout is an event frame of the transmitter, in order, once, and no frame
\* that met no fault was left behind.  A comma lost or forged spoils the strobes of CutFor clocks.
DeliveredAsSent ==
    Delivers => \/ cut < CutFor
                \/ \E i \in DOMAIN flight : /\ flight[i].pkt = Event(rcv)
                                            /\ \A j \in 1..i-1 : ~flight[j].safe

\* An event waits for at most the frame being sent; a frame that met no fault arrives.
SentAndDeliveredInTime ==
    /\ \A i \in DOMAIN todo : todo[i].age <= SendsIn
    /\ \A i \in DOMAIN flight : flight[i].safe => flight[i].age <= ArrivesIn

\* From any fault, and whichever byte lane the GT comes back on, the receiver is aligned again
\* and the recovery FSM locked within Relock clocks.
RelocksInTime == calm = Relock => rcv.aligned /\ rec.st = "locked"

\* What the test bench of ACLK_RCV says of it: only good frames are ever captured.
OnlyGoodFramesDelivered == Delivers => \E i \in DOMAIN flight : flight[i].pkt = Event(rcv)
=============================================================================
