---------------------------- MODULE Drains_proofs ---------------------------
(***************************************************************************)
(* Proofs about the two loops that drain a buffer, for every depth of the  *)
(* FIFO, set of codes, list of codes to drop, page size and stream length, *)
(* and any number of events, errors and crashes. The board's loop          *)
(* (ReadoutAxi) collects every event once and whole, its ledger balances,  *)
(* and a change of the mask lets one event through at most; the archiver   *)
(* (Archive) passes over no entry, and repeats only what was not saved.    *)
(***************************************************************************)
EXTENDS MCDrains, SequenceTheorems, TLAPS

-----------------------------------------------------------------------------
(***************************************************************************)
(* The board's loop: the invariant.                                        *)
(***************************************************************************)
Stores == {"FILTER_CFG", "POP"}
Loads == {"STATUS"} \cup FieldRegs
Fields == FieldRegs \X Seq(Words)

FifoTyped ==
  /\ queue \in Seq(Words) /\ accepted \in Seq(Words)
  /\ full \in BOOLEAN /\ empty \in BOOLEAN /\ overflow \in BOOLEAN
RxTyped ==
  /\ event_count \in Nat /\ null_count \in Nat /\ filtered_count \in Nat
  /\ lost \in Nat /\ misfiltered \in Nat /\ gap \in 1 .. EventGap
BusTyped ==
  /\ arready \in BOOLEAN /\ rvalid \in BOOLEAN /\ arvalid \in BOOLEAN
  /\ awready \in BOOLEAN /\ wready \in BOOLEAN /\ bvalid \in BOOLEAN /\ pop \in BOOLEAN
  /\ awvalid \in BOOLEAN /\ wvalid \in BOOLEAN /\ aw_todo \in BOOLEAN /\ w_todo \in BOOLEAN
PsTyped ==
  /\ pc \in Stores \cup Loads /\ busy \in BOOLEAN
  /\ todo \in Seq(Codes) /\ got \in Seq(Fields) /\ collected \in Seq(Seq(Fields))
TypeOK == FifoTyped /\ RxTyped /\ BusTyped /\ PsTyped

\* The bus: nothing under way; a load asked for or answered; a store whose address and data
\* are each still to be presented, presented, or latched.
ReadIdle == arready /\ ~rvalid /\ ~arvalid
WriteIdle == awready /\ wready /\ ~bvalid /\ ~awvalid /\ ~wvalid /\ ~aw_todo /\ ~w_todo /\ ~pop
Loading ==
  /\ WriteIdle
  /\ arready <=> arvalid
  /\ rvalid <=> ~arvalid
AddressGoes ==
  \/ aw_todo /\ ~awvalid /\ awready
  \/ ~aw_todo /\ awvalid /\ awready
  \/ ~aw_todo /\ ~awvalid /\ ~awready /\ waddr = pc
DataGoes ==
  \/ w_todo /\ ~wvalid /\ wready
  \/ ~w_todo /\ wvalid /\ wready
  \/ ~w_todo /\ ~wvalid /\ ~wready /\ (pc = "FILTER_CFG" => wdata = Head(todo))
Storing ==
  /\ ReadIdle /\ AddressGoes /\ DataGoes
  /\ bvalid => ~awready /\ ~wready
  /\ pop => bvalid /\ pc = "POP"
Handshake ==
  /\ ~busy => ReadIdle /\ WriteIdle
  /\ busy /\ pc \in Loads => Loading
  /\ busy /\ pc \in Stores => Storing

\* The ledger.
Books ==
  /\ event_count = Len(accepted) + lost
  /\ overflow <=> lost > 0

\* The mask on its way to the receive clock, and the one that the next event meets at the
\* earliest. A bit that is on its way has let no event through yet.
Fired == Len(DropCodes) - Len(todo) + (IF pc = "FILTER_CFG" /\ bvalid THEN 1 ELSE 0)
Settles ==
  IF gap = EventGap THEN drop_mask_rx ELSE IF gap = EventGap - 1 THEN mask_ff1 ELSE mask_fly
Masks ==
  /\ drop_mask_rx \subseteq mask_ff1 /\ mask_ff1 \subseteq mask_fly /\ mask_fly \subseteq drop_mask
  /\ Len(todo) <= Len(DropCodes)
  /\ pc = "FILTER_CFG" <=> todo # <<>>
  /\ misfiltered <= Fired
  /\ Settles # drop_mask => misfiltered < Fired

\* Where the loop is in an event: how many of its fields it has read, each from its entry.
Reads(reg, word) ==
  LET data == IF word.code \in HasData THEN 2 ELSE 0
  IN  CASE reg = "EVENT" -> 0 [] reg = "DATA_HI" -> 1 [] reg = "DATA_LO" -> 2
        [] reg = "TS_HI" -> data + 1 [] reg = "TS_LO" -> data + 2 [] reg = "POP" -> data + 3
HasRead(word) ==
  /\ pc \in {"DATA_HI", "DATA_LO"} => word.code \in HasData
  /\ Len(got) = Reads(pc, word)
  /\ \A i \in 1 .. Len(got) : got[i] = <<FieldsOf(word)[i], <<word>>>>

\* The FIFO's entry is gone, and the processor does not know it yet.
Popped == pc = "POP" /\ bvalid /\ ~pop
Done == Len(accepted) - Len(queue)
Collects ==
  /\ ~empty => queue # <<>>
  /\ Len(queue) <= Len(accepted)
  /\ \A i \in 1 .. Len(queue) : queue[i] = accepted[Done + i]
  /\ Len(collected) = IF Popped THEN Done - 1 ELSE Done
  /\ \A i \in 1 .. Len(collected) : collected[i] = ReadoutOf(accepted[i])
  /\ pc \in {"FILTER_CFG", "STATUS"} => got = <<>>
  /\ pc \in FieldRegs \cup {"POP"} /\ ~Popped => ~empty /\ HasRead(Head(queue))
  /\ Popped => Done > 0 /\ HasRead(accepted[Done])
  /\ rvalid /\ pc = "STATUS" => rdata.empty \in BOOLEAN /\ (rdata.empty \/ ~empty)
  /\ rvalid /\ pc \in FieldRegs => rdata.entry = <<Head(queue)>>

ReadoutInv == TypeOK /\ Handshake /\ Books /\ Masks /\ Collects

-----------------------------------------------------------------------------
(***************************************************************************)
(* The archiver: the invariant.                                            *)
(***************************************************************************)
Writing == {"roll", "header", "write"}
ArchiveTyped ==
  /\ feed \in Seq(Nat \ {0}) /\ added \in Nat
  /\ apc \in {"top", "range", "drained", "save", "sleep", "down"} \cup Writing
  /\ last_id \in Nat /\ cursor \in Nat /\ disk \in Nat /\ page \in Seq(Nat \ {0})
  /\ today \in 1..Days /\ open_day \in 0..Days
  /\ files \in [1..Days -> Seq(Nat)]

\* The stream holds the latest entries, and the page a run of them.
InStream ==
  /\ Len(feed) <= added
  /\ \A i \in 1..Len(feed) : feed[i] = added - Len(feed) + i
  /\ \A i \in 1..Len(page) : page[i] = page[1] + i - 1 /\ page[i] <= added
  /\ last_id <= added /\ cursor <= added /\ disk <= added

\* Where the drain is.
InDrain ==
  /\ apc \in Writing <=> page # <<>>
  /\ apc \in {"header", "write"} => open_day # NoDay
  /\ apc # "down" => disk <= cursor
  /\ apc \in {"range", "drained"} \cup Writing => cursor <= last_id
  /\ page # <<>> => last_id < page[1]

\* What is behind a cursor, behind the drain, or before the page is in the archive.
Passed ==
  /\ Behind(cursor) \subseteq Archived /\ Behind(disk) \subseteq Archived
  /\ Behind(last_id) \subseteq Archived
  /\ page # <<>> => Behind(page[1] - 1) \subseteq Archived

ArchiveInv == ArchiveTyped /\ InStream /\ InDrain /\ Passed

-----------------------------------------------------------------------------
(***************************************************************************)
(* Sequences.                                                              *)
(***************************************************************************)
LEMMA SeqLen ==
  ASSUME NEW S, NEW s \in Seq(S)
  PROVE  /\ Len(s) \in Nat /\ DOMAIN s = 1 .. Len(s)
         /\ \A i \in 1 .. Len(s) : s[i] \in S
         /\ s # <<>> <=> Len(s) > 0
  <1>1. Len(s) \in Nat /\ DOMAIN s = 1 .. Len(s)
    BY LenProperties
  <1>2. \A i \in 1 .. Len(s) : s[i] \in S
    BY ElementOfSeq
  <1>3. s # <<>> <=> Len(s) > 0
    BY <1>1, EmptySeq
  <1> QED BY <1>1, <1>2, <1>3

LEMMA AppendSeq ==
  ASSUME NEW S, NEW s \in Seq(S), NEW e \in S
  PROVE  /\ Append(s, e) \in Seq(S) /\ Len(Append(s, e)) = Len(s) + 1
         /\ Len(s) \in Nat /\ Append(s, e) # <<>>
         /\ \A i \in 1 .. Len(s) : Append(s, e)[i] = s[i]
         /\ Append(s, e)[Len(s) + 1] = e
         /\ s # <<>> => Head(Append(s, e)) = Head(s)
  <1>1. Len(s) \in Nat
    BY LenProperties
  <1> QED BY <1>1, AppendProperties

LEMMA TailSeq ==
  ASSUME NEW S, NEW s \in Seq(S), s # <<>>
  PROVE  /\ Tail(s) \in Seq(S) /\ Len(Tail(s)) = Len(s) - 1 /\ Len(s) \in Nat \ {0}
         /\ \A i \in 1 .. Len(s) - 1 : Tail(s)[i] = s[i + 1]
         /\ Head(s) = s[1] /\ Head(s) \in S
  <1>1. Len(s) \in Nat \ {0}
    BY EmptySeq
  <1>2. Head(s) = s[1]
    OBVIOUS
  <1> QED BY <1>1, <1>2, HeadTailProperties
-----------------------------------------------------------------------------
(***************************************************************************)
(* A clock of the receive side.                                            *)
(***************************************************************************)
LEMMA RxChanges ==
  ASSUME ReadoutInv, RxClk
  PROVE  /\ UNCHANGED <<rdChan, wrChan, ps, collected, empty, arvalid, awvalid, wvalid, aw_todo, w_todo>>
         /\ SyncMask
         /\ FifoTyped' /\ RxTyped' /\ Books'
         /\ \/ queue' = queue /\ accepted' = accepted
            \/ \E word \in Words : queue' = Append(queue, word) /\ accepted' = Append(accepted, word)
         /\ \/ gap' = (IF gap < EventGap THEN gap + 1 ELSE gap) /\ misfiltered' = misfiltered
            \/ /\ gap = EventGap /\ gap' = 1
               /\ \/ misfiltered' = misfiltered
                  \/ misfiltered' = misfiltered + 1 /\ drop_mask_rx # drop_mask
  <1> USE DEF ReadoutInv, TypeOK
  <1>1. /\ Len(accepted) \in Nat /\ lost \in Nat /\ event_count \in Nat /\ null_count \in Nat
        /\ filtered_count \in Nat /\ misfiltered \in Nat /\ MaxEvents \in Nat /\ EventGap \in Nat
        /\ gap \in 1 .. EventGap /\ EventGap >= 3
    BY SeqLen, ReadoutAssumption DEF FifoTyped, RxTyped
  <1>2. CASE RxIdle
    <2>1. queue' = queue /\ overflow' = overflow /\ full' \in BOOLEAN /\ empty' = empty
      BY <1>2 DEF RxIdle, Fifo!WriteEdge, Fifo!Flag, FifoTyped
    <2>2. /\ UNCHANGED <<event_count, null_count, filtered_count, accepted, lost, misfiltered, collected>>
          /\ UNCHANGED <<rdChan, wrChan, ps, arvalid, awvalid, wvalid, aw_todo, w_todo>>
          /\ SyncMask /\ gap' = IF gap < EventGap THEN gap + 1 ELSE gap
      BY <1>2 DEF RxIdle, bus, history
    <2>3. gap' \in 1 .. EventGap
      BY <1>1, <2>2
    <2> QED BY <2>1, <2>2, <2>3 DEF FifoTyped, RxTyped, Books
  <1>3. ASSUME NEW code \in Codes, RxEvent(code)
        PROVE  /\ UNCHANGED <<rdChan, wrChan, ps, collected, empty, arvalid, awvalid, wvalid, aw_todo, w_todo>>
               /\ SyncMask
               /\ FifoTyped' /\ RxTyped' /\ Books'
               /\ \/ queue' = queue /\ accepted' = accepted
                  \/ \E word \in Words : queue' = Append(queue, word) /\ accepted' = Append(accepted, word)
               /\ gap = EventGap /\ gap' = 1
               /\ \/ misfiltered' = misfiltered
                  \/ misfiltered' = misfiltered + 1 /\ drop_mask_rx # drop_mask
    <2> DEFINE word == [id |-> Arrived + 1, code |-> code]
               push == Pushed(code)
    <2>1. word \in Words
      BY <1>1, <1>3 DEF RxEvent, Arrived, Words
    <2>2. push \in BOOLEAN /\ (push <=> ~DropThis(code) /\ ~IsNull(code))
      BY DEF Pushed
    <2>3. /\ UNCHANGED <<rdChan, wrChan, ps, collected, empty, arvalid, awvalid, wvalid, aw_todo, w_todo>>
          /\ SyncMask /\ gap = EventGap /\ gap' = 1
          /\ event_count' = event_count + (IF push THEN 1 ELSE 0)
          /\ null_count' = null_count + (IF IsNull(code) THEN 1 ELSE 0)
          /\ filtered_count' = filtered_count + (IF DropThis(code) THEN 1 ELSE 0)
          /\ queue' = IF push /\ ~full THEN Append(queue, word) ELSE queue
          /\ accepted' = IF push /\ ~full THEN Append(accepted, word) ELSE accepted
          /\ lost' = lost + (IF push /\ full THEN 1 ELSE 0)
          /\ overflow' = (overflow \/ (push /\ full))
          /\ full' \in BOOLEAN
          /\ misfiltered' = misfiltered + (IF push /\ code \in drop_mask THEN 1 ELSE 0)
      BY <1>3 DEF RxEvent, bus, Fifo!WriteEdge, Fifo!Flag
    <2>4. push /\ code \in drop_mask => drop_mask_rx # drop_mask
      BY <2>2 DEF DropThis
    <2> HIDE DEF word, push
    <2>5. /\ queue' \in Seq(Words) /\ accepted' \in Seq(Words)
          /\ Len(accepted') = Len(accepted) + (IF push /\ ~full THEN 1 ELSE 0)
      BY <1>1, <2>1, <2>3, AppendSeq DEF FifoTyped
    <2>6. overflow' \in BOOLEAN /\ full' \in BOOLEAN /\ empty' \in BOOLEAN
      BY <2>2, <2>3 DEF FifoTyped
    <2>7. RxTyped'
      BY <1>1, <2>3 DEF RxTyped
    <2>8. Books'
      <3>1. event_count = Len(accepted) + lost /\ (overflow <=> lost > 0)
        BY DEF Books
      <3>2. CASE push /\ full
        <4>1. event_count' = event_count + 1 /\ lost' = lost + 1 /\ accepted' = accepted /\ overflow'
          BY <2>3, <3>2
        <4> QED BY <1>1, <3>1, <4>1 DEF Books
      <3>3. CASE push /\ ~full
        <4>1. /\ event_count' = event_count + 1 /\ lost' = lost + 0 /\ overflow' = overflow
              /\ Len(accepted') = Len(accepted) + 1
          BY <2>3, <2>5, <2>6, <3>3 DEF FifoTyped
        <4> QED BY <1>1, <3>1, <4>1 DEF Books
      <3>4. CASE ~push
        <4>1. event_count' = event_count + 0 /\ lost' = lost + 0 /\ overflow' = overflow /\ accepted' = accepted
          BY <2>3, <2>6, <3>4 DEF FifoTyped
        <4> QED BY <1>1, <3>1, <4>1 DEF Books
      <3> QED BY <2>2, <3>2, <3>3, <3>4
    <2>9. FifoTyped'
      BY <2>5, <2>6 DEF FifoTyped
    <2>10. \/ queue' = queue /\ accepted' = accepted
           \/ \E w \in Words : queue' = Append(queue, w) /\ accepted' = Append(accepted, w)
      BY <2>1, <2>3
    <2>11. misfiltered' = misfiltered \/ (misfiltered' = misfiltered + 1 /\ drop_mask_rx # drop_mask)
      BY <1>1, <2>3, <2>4
    <2> QED BY <2>3, <2>7, <2>8, <2>9, <2>10, <2>11
  <1> QED BY <1>2, <1>3 DEF RxClk

LEMMA RxKeepsMasks ==
  ASSUME ReadoutInv, RxClk
  PROVE  Masks'
  <1> USE DEF ReadoutInv
  <1>1. /\ UNCHANGED <<drop_mask, todo, pc, bvalid>>
        /\ mask_ff1' \in {mask_fly, drop_mask} /\ mask_fly' = drop_mask /\ drop_mask_rx' = mask_ff1
    BY RxChanges DEF SyncMask, wrChan, ps
  <1>2. Fired' = Fired
    BY <1>1 DEF Fired
  <1>3. Fired \in Int /\ misfiltered \in Nat /\ gap \in 1 .. EventGap /\ EventGap \in Nat /\ EventGap >= 3
    BY SeqLen, ReadoutAssumption DEF Fired, TypeOK, PsTyped, RxTyped
  <1>4. /\ drop_mask_rx' \subseteq mask_ff1' /\ mask_ff1' \subseteq mask_fly' /\ mask_fly' \subseteq drop_mask'
    BY <1>1 DEF Masks
  <1>5. misfiltered' <= Fired /\ (Settles' # drop_mask => misfiltered' < Fired)
    <2>1. CASE gap' = (IF gap < EventGap THEN gap + 1 ELSE gap) /\ misfiltered' = misfiltered
      <3>1. Settles' # drop_mask => Settles # drop_mask
        <4>1. CASE gap = EventGap
          <5>1. gap' = EventGap
            BY <1>3, <2>1, <4>1
          <5>2. Settles' = mask_ff1 /\ Settles = drop_mask_rx
            BY <1>1, <4>1, <5>1 DEF Settles
          <5> QED BY <5>2 DEF Masks
        <4>2. CASE gap = EventGap - 1
          <5>1. gap' = EventGap /\ gap # EventGap
            BY <1>3, <2>1, <4>2
          <5> QED BY <1>1, <4>2, <5>1 DEF Settles
        <4>3. CASE gap < EventGap - 1
          <5>1. gap' # EventGap /\ gap # EventGap /\ gap # EventGap - 1
            BY <1>3, <2>1, <4>3
          <5>2. Settles = mask_fly /\ Settles' \in {mask_ff1', mask_fly'}
            BY <5>1 DEF Settles
          <5> QED BY <1>1, <5>2
        <4> QED BY <1>3, <4>1, <4>2, <4>3
      <3> QED BY <2>1, <3>1 DEF Masks
    <2>2. CASE /\ gap = EventGap /\ gap' = 1
               /\ \/ misfiltered' = misfiltered
                  \/ misfiltered' = misfiltered + 1 /\ drop_mask_rx # drop_mask
      <3>1. gap' # EventGap /\ gap' # EventGap - 1
        BY <1>3, <2>2
      <3>2. Settles' = drop_mask
        BY <1>1, <3>1 DEF Settles
      <3>3. Settles = drop_mask_rx
        BY <2>2 DEF Settles
      <3> QED BY <1>3, <2>2, <3>2, <3>3 DEF Masks
    <2> QED BY <2>1, <2>2, RxChanges
  <1> QED BY <1>1, <1>2, <1>4, <1>5 DEF Masks

LEMMA RxKeepsCollects ==
  ASSUME ReadoutInv, RxClk
  PROVE  Collects'
  <1> USE DEF ReadoutInv, TypeOK
  <1>1. UNCHANGED <<pc, bvalid, pop, got, collected, rvalid, rdata, empty>>
    BY RxChanges DEF rdChan, wrChan, ps
  <1>2. UNCHANGED Popped
    BY <1>1 DEF Popped
  <1>3. CASE queue' = queue /\ accepted' = accepted
    BY <1>1, <1>2, <1>3 DEF Collects, Done, HasRead
  <1>4. ASSUME NEW word \in Words, queue' = Append(queue, word), accepted' = Append(accepted, word)
        PROVE  Collects'
    <2>1. /\ Len(queue) \in Nat /\ Len(accepted) \in Nat /\ Len(queue) <= Len(accepted)
          /\ Len(collected) \in Nat /\ Done \in Nat
      BY SeqLen DEF FifoTyped, PsTyped, Collects, Done
    <2>2. /\ queue' # <<>> /\ Len(queue') = Len(queue) + 1 /\ Len(accepted') = Len(accepted) + 1
          /\ \A i \in 1 .. Len(queue) : queue'[i] = queue[i]
          /\ \A i \in 1 .. Len(accepted) : accepted'[i] = accepted[i]
          /\ queue'[Len(queue) + 1] = word /\ accepted'[Len(accepted) + 1] = word
          /\ queue # <<>> => Head(queue') = Head(queue)
      BY <1>4, AppendSeq DEF FifoTyped
    <2>3. Done' = Done /\ Done + Len(queue) = Len(accepted)
      BY <2>1, <2>2 DEF Done
    <2>4. \A i \in 1 .. Len(queue') : queue'[i] = accepted'[Done + i]
      <3> SUFFICES ASSUME NEW i \in 1 .. Len(queue') PROVE queue'[i] = accepted'[Done + i]
        OBVIOUS
      <3>1. i \in 1 .. Len(queue) \/ i = Len(queue) + 1
        BY <2>1, <2>2
      <3>2. CASE i \in 1 .. Len(queue)
        <4>1. Done + i \in 1 .. Len(accepted) /\ queue[i] = accepted[Done + i]
          BY <2>1, <2>3, <3>2 DEF Collects
        <4> QED BY <2>2, <3>2, <4>1
      <3>3. CASE i = Len(queue) + 1
        <4>1. Done + i = Len(accepted) + 1
          BY <2>1, <2>3, <3>3
        <4> QED BY <2>2, <3>3, <4>1
      <3> QED BY <3>1, <3>2, <3>3
    <2>5. \A i \in 1 .. Len(collected) : accepted'[i] = accepted[i]
      <3>1. Len(collected) <= Len(accepted)
        BY <2>1, <2>3 DEF Collects
      <3> QED BY <2>1, <2>2, <3>1
    <2>6. Popped => accepted'[Done] = accepted[Done]
      <3>1. Popped => Done \in 1 .. Len(accepted)
        BY <2>1, <2>3 DEF Collects
      <3> QED BY <2>2, <3>1
    <2>7. ~empty => Head(queue') = Head(queue)
      BY <2>2 DEF Collects
    <2>8. Popped => HasRead(accepted[Done])'
      BY <1>1, <2>3, <2>6 DEF Collects, HasRead
    <2>9. pc \in FieldRegs \cup {"POP"} /\ ~Popped => HasRead(Head(queue))'
      BY <1>1, <2>7 DEF Collects, HasRead
    <2>10. rvalid /\ pc \in FieldRegs => rdata.entry = <<Head(queue')>>
      <3> SUFFICES ASSUME rvalid, pc \in FieldRegs PROVE rdata.entry = <<Head(queue')>>
        OBVIOUS
      <3>1. ~Popped
        BY DEF Popped, FieldRegs
      <3> QED BY <2>7, <3>1 DEF Collects
    <2> QED BY <1>1, <1>2, <2>1, <2>2, <2>3, <2>4, <2>5, <2>8, <2>9, <2>10 DEF Collects
  <1> QED BY <1>3, <1>4, RxChanges

LEMMA RxKeeps ==
  ASSUME ReadoutInv, RxClk
  PROVE  ReadoutInv'
  <1>1. TypeOK'
    BY RxChanges DEF ReadoutInv, TypeOK, BusTyped, PsTyped, rdChan, wrChan, ps
  <1>2. Handshake'
    BY RxChanges DEF ReadoutInv, Handshake, Loading, Storing, ReadIdle, WriteIdle, AddressGoes, DataGoes,
                     rdChan, wrChan, ps
  <1> QED BY <1>1, <1>2, RxChanges, RxKeepsMasks, RxKeepsCollects DEF ReadoutInv
-----------------------------------------------------------------------------
(***************************************************************************)
(* The processor and the interconnect.                                     *)
(***************************************************************************)
LEMMA BusKeeps ==
  ASSUME ReadoutInv, PsIssue \/ PresentAW \/ PresentW
  PROVE  ReadoutInv'
  <1> USE DEF ReadoutInv
  <1>1. /\ UNCHANGED <<fifo, rx, rdChan, wrChan, history, pc, todo, got>>
        /\ busy' \in BOOLEAN
        /\ arvalid' \in BOOLEAN /\ awvalid' \in BOOLEAN /\ wvalid' \in BOOLEAN
        /\ aw_todo' \in BOOLEAN /\ w_todo' \in BOOLEAN
    <2>1. CASE PsIssue
      <3>1. (~IsStore(pc)) \in BOOLEAN /\ IsStore(pc) \in BOOLEAN
        BY DEF IsStore
      <3> QED BY <2>1, <3>1 DEF PsIssue, TypeOK, BusTyped
    <2>2. CASE PresentAW
      BY <2>2 DEF PresentAW, ps, TypeOK, BusTyped, PsTyped
    <2>3. CASE PresentW
      BY <2>3 DEF PresentW, ps, TypeOK, BusTyped, PsTyped
    <2> QED BY <2>1, <2>2, <2>3
  <1>2. TypeOK'
    BY <1>1 DEF TypeOK, FifoTyped, RxTyped, BusTyped, PsTyped, fifo, rx, rdChan, wrChan, history
  <1>3. Books'
    BY <1>1 DEF Books, fifo, rx, history
  <1>4. Masks'
    BY <1>1 DEF Masks, Settles, Fired, rx, wrChan, history
  <1>5. Collects'
    BY <1>1 DEF Collects, Popped, Done, HasRead, fifo, rdChan, wrChan, history
  <1>6. Handshake'
    <2>1. UNCHANGED <<arready, rvalid, awready, wready, bvalid, waddr, wdata, pop, pc, todo>>
      BY <1>1 DEF rdChan, wrChan
    <2>2. CASE PsIssue
      <3>1. ReadIdle /\ WriteIdle /\ busy'
        BY <2>2 DEF PsIssue, Handshake
      <3>2. /\ arvalid' = ~IsStore(pc) /\ aw_todo' = IsStore(pc) /\ w_todo' = IsStore(pc)
            /\ awvalid' = awvalid /\ wvalid' = wvalid
        BY <2>2 DEF PsIssue
      <3>3. CASE pc \in Loads
        <4>1. ~IsStore(pc) /\ pc \notin Stores
          BY <3>3 DEF IsStore, Loads, FieldRegs, Stores
        <4> QED BY <2>1, <3>1, <3>2, <4>1 DEF Handshake, ReadIdle, WriteIdle, Loading
      <3>4. CASE pc \in Stores
        <4>1. IsStore(pc) /\ pc \notin Loads
          BY <3>4 DEF IsStore, Loads, FieldRegs, Stores
        <4> QED BY <2>1, <3>1, <3>2, <4>1
                DEF Handshake, ReadIdle, WriteIdle, Storing, AddressGoes, DataGoes
      <3> QED BY <3>3, <3>4 DEF TypeOK, PsTyped
    <2>3. CASE PresentAW
      <3>1. aw_todo /\ ~aw_todo' /\ awvalid' /\ UNCHANGED <<busy, arvalid, wvalid, w_todo>>
        BY <2>3 DEF PresentAW, ps
      <3> QED BY <2>1, <3>1 DEF Handshake, ReadIdle, WriteIdle, Loading, Storing, AddressGoes, DataGoes
    <2>4. CASE PresentW
      <3>1. w_todo /\ ~w_todo' /\ wvalid' /\ UNCHANGED <<busy, arvalid, awvalid, aw_todo>>
        BY <2>4 DEF PresentW, ps
      <3> QED BY <2>1, <3>1 DEF Handshake, ReadIdle, WriteIdle, Loading, Storing, AddressGoes, DataGoes
    <2> QED BY <2>2, <2>3, <2>4
  <1> QED BY <1>2, <1>3, <1>4, <1>5, <1>6

-----------------------------------------------------------------------------
(***************************************************************************)
(* A clock of the AXI side: what it can do, by where the access is.        *)
(***************************************************************************)
Stays == UNCHANGED <<ps, collected>>
WriteRests == WriteIdle /\ WriteIdle' /\ drop_mask' = drop_mask
\* Nothing is under way.
AxiIdle == ~busy /\ ReadIdle /\ ReadIdle' /\ rdata' = rdata /\ WriteRests /\ Stays
\* A load's address is taken and its register latched; the answer waits; it is taken.
LoadTaken ==
  /\ busy /\ pc \in Loads /\ WriteRests /\ Stays
  /\ arvalid /\ ~rvalid /\ ~arvalid' /\ ~arready' /\ rvalid' /\ rdata' = RegValue(pc)
LoadWaits ==
  /\ busy /\ pc \in Loads /\ WriteRests /\ Stays
  /\ rvalid /\ ~arvalid' /\ ~arready' /\ rvalid' /\ rdata' = rdata
LoadEnds ==
  /\ busy /\ pc \in Loads /\ WriteRests /\ ReadIdle'
  /\ rvalid /\ rdata' = rdata /\ PsLoaded
\* A store's address or data is latched; both are in and it takes effect; its answer waits;
\* it is taken.
StoreLatches ==
  /\ busy /\ pc \in Stores /\ ReadIdle' /\ rdata' = rdata /\ Stays
  /\ ~bvalid /\ ~bvalid' /\ ~pop /\ ~pop' /\ drop_mask' = drop_mask
  /\ AddressGoes' /\ DataGoes'
StoreFires ==
  /\ busy /\ pc \in Stores /\ ReadIdle' /\ rdata' = rdata /\ Stays
  /\ ~bvalid /\ bvalid' /\ ~pop /\ pop' = (pc = "POP" /\ ~empty)
  /\ drop_mask' = IF pc = "FILTER_CFG" THEN drop_mask \cup {Head(todo)} ELSE drop_mask
  /\ AddressGoes' /\ DataGoes' /\ ~awready' /\ ~wready'
StoreWaits ==
  /\ busy /\ pc \in Stores /\ ReadIdle' /\ rdata' = rdata /\ Stays
  /\ bvalid /\ bvalid' /\ ~pop' /\ drop_mask' = drop_mask
  /\ AddressGoes' /\ DataGoes' /\ ~awready' /\ ~wready'
StoreEnds ==
  /\ busy /\ pc \in Stores /\ ReadIdle' /\ WriteIdle' /\ rdata' = rdata
  /\ bvalid /\ drop_mask' = drop_mask /\ PsStored

LEMMA ReadSide ==
  ASSUME TypeOK, NEW rready \in BOOLEAN, ReadChannel(rready)
  PROVE  /\ ReadIdle => ReadIdle' /\ rdata' = rdata
         /\ arready /\ arvalid /\ ~rvalid =>
              ~arvalid' /\ ~arready' /\ rvalid' /\ rdata' = RegValue(pc)
         /\ ~arready /\ ~arvalid /\ rvalid =>
              /\ rdata' = rdata
              /\ rready => ReadIdle'
              /\ ~rready => ~arvalid' /\ ~arready' /\ rvalid'
  BY DEF ReadChannel, ReadIdle, TypeOK, BusTyped

LEMMA WriteSide ==
  ASSUME TypeOK, Handshake, NEW bready \in BOOLEAN, WriteChannel(bready),
         UNCHANGED <<aw_todo, w_todo>>
  PROVE  /\ WriteIdle => WriteRests
         /\ busy /\ pc \in Stores /\ ~bvalid =>
              /\ ~pop
              /\ \/ ~bvalid' /\ ~pop' /\ drop_mask' = drop_mask
                 \/ /\ bvalid' /\ pop' = (pc = "POP" /\ ~empty) /\ ~awready' /\ ~wready'
                    /\ drop_mask' = IF pc = "FILTER_CFG" THEN drop_mask \cup {Head(todo)} ELSE drop_mask
         /\ busy /\ pc \in Stores /\ bvalid =>
              /\ ~pop' /\ drop_mask' = drop_mask
              /\ ~bready => bvalid' /\ ~awready' /\ ~wready'
              /\ bready => WriteIdle'
  <1>1. WriteIdle => WriteRests
    BY DEF WriteChannel, WriteIdle, WriteRests, TypeOK, BusTyped
  <1>2. ASSUME busy, pc \in Stores, ~bvalid
        PROVE  /\ ~pop
               /\ \/ ~bvalid' /\ ~pop' /\ drop_mask' = drop_mask
                  \/ /\ bvalid' /\ pop' = (pc = "POP" /\ ~empty) /\ ~awready' /\ ~wready'
                     /\ drop_mask' = IF pc = "FILTER_CFG" THEN drop_mask \cup {Head(todo)} ELSE drop_mask
    <2>1. Storing /\ ~pop
      BY <1>2 DEF Handshake, Storing
    <2>2. CASE awready \/ wready
      BY <1>2, <2>1, <2>2 DEF WriteChannel, TypeOK, BusTyped
    <2>3. CASE ~awready /\ ~wready
      <3>1. waddr = pc /\ (pc = "FILTER_CFG" => wdata = Head(todo))
        BY <2>1, <2>3 DEF Storing, AddressGoes, DataGoes
      <3>2. bvalid' /\ ~awready' /\ ~wready'
        BY <1>2, <2>3 DEF WriteChannel, TypeOK, BusTyped
      <3>3. pop' = (waddr = "POP" /\ ~empty)
        BY <1>2, <2>3 DEF WriteChannel, TypeOK, BusTyped
      <3>4. drop_mask' = IF waddr = "FILTER_CFG" THEN drop_mask \cup {wdata} ELSE drop_mask
        BY <1>2, <2>3 DEF WriteChannel, TypeOK, BusTyped
      <3> QED BY <2>1, <3>1, <3>2, <3>3, <3>4
    <2> QED BY <2>1, <2>2, <2>3 DEF TypeOK, BusTyped
  <1>3. ASSUME busy, pc \in Stores, bvalid
        PROVE  /\ ~pop' /\ drop_mask' = drop_mask
               /\ ~bready => bvalid' /\ ~awready' /\ ~wready'
               /\ bready => WriteIdle'
    <2>1. ~awready /\ ~wready /\ ~awvalid /\ ~wvalid /\ ~aw_todo /\ ~w_todo
      BY <1>3 DEF Handshake, Storing, AddressGoes, DataGoes
    <2> QED BY <1>3, <2>1 DEF WriteChannel, WriteIdle, TypeOK, BusTyped
  <1> QED BY <1>1, <1>2, <1>3

\* What of a store is not answered goes on.
LEMMA WriteGoesOn ==
  ASSUME TypeOK, Handshake, NEW bready \in BOOLEAN, WriteChannel(bready),
         UNCHANGED <<aw_todo, w_todo, pc, todo>>, busy, pc \in Stores, ~(bvalid /\ bready)
  PROVE  AddressGoes' /\ DataGoes'
  <1>1. Storing
    BY DEF Handshake
  <1>2. AddressGoes'
    BY <1>1 DEF WriteChannel, Storing, AddressGoes, TypeOK, BusTyped
  <1>3. DataGoes'
    BY <1>1 DEF WriteChannel, Storing, DataGoes, TypeOK, BusTyped
  <1> QED BY <1>2, <1>3

LEMMA AxiSteps ==
  ASSUME ReadoutInv, NEW rready \in BOOLEAN, NEW bready \in BOOLEAN, AxiClk(rready, bready)
  PROVE  \/ AxiIdle \/ LoadTaken \/ LoadWaits \/ LoadEnds
         \/ StoreLatches \/ StoreFires \/ StoreWaits \/ StoreEnds
  <1> USE DEF ReadoutInv
  <1>1. ReadChannel(rready) /\ WriteChannel(bready) /\ UNCHANGED <<aw_todo, w_todo>>
    BY DEF AxiClk
  <1>2. /\ rvalid /\ rready /\ ~bvalid => PsLoaded
        /\ bvalid /\ bready /\ ~rvalid => PsStored
        /\ ~(rvalid /\ rready) /\ ~(bvalid /\ bready) => Stays
    BY DEF AxiClk, Stays
  <1>3. CASE ~busy
    <2>1. ReadIdle /\ WriteIdle
      BY <1>3 DEF Handshake
    <2>2. Stays
      BY <1>2, <2>1 DEF ReadIdle, WriteIdle
    <2> QED BY <1>1, <1>3, <2>1, <2>2, ReadSide, WriteSide DEF AxiIdle
  <1>4. CASE busy /\ pc \in Loads
    <2>1. Loading /\ ~bvalid /\ WriteIdle
      BY <1>4 DEF Handshake, Loading, WriteIdle
    <2>2. WriteRests
      BY <1>1, <2>1, WriteSide
    <2>3. CASE arvalid
      <3>1. arready /\ ~rvalid
        BY <2>1, <2>3 DEF Loading
      <3> QED BY <1>1, <1>2, <1>4, <2>1, <2>2, <2>3, <3>1, ReadSide DEF LoadTaken
    <2>4. CASE ~arvalid
      <3>1. ~arready /\ rvalid
        BY <2>1, <2>4 DEF Loading
      <3>2. CASE rready
        BY <1>1, <1>2, <1>4, <2>1, <2>2, <2>4, <3>1, <3>2, ReadSide DEF LoadEnds
      <3>3. CASE ~rready
        BY <1>1, <1>2, <1>4, <2>1, <2>2, <2>4, <3>1, <3>3, ReadSide DEF LoadWaits
      <3> QED BY <3>2, <3>3
    <2> QED BY <2>3, <2>4
  <1>5. CASE busy /\ pc \in Stores
    <2>1. Storing /\ ReadIdle /\ ~rvalid
      BY <1>5 DEF Handshake, Storing, ReadIdle
    <2>2. ReadIdle' /\ rdata' = rdata
      BY <1>1, <2>1, ReadSide
    <2>3. CASE bvalid /\ bready
      <3>1. WriteIdle' /\ drop_mask' = drop_mask
        BY <1>1, <1>5, <2>3, WriteSide
      <3>2. PsStored
        BY <1>2, <2>1, <2>3
      <3> QED BY <1>5, <2>2, <2>3, <3>1, <3>2 DEF StoreEnds
    <2>4. CASE ~(bvalid /\ bready)
      <3>1. Stays /\ UNCHANGED <<pc, todo>>
        BY <1>2, <2>1, <2>4 DEF Stays, ps
      <3>2. AddressGoes' /\ DataGoes'
        BY <1>1, <1>5, <2>4, <3>1, WriteGoesOn
      <3>3. CASE bvalid
        BY <1>1, <1>5, <2>2, <2>4, <3>1, <3>2, <3>3, WriteSide DEF StoreWaits
      <3>4. CASE ~bvalid
        <4>1. ~pop
          BY <1>1, <1>5, <3>4, WriteSide
        <4>2. CASE ~bvalid' /\ ~pop' /\ drop_mask' = drop_mask
          BY <1>5, <2>2, <3>1, <3>2, <3>4, <4>1, <4>2 DEF StoreLatches
        <4>3. CASE /\ bvalid' /\ pop' = (pc = "POP" /\ ~empty) /\ ~awready' /\ ~wready'
                   /\ drop_mask' = IF pc = "FILTER_CFG" THEN drop_mask \cup {Head(todo)} ELSE drop_mask
          BY <1>5, <2>2, <3>1, <3>2, <3>4, <4>1, <4>3 DEF StoreFires
        <4> QED BY <1>1, <1>5, <3>4, <4>2, <4>3, WriteSide
      <3> QED BY <3>3, <3>4
    <2> QED BY <2>3, <2>4
  <1> QED BY <1>3, <1>4, <1>5 DEF TypeOK, PsTyped
LEMMA AxiQueue ==
  ASSUME ReadoutInv, NEW rready \in BOOLEAN, NEW bready \in BOOLEAN, AxiClk(rready, bready)
  PROVE  /\ queue' = IF pop THEN Tail(queue) ELSE queue
         /\ pop => pc = "POP" /\ queue # <<>> /\ ~empty
         /\ empty' \in BOOLEAN /\ (~empty' => queue' # <<>>) /\ (~pop => (empty' => empty))
         /\ queue' \in Seq(Words)
         /\ UNCHANGED <<full, overflow, accepted, lost, misfiltered>>
         /\ UNCHANGED <<mask_ff1, drop_mask_rx, event_count, null_count, filtered_count, gap>>
         /\ mask_fly' = drop_mask
  <1> USE DEF ReadoutInv
  <1>1. pop => pc = "POP" /\ bvalid
    BY DEF Handshake, Storing, WriteIdle, Loading, TypeOK, PsTyped
  <1>2. pop => ~empty /\ queue # <<>>
    BY <1>1 DEF Collects, Popped
  <1>3. Fifo!ReadEdge(pop)
    BY DEF AxiClk
  <1>4. queue' = IF pop THEN Tail(queue) ELSE queue
    BY <1>2, <1>3 DEF Fifo!ReadEdge
  <1>5. empty' \in BOOLEAN /\ (~empty' => queue' # <<>>) /\ (~pop => (empty' => empty))
    BY <1>3 DEF Fifo!ReadEdge, Fifo!Flag
  <1>6. queue' \in Seq(Words)
    BY <1>2, <1>4, TailSeq DEF TypeOK, FifoTyped
  <1> QED BY <1>1, <1>2, <1>3, <1>4, <1>5, <1>6 DEF AxiClk, Fifo!ReadEdge, WriteChannel

\* Where the loop goes on after a load.
LEMMA LoadedPc ==
  ASSUME ReadoutInv, LoadEnds
  PROVE  /\ pc = "STATUS" => pc' = (IF rdata.empty THEN "STATUS" ELSE "EVENT") /\ got' = got
         /\ pc \in FieldRegs =>
              /\ queue # <<>> /\ Head(queue) \in Words /\ ~empty
              /\ got' = Append(got, <<pc, <<Head(queue)>>>>)
              /\ pc = "EVENT" => pc' = IF Head(queue).code \in HasData THEN "DATA_HI" ELSE "TS_HI"
              /\ pc = "DATA_HI" => pc' = "DATA_LO"
              /\ pc = "DATA_LO" => pc' = "TS_HI"
              /\ pc = "TS_HI" => pc' = "TS_LO"
              /\ pc = "TS_LO" => pc' = "POP"
         /\ pc' \in Loads \cup {"POP"} /\ busy' = FALSE
         /\ todo' = todo /\ collected' = collected
  <1> USE DEF ReadoutInv
  <1>1. PsLoaded /\ rvalid /\ pc \in Loads
    BY DEF LoadEnds
  <1>2. ASSUME pc = "STATUS"
        PROVE  pc' = (IF rdata.empty THEN "STATUS" ELSE "EVENT") /\ got' = got
    BY <1>1, <1>2 DEF PsLoaded, NextReg
  <1>3. ASSUME pc \in FieldRegs
        PROVE  /\ queue # <<>> /\ Head(queue) \in Words /\ ~empty
               /\ got' = Append(got, <<pc, <<Head(queue)>>>>)
               /\ pc = "EVENT" => pc' = IF Head(queue).code \in HasData THEN "DATA_HI" ELSE "TS_HI"
               /\ pc = "DATA_HI" => pc' = "DATA_LO"
               /\ pc = "DATA_LO" => pc' = "TS_HI"
               /\ pc = "TS_HI" => pc' = "TS_LO"
               /\ pc = "TS_LO" => pc' = "POP"
    <2>1. rdata.entry = <<Head(queue)>> /\ ~empty /\ queue # <<>>
      BY <1>1, <1>3 DEF Collects, Popped, FieldRegs
    <2>2. Head(queue) \in Words
      BY <2>1, TailSeq DEF TypeOK, FifoTyped
    <2>3. rdata.entry # <<>> /\ rdata.entry[1] = Head(queue)
      BY <2>1
    <2>4. got' = Append(got, <<pc, <<Head(queue)>>>>)
      BY <1>1, <1>3, <2>1 DEF PsLoaded, FieldRegs
    <2>5. pc' = NextReg(pc, rdata)
      BY <1>1 DEF PsLoaded
    <2> QED BY <1>3, <2>1, <2>2, <2>3, <2>4, <2>5 DEF NextReg
  <1>4. pc' \in Loads \cup {"POP"}
    <2>1. CASE pc = "STATUS"
      BY <1>2, <2>1 DEF Loads, FieldRegs
    <2>2. CASE pc \in FieldRegs
      BY <1>3, <2>2 DEF Loads, FieldRegs
    <2> QED BY <1>1, <2>1, <2>2 DEF Loads
  <1> QED BY <1>1, <1>2, <1>3, <1>4 DEF PsLoaded

LEMMA StoredPc ==
  ASSUME ReadoutInv, StoreEnds
  PROVE  /\ busy' = FALSE
         /\ pc = "POP" => /\ pc' = "STATUS" /\ got' = <<>> /\ todo' = todo
                          /\ collected' = Append(collected, got)
         /\ pc = "FILTER_CFG" => /\ todo # <<>> /\ todo' = Tail(todo) /\ got' = got /\ collected' = collected
                                 /\ pc' = IF todo' = <<>> THEN "STATUS" ELSE "FILTER_CFG"
         /\ pc \in Stores
  <1>1. PsStored /\ pc \in Stores
    BY DEF StoreEnds
  <1> QED BY <1>1 DEF PsStored, Stores, ReadoutInv, Masks

LEMMA AxiKeepsHandshake ==
  ASSUME ReadoutInv, NEW rready \in BOOLEAN, NEW bready \in BOOLEAN, AxiClk(rready, bready)
  PROVE  Handshake'
  <1>1. Loads \cap Stores = {}
    BY DEF Loads, Stores, FieldRegs
  <1>2. ASSUME Stays PROVE UNCHANGED <<pc, busy, todo>>
    BY <1>2 DEF Stays, ps
  <1>3. CASE AxiIdle
    BY <1>2, <1>3 DEF AxiIdle, WriteRests, Handshake
  <1>4. CASE LoadTaken
    BY <1>1, <1>2, <1>4 DEF LoadTaken, WriteRests, Handshake, Loading
  <1>5. CASE LoadWaits
    BY <1>1, <1>2, <1>5 DEF LoadWaits, WriteRests, Handshake, Loading
  <1>6. CASE LoadEnds
    BY <1>6, LoadedPc DEF LoadEnds, WriteRests, Handshake
  <1>7. CASE StoreLatches
    BY <1>1, <1>2, <1>7 DEF StoreLatches, Handshake, Storing
  <1>8. CASE StoreFires
    <2>1. (bvalid => ~awready /\ ~wready)' /\ (pop => bvalid /\ pc = "POP")'
      BY <1>2, <1>8 DEF StoreFires
    <2> QED BY <1>1, <1>2, <1>8, <2>1 DEF StoreFires, Handshake, Storing
  <1>9. CASE StoreWaits
    BY <1>1, <1>2, <1>9 DEF StoreWaits, Handshake, Storing
  <1>10. CASE StoreEnds
    BY <1>10, StoredPc DEF StoreEnds, Handshake
  <1> QED BY AxiSteps, <1>3, <1>4, <1>5, <1>6, <1>7, <1>8, <1>9, <1>10

LEMMA AxiKeepsTypes ==
  ASSUME ReadoutInv, NEW rready \in BOOLEAN, NEW bready \in BOOLEAN, AxiClk(rready, bready)
  PROVE  TypeOK'
  <1> USE DEF ReadoutInv, TypeOK
  <1>1. FifoTyped'
    BY AxiQueue DEF FifoTyped
  <1>2. RxTyped'
    BY AxiQueue DEF RxTyped
  <1>3. BusTyped'
    <2>1. /\ arready' \in BOOLEAN /\ rvalid' \in BOOLEAN /\ arvalid' \in BOOLEAN
      BY DEF AxiClk, ReadChannel, BusTyped
    <2>2. /\ awready' \in BOOLEAN /\ wready' \in BOOLEAN /\ bvalid' \in BOOLEAN /\ pop' \in BOOLEAN
          /\ awvalid' \in BOOLEAN /\ wvalid' \in BOOLEAN
      BY DEF AxiClk, WriteChannel, BusTyped, FifoTyped
    <2> QED BY <2>1, <2>2 DEF AxiClk, BusTyped
  <1>4. PsTyped'
    <2>1. CASE Stays
      BY <2>1 DEF Stays, ps, PsTyped
    <2>2. CASE LoadEnds
      <3>1. got' \in Seq(Fields)
        <4>1. CASE pc = "STATUS"
          BY <2>2, <4>1, LoadedPc DEF PsTyped
        <4>2. CASE pc \in FieldRegs
          <5>1. <<Head(queue)>> \in Seq(Words)
            BY <2>2, <4>2, LoadedPc
          <5>2. <<pc, <<Head(queue)>>>> \in Fields
            BY <4>2, <5>1 DEF Fields
          <5>3. got' = Append(got, <<pc, <<Head(queue)>>>>)
            BY <2>2, <4>2, LoadedPc
          <5> DEFINE field == <<pc, <<Head(queue)>>>>
          <5> HIDE DEF field
          <5>4. field \in Fields /\ got' = Append(got, field) /\ got \in Seq(Fields)
            BY <5>2, <5>3 DEF field, PsTyped
          <5> QED BY <5>4, AppendSeq
        <4> QED BY <2>2, <4>1, <4>2 DEF LoadEnds, Loads
      <3>2. pc' \in Stores \cup Loads /\ busy' \in BOOLEAN
        BY <2>2, LoadedPc DEF Stores
      <3> QED BY <2>2, <3>1, <3>2, LoadedPc DEF PsTyped
    <2>3. CASE StoreEnds
      <3>1. pc' \in Stores \cup Loads /\ busy' \in BOOLEAN
        BY <2>3, StoredPc DEF Stores, Loads
      <3>2. todo' \in Seq(Codes) /\ got' \in Seq(Fields)
        BY <2>3, StoredPc, TailSeq, EmptySeq DEF PsTyped, Stores
      <3>3. collected' \in Seq(Seq(Fields))
        <4>1. got \in Seq(Fields) /\ collected \in Seq(Seq(Fields))
          BY DEF PsTyped
        <4>2. Append(collected, got) \in Seq(Seq(Fields))
          BY <4>1, AppendSeq
        <4> QED BY <2>3, <4>1, <4>2, StoredPc DEF Stores
      <3> QED BY <3>1, <3>2, <3>3 DEF PsTyped
    <2> QED BY AxiSteps, <2>1, <2>2, <2>3
            DEF AxiIdle, LoadTaken, LoadWaits, StoreLatches, StoreFires, StoreWaits
  <1> QED BY <1>1, <1>2, <1>3, <1>4

LEMMA AxiKeepsMasks ==
  ASSUME ReadoutInv, NEW rready \in BOOLEAN, NEW bready \in BOOLEAN, AxiClk(rready, bready)
  PROVE  Masks'
  <1> USE DEF ReadoutInv
  <1>1. /\ UNCHANGED <<misfiltered, mask_ff1, drop_mask_rx, gap>> /\ mask_fly' = drop_mask
    BY AxiQueue
  <1>2. /\ misfiltered \in Nat /\ Len(todo) \in Nat /\ Len(DropCodes) \in Nat /\ Fired \in Int
        /\ todo \in Seq(Codes)
    BY SeqLen, ReadoutAssumption DEF TypeOK, RxTyped, PsTyped, Fired
  <1>3. ASSUME drop_mask' = drop_mask, Fired' = Fired, Len(todo') <= Len(todo), Len(todo') \in Nat,
               pc' = "FILTER_CFG" <=> todo' # <<>>
        PROVE  Masks'
    <2>1. Settles' # drop_mask' => Settles # drop_mask
      BY <1>1, <1>3 DEF Settles
    <2> QED BY <1>1, <1>2, <1>3, <2>1 DEF Masks
  <1>4. ASSUME Stays PROVE UNCHANGED <<pc, todo>>
    BY <1>4 DEF Stays, ps
  <1>5. CASE AxiIdle \/ LoadTaken \/ LoadWaits \/ StoreLatches \/ StoreWaits
    <2>1. bvalid \in BOOLEAN /\ bvalid' \in BOOLEAN
      BY AxiKeepsTypes DEF TypeOK, BusTyped
    <2>2. drop_mask' = drop_mask /\ Stays /\ bvalid' = bvalid
      BY <1>5, <2>1 DEF AxiIdle, LoadTaken, LoadWaits, StoreLatches, StoreWaits, WriteRests, WriteIdle
    <2> QED BY <1>2, <1>3, <1>4, <2>2 DEF Masks, Fired
  <1>6. CASE LoadEnds
    <2>1. drop_mask' = drop_mask /\ todo' = todo /\ pc # "FILTER_CFG" /\ pc' # "FILTER_CFG"
      BY <1>6, LoadedPc DEF LoadEnds, WriteRests, Loads, FieldRegs
    <2> QED BY <1>2, <1>3, <2>1 DEF Masks, Fired
  <1>7. CASE StoreFires
    <2>1. UNCHANGED <<pc, todo>> /\ ~bvalid /\ bvalid'
      BY <1>4, <1>7 DEF StoreFires
    <2>2. CASE pc = "FILTER_CFG"
      <3>1. Fired' = Fired + 1
        BY <1>2, <2>1, <2>2 DEF Fired
      <3>2. drop_mask \subseteq drop_mask'
        BY <1>7 DEF StoreFires
      <3> QED BY <1>1, <1>2, <2>1, <3>1, <3>2 DEF Masks
    <2>3. CASE pc # "FILTER_CFG"
      <3>1. drop_mask' = drop_mask
        BY <1>7, <2>3 DEF StoreFires
      <3> QED BY <1>2, <1>3, <2>1, <2>3, <3>1 DEF Masks, Fired
    <2> QED BY <2>2, <2>3
  <1>8. CASE StoreEnds
    <2>1. drop_mask' = drop_mask /\ bvalid /\ ~bvalid'
      BY <1>8 DEF StoreEnds, WriteIdle
    <2>2. CASE pc = "POP"
      <3>1. todo' = todo /\ pc' = "STATUS"
        BY <1>8, <2>2, StoredPc
      <3>2. Fired' = Fired
        BY <2>2, <3>1 DEF Fired
      <3>3. pc' = "FILTER_CFG" <=> todo' # <<>>
        BY <2>2, <3>1 DEF Masks
      <3> QED BY <1>2, <1>3, <2>1, <3>1, <3>2, <3>3
    <2>3. CASE pc = "FILTER_CFG"
      <3>1. /\ todo # <<>> /\ todo' = Tail(todo)
            /\ pc' = "FILTER_CFG" <=> todo' # <<>>
        BY <1>8, <2>3, StoredPc
      <3>2. Len(todo') = Len(todo) - 1 /\ Len(todo') \in Nat
        BY <1>2, <3>1, TailSeq
      <3>3. Fired' = Fired
        BY <1>2, <2>1, <2>3, <3>2 DEF Fired
      <3> QED BY <1>2, <1>3, <2>1, <3>1, <3>2, <3>3
    <2> QED BY <1>8, <2>2, <2>3, StoredPc DEF Stores
  <1> QED BY AxiSteps, <1>5, <1>6, <1>7, <1>8
-----------------------------------------------------------------------------
(***************************************************************************)
(* What the loop has of an event.                                          *)
(***************************************************************************)
LEMMA FieldsShape ==
  ASSUME NEW word \in Words
  PROVE  /\ FieldsOf(word) \in Seq(FieldRegs)
         /\ Len(FieldsOf(word)) = Reads("POP", word)
         /\ DOMAIN FieldsOf(word) = 1 .. Reads("POP", word)
         /\ FieldsOf(word)[1] = "EVENT"
         /\ word.code \in HasData => FieldsOf(word)[2] = "DATA_HI" /\ FieldsOf(word)[3] = "DATA_LO"
         /\ FieldsOf(word)[Reads("TS_HI", word) + 1] = "TS_HI"
         /\ FieldsOf(word)[Reads("TS_LO", word) + 1] = "TS_LO"
  <1> DEFINE first == <<"EVENT">>
             data == IF word.code \in HasData THEN <<"DATA_HI", "DATA_LO">> ELSE <<>>
             stamp == <<"TS_HI", "TS_LO">>
             n == IF word.code \in HasData THEN 2 ELSE 0
  <1>1. /\ first \in Seq(FieldRegs) /\ Len(first) = 1 /\ first[1] = "EVENT"
        /\ stamp \in Seq(FieldRegs) /\ Len(stamp) = 2 /\ stamp[1] = "TS_HI" /\ stamp[2] = "TS_LO"
    BY DEF FieldRegs
  <1>2. /\ data \in Seq(FieldRegs) /\ Len(data) = n
        /\ word.code \in HasData => data[1] = "DATA_HI" /\ data[2] = "DATA_LO"
    <2>1. CASE word.code \in HasData
      <3>1. data = <<"DATA_HI", "DATA_LO">>
        BY <2>1
      <3>2. <<"DATA_HI", "DATA_LO">> \in Seq(FieldRegs)
        BY DEF FieldRegs
      <3> QED BY <2>1, <3>1, <3>2
    <2>2. CASE word.code \notin HasData
      BY <2>2, EmptySeq
    <2> QED BY <2>1, <2>2
  <1>3. /\ Reads("POP", word) = n + 3 /\ Reads("TS_HI", word) = n + 1 /\ Reads("TS_LO", word) = n + 2
        /\ n \in Nat /\ (word.code \in HasData => n = 2)
    BY DEF Reads
  <1>4. FieldsOf(word) = (first \o data) \o stamp
    BY DEF FieldsOf
  <1> HIDE DEF first, data, stamp, n
  <1>5. /\ first \o data \in Seq(FieldRegs) /\ Len(first \o data) = n + 1
        /\ (first \o data)[1] = "EVENT"
        /\ word.code \in HasData => (first \o data)[2] = "DATA_HI" /\ (first \o data)[3] = "DATA_LO"
    <2>1. /\ first \o data \in Seq(FieldRegs) /\ Len(first \o data) = Len(first) + Len(data)
          /\ \A i \in 1 .. Len(first) + Len(data) :
               (first \o data)[i] = IF i <= Len(first) THEN first[i] ELSE data[i - Len(first)]
      BY <1>1, <1>2, ConcatProperties
    <2>2. \A i \in 1 .. 1 + n : (first \o data)[i] = IF i <= 1 THEN first[i] ELSE data[i - 1]
      BY <1>1, <1>2, <2>1
    <2> QED BY <1>1, <1>2, <1>3, <2>1, <2>2
  <1> DEFINE both == first \o data
  <1> HIDE DEF both
  <1>6. /\ both \o stamp \in Seq(FieldRegs) /\ Len(both \o stamp) = n + 3
        /\ \A i \in 1 .. n + 3 : (both \o stamp)[i] = IF i <= n + 1 THEN both[i] ELSE stamp[i - (n + 1)]
    <2>1. both \in Seq(FieldRegs) /\ Len(both) = n + 1
      BY <1>5 DEF both
    <2>2. /\ both \o stamp \in Seq(FieldRegs) /\ Len(both \o stamp) = Len(both) + Len(stamp)
          /\ \A i \in 1 .. Len(both) + Len(stamp) :
               (both \o stamp)[i] = IF i <= Len(both) THEN both[i] ELSE stamp[i - Len(both)]
      BY <1>1, <2>1, ConcatProperties
    <2>3. Len(both) + Len(stamp) = n + 3
      BY <1>1, <1>3, <2>1
    <2> QED BY <2>1, <2>2, <2>3
  <1>7. /\ both[1] = "EVENT"
        /\ word.code \in HasData => both[2] = "DATA_HI" /\ both[3] = "DATA_LO"
        /\ FieldsOf(word) = both \o stamp
    BY <1>4, <1>5 DEF both
  <1>8. /\ (both \o stamp)[1] = "EVENT"
        /\ word.code \in HasData => (both \o stamp)[2] = "DATA_HI" /\ (both \o stamp)[3] = "DATA_LO"
        /\ (both \o stamp)[n + 2] = "TS_HI" /\ (both \o stamp)[n + 3] = "TS_LO"
    BY SMTT(30), <1>1, <1>3, <1>6, <1>7
  <1>9. DOMAIN (both \o stamp) = 1 .. n + 3
    BY <1>6, LenProperties
  <1>10. Reads("TS_HI", word) + 1 = n + 2 /\ Reads("TS_LO", word) + 1 = n + 3
    BY <1>3
  <1> DEFINE shape == both \o stamp
  <1>11. /\ FieldsOf(word) = shape /\ shape \in Seq(FieldRegs) /\ Len(shape) = n + 3 /\ DOMAIN shape = 1 .. n + 3
         /\ shape[1] = "EVENT"
         /\ word.code \in HasData => shape[2] = "DATA_HI" /\ shape[3] = "DATA_LO"
         /\ shape[n + 2] = "TS_HI" /\ shape[n + 3] = "TS_LO"
    BY <1>6, <1>7, <1>8, <1>9
  <1> HIDE DEF shape
  <1> QED BY <1>3, <1>10, <1>11

\* Before the POP all of it.
LEMMA WholeReadout ==
  ASSUME NEW word \in Words, got \in Seq(Fields), pc = "POP", HasRead(word)
  PROVE  got = ReadoutOf(word)
  <1>1. Len(got) = Reads("POP", word)
    BY DEF HasRead
  <1>2. DOMAIN FieldsOf(word) = 1 .. Len(got)
    BY <1>1, FieldsShape
  <1>3. got = [i \in 1 .. Len(got) |-> got[i]]
    BY LenProperties
  <1>4. \A i \in 1 .. Len(got) : got[i] = <<FieldsOf(word)[i], <<word>>>>
    BY DEF HasRead
  <1> QED BY <1>2, <1>3, <1>4 DEF ReadoutOf

\* One field more.
LEMMA ReadsOn ==
  ASSUME ReadoutInv, LoadEnds, pc \in FieldRegs, NEW word \in Words, word = Head(queue)
  PROVE  HasRead(word)' /\ pc' \in FieldRegs \cup {"POP"}
  <1> DEFINE field == <<pc, <<word>>>>
  <1>1. /\ got' = Append(got, field) /\ got \in Seq(Fields)
        /\ pc = "EVENT" => pc' = IF word.code \in HasData THEN "DATA_HI" ELSE "TS_HI"
        /\ pc = "DATA_HI" => pc' = "DATA_LO"
        /\ pc = "DATA_LO" => pc' = "TS_HI"
        /\ pc = "TS_HI" => pc' = "TS_LO"
        /\ pc = "TS_LO" => pc' = "POP"
    BY LoadedPc DEF ReadoutInv, TypeOK, PsTyped
  <1>2. HasRead(word)
    BY DEF ReadoutInv, Collects, Popped, FieldRegs
  <1>3. field \in Fields
    <2>1. <<word>> \in Seq(Words)
      OBVIOUS
    <2> QED BY <2>1 DEF Fields
  <1>4. /\ FieldsOf(word)[Reads(pc, word) + 1] = pc
        /\ Reads(pc', word) = Reads(pc, word) + 1
        /\ pc' \in {"DATA_HI", "DATA_LO"} => word.code \in HasData
        /\ pc' \in FieldRegs \cup {"POP"}
    BY <1>1, <1>2, FieldsShape DEF Reads, FieldRegs, HasRead
  <1> HIDE DEF field
  <1>5. Len(got) \in Nat /\ Len(got) = Reads(pc, word)
    BY <1>1, <1>2, SeqLen DEF HasRead
  <1>6. /\ Len(got') = Len(got) + 1
        /\ \A i \in 1 .. Len(got) : got'[i] = got[i]
        /\ got'[Len(got) + 1] = field
    BY <1>1, <1>3, AppendSeq
  <1>7. \A i \in 1 .. Len(got') : got'[i] = <<FieldsOf(word)[i], <<word>>>>
    <2> SUFFICES ASSUME NEW i \in 1 .. Len(got') PROVE got'[i] = <<FieldsOf(word)[i], <<word>>>>
      OBVIOUS
    <2>1. CASE i \in 1 .. Len(got)
      BY <1>2, <1>6, <2>1 DEF HasRead
    <2>2. CASE i = Len(got) + 1
      BY <1>4, <1>5, <1>6, <2>2 DEF field
    <2> QED BY <1>5, <1>6, <2>1, <2>2
  <1> QED BY <1>4, <1>5, <1>6, <1>7 DEF HasRead

\* The FIFO's oldest entry is the first that was accepted and not popped.
LEMMA Oldest ==
  ASSUME ReadoutInv
  PROVE  /\ Len(queue) \in Nat /\ Len(accepted) \in Nat /\ Done \in Nat /\ Len(collected) \in Nat
         /\ Done + Len(queue) = Len(accepted)
         /\ queue # <<>> => /\ Head(queue) = accepted[Done + 1] /\ Head(queue) \in Words
                            /\ Done + 1 \in 1 .. Len(accepted)
         /\ Done > 0 => accepted[Done] \in Words
  <1>1. /\ Len(queue) \in Nat /\ Len(accepted) \in Nat /\ Len(collected) \in Nat
        /\ Len(queue) <= Len(accepted)
    BY SeqLen DEF ReadoutInv, TypeOK, FifoTyped, PsTyped, Collects
  <1>2. Done \in Nat /\ Done + Len(queue) = Len(accepted)
    BY <1>1 DEF Done
  <1>3. ASSUME queue # <<>>
        PROVE  /\ Head(queue) = accepted[Done + 1] /\ Head(queue) \in Words
               /\ Done + 1 \in 1 .. Len(accepted)
    <2>1. Head(queue) = queue[1] /\ Head(queue) \in Words /\ Len(queue) > 0
      BY <1>3, TailSeq DEF ReadoutInv, TypeOK, FifoTyped
    <2> QED BY <1>1, <1>2, <2>1 DEF ReadoutInv, Collects
  <1>4. Done > 0 => accepted[Done] \in Words
    <2>1. Done > 0 => Done \in 1 .. Len(accepted)
      BY <1>1, <1>2
    <2> QED BY <2>1, SeqLen DEF ReadoutInv, TypeOK, FifoTyped
  <1> QED BY <1>1, <1>2, <1>3, <1>4

\* A POP takes effect: the suffix is one shorter.
LEMMA OldestGone ==
  ASSUME ReadoutInv, queue # <<>>, queue' = Tail(queue), accepted' = accepted
  PROVE  /\ Done' = Done + 1 /\ Len(queue') <= Len(accepted')
         /\ \A i \in 1 .. Len(queue') : queue'[i] = accepted'[Done' + i]
  <1>1. /\ Len(queue') = Len(queue) - 1 /\ Len(queue) \in Nat \ {0}
        /\ \A i \in 1 .. Len(queue) - 1 : queue'[i] = queue[i + 1]
    BY TailSeq DEF ReadoutInv, TypeOK, FifoTyped
  <1>2. Done' = Done + 1 /\ Len(queue') <= Len(accepted')
    BY <1>1, Oldest DEF Done, ReadoutInv, Collects
  <1>3. ASSUME NEW i \in 1 .. Len(queue') PROVE queue'[i] = accepted'[Done' + i]
    <2>1. i + 1 \in 1 .. Len(queue) /\ queue'[i] = queue[i + 1] /\ i \in Nat /\ Done \in Nat
      BY <1>1, Oldest
    <2>2. queue[i + 1] = accepted[Done + (i + 1)]
      BY <2>1 DEF ReadoutInv, Collects
    <2>3. Done + (i + 1) = Done' + i
      BY <1>2, <2>1
    <2> QED BY <2>1, <2>2, <2>3
  <1> QED BY <1>2, <1>3
\* A step that pops nothing and is none of the loop's.
LEMMA QuietCollects ==
  ASSUME ReadoutInv, Stays, queue' = queue, accepted' = accepted, ~empty' => queue' # <<>>,
         empty' => empty, Popped' = Popped,
         rvalid' => (rdata' = rdata /\ rvalid) \/ (rdata' = RegValue(pc) /\ pc \in Loads)
  PROVE  Collects'
  <1> USE DEF ReadoutInv
  <1>1. UNCHANGED <<pc, got, collected, Done>>
    BY DEF Stays, ps, Done
  <1>2. ASSUME rvalid', pc = "STATUS" PROVE rdata'.empty \in BOOLEAN /\ (rdata'.empty \/ ~empty')
    <2>1. CASE rdata' = rdata /\ rvalid
      BY <1>2, <2>1 DEF Collects
    <2>2. CASE rdata' = RegValue(pc)
      <3>1. rdata'.empty = (pc = "STATUS" /\ empty) /\ empty \in BOOLEAN
        BY <2>2 DEF RegValue, TypeOK, FifoTyped
      <3> QED BY <1>2, <3>1
    <2> QED BY <1>2, <2>1, <2>2
  <1>3. ASSUME rvalid', pc \in FieldRegs PROVE rdata'.entry = <<Head(queue')>>
    <2>1. CASE rdata' = rdata /\ rvalid
      BY <1>3, <2>1 DEF Collects
    <2>2. CASE rdata' = RegValue(pc)
      <3>1. queue # <<>> /\ pc # "STATUS"
        BY <1>3 DEF Collects, Popped, FieldRegs
      <3> QED BY <2>2, <3>1 DEF RegValue
    <2> QED BY <1>3, <2>1, <2>2
  <1>4. \A word : HasRead(word)' <=> HasRead(word)
    BY <1>1 DEF HasRead
  <1>5. pc \in FieldRegs \cup {"POP"} /\ ~Popped => HasRead(Head(queue))'
    BY <1>1 DEF Collects, HasRead
  <1>6. Popped => HasRead(accepted[Done])'
    BY <1>1 DEF Collects, HasRead
  <1> QED BY <1>1, <1>2, <1>3, <1>5, <1>6 DEF Collects

\* The POP, when the FIFO sees it and the processor has not its answer yet.
LEMMA PopCollects ==
  ASSUME ReadoutInv, Stays, ~rvalid', pop, pc = "POP", bvalid', ~pop', queue # <<>>,
         queue' = Tail(queue), accepted' = accepted, ~empty' => queue' # <<>>
  PROVE  Collects'
  <1> USE DEF ReadoutInv
  <1>1. UNCHANGED <<pc, got, collected>> /\ Popped' /\ ~Popped
    BY DEF Stays, ps, Popped
  <1>2. /\ Done' = Done + 1 /\ Len(queue') <= Len(accepted')
        /\ \A i \in 1 .. Len(queue') : queue'[i] = accepted'[Done' + i]
    BY OldestGone
  <1>3. Len(collected') = Done' - 1 /\ Done' > 0
    BY <1>1, <1>2, Oldest DEF Collects
  <1>4. HasRead(Head(queue)) /\ Head(queue) = accepted[Done + 1]
    BY <1>1, Oldest DEF Collects
  <1>5. HasRead(accepted[Done])'
    BY <1>1, <1>2, <1>4 DEF HasRead
  <1> QED BY <1>1, <1>2, <1>3, <1>5 DEF Collects, FieldRegs

\* The answer to the POP: the loop hands the event on.
LEMMA EndCollects ==
  ASSUME ReadoutInv, StoreEnds, pc = "POP", ~rvalid', ~bvalid',
         queue' = IF pop THEN Tail(queue) ELSE queue, pop => queue # <<>>,
         accepted' = accepted, ~empty' => queue' # <<>>
  PROVE  Collects'
  <1> USE DEF ReadoutInv
  <1>1. pc' = "STATUS" /\ got' = <<>> /\ collected' = Append(collected, got) /\ ~Popped'
    BY StoredPc DEF Popped
  <1>2. /\ Done' = Len(collected) + 1 /\ Done' \in Nat /\ Done' > 0
        /\ Len(queue') <= Len(accepted')
        /\ \A i \in 1 .. Len(queue') : queue'[i] = accepted'[Done' + i]
        /\ \E word \in Words : word = accepted[Done'] /\ HasRead(word)
    <2>1. CASE pop
      <3>1. ~Popped /\ queue' = Tail(queue) /\ queue # <<>>
        BY <2>1 DEF Popped
      <3>2. /\ Done' = Done + 1 /\ Len(queue') <= Len(accepted')
            /\ \A i \in 1 .. Len(queue') : queue'[i] = accepted'[Done' + i]
        BY <3>1, OldestGone
      <3>3. HasRead(Head(queue)) /\ Head(queue) = accepted[Done + 1] /\ Head(queue) \in Words
        BY <3>1, Oldest DEF Collects
      <3>4. Len(collected) = Done /\ Done \in Nat
        BY <3>1, Oldest DEF Collects
      <3>5. \E word \in Words : word = accepted[Done'] /\ HasRead(word)
        BY <3>2, <3>3
      <3>6. Done' = Len(collected) + 1 /\ Done' \in Nat /\ Done' > 0
        BY <3>2, <3>4
      <3> QED BY <3>2, <3>5, <3>6
    <2>2. CASE ~pop
      <3>1. Popped /\ queue' = queue /\ Done' = Done
        BY <2>2 DEF Popped, StoreEnds, Done
      <3>2. Len(collected) = Done - 1 /\ Done > 0 /\ Done \in Nat /\ HasRead(accepted[Done])
            /\ accepted[Done] \in Words
        BY <3>1, Oldest DEF Collects
      <3>3. /\ Len(queue') <= Len(accepted')
            /\ \A i \in 1 .. Len(queue') : queue'[i] = accepted'[Done' + i]
        BY <3>1 DEF Collects
      <3> QED BY <3>1, <3>2, <3>3
    <2> QED BY <2>1, <2>2
  <1>3. got = ReadoutOf(accepted[Done'])
    <2>1. PICK word \in Words : word = accepted[Done'] /\ HasRead(word)
      BY <1>2
    <2>2. got = ReadoutOf(word)
      BY <2>1, WholeReadout DEF TypeOK, PsTyped
    <2> QED BY <2>1, <2>2
  <1>4. /\ Len(collected') = Len(collected) + 1 /\ Len(collected) \in Nat
        /\ \A i \in 1 .. Len(collected) : collected'[i] = collected[i]
        /\ collected'[Len(collected) + 1] = got
    BY <1>1, AppendSeq DEF TypeOK, PsTyped
  <1>5. \A i \in 1 .. Len(collected') : collected'[i] = ReadoutOf(accepted'[i])
    <2> SUFFICES ASSUME NEW i \in 1 .. Len(collected') PROVE collected'[i] = ReadoutOf(accepted[i])
      OBVIOUS
    <2>1. CASE i \in 1 .. Len(collected)
      BY <1>4, <2>1 DEF Collects
    <2>2. CASE i = Len(collected) + 1
      BY <1>2, <1>3, <1>4, <2>2
    <2> QED BY <1>4, <2>1, <2>2
  <1> QED BY <1>1, <1>2, <1>4, <1>5 DEF Collects, FieldRegs

\* A load's answer.
LEMMA LoadCollects ==
  ASSUME ReadoutInv, LoadEnds, ~rvalid', queue' = queue, accepted' = accepted,
         ~empty' => queue' # <<>>, empty' => empty, empty' \in BOOLEAN
  PROVE  Collects'
  <1> USE DEF ReadoutInv
  <1>1. ~bvalid /\ ~bvalid' /\ ~Popped /\ ~Popped' /\ Done' = Done /\ collected' = collected
    BY LoadedPc DEF LoadEnds, WriteRests, WriteIdle, Popped, Done
  <1>2. pc \in Loads /\ rvalid
    BY DEF LoadEnds
  <1>3. ASSUME pc' \in {"FILTER_CFG", "STATUS"} PROVE got' = <<>>
    <2>1. pc = "STATUS"
      BY <1>2, <1>3, LoadedPc, ReadsOn DEF Loads, FieldRegs
    <2> QED BY <2>1, LoadedPc DEF Collects
  <1>4. ASSUME pc' \in FieldRegs \cup {"POP"} PROVE ~empty' /\ HasRead(Head(queue))'
    <2>1. CASE pc = "STATUS"
      <3>1. pc' = "EVENT" /\ got' = <<>> /\ ~rdata.empty
        BY <1>2, <1>4, <2>1, LoadedPc DEF Collects, FieldRegs
      <3>2. ~empty /\ ~empty'
        BY <1>2, <2>1, <3>1 DEF Collects
      <3>3. Len(got') = 0 /\ Reads("EVENT", Head(queue)) = 0
        BY <3>1, EmptySeq DEF Reads
      <3>4. HasRead(Head(queue))'
        <4>1. queue' = queue
          OBVIOUS
        <4> QED BY <3>1, <3>3, <4>1 DEF HasRead, Reads
      <3> QED BY <3>2, <3>4
    <2>2. CASE pc \in FieldRegs
      <3>1. Head(queue) \in Words /\ ~empty
        BY <2>2, LoadedPc
      <3>2. PICK word \in Words : word = Head(queue)
        BY <3>1
      <3>3. HasRead(word)'
        BY <2>2, <3>2, ReadsOn
      <3>4. word = Head(queue')
        BY <3>2
      <3> QED BY <3>1, <3>3, <3>4 DEF HasRead
    <2> QED BY <1>2, <2>1, <2>2 DEF Loads
  <1> QED BY <1>1, <1>3, <1>4 DEF Collects

LEMMA AxiKeepsCollects ==
  ASSUME ReadoutInv, NEW rready \in BOOLEAN, NEW bready \in BOOLEAN, AxiClk(rready, bready)
  PROVE  Collects'
  <1> USE DEF ReadoutInv
  <1>1. /\ queue' = IF pop THEN Tail(queue) ELSE queue
        /\ pop => pc = "POP" /\ queue # <<>> /\ ~empty
        /\ empty' \in BOOLEAN /\ (~empty' => queue' # <<>>) /\ (~pop => (empty' => empty))
        /\ accepted' = accepted
    BY AxiQueue
  <1>2. /\ pop \in BOOLEAN /\ bvalid \in BOOLEAN /\ Popped \in BOOLEAN
        /\ pop' \in BOOLEAN /\ bvalid' \in BOOLEAN /\ Popped' \in BOOLEAN
    BY AxiKeepsTypes DEF TypeOK, BusTyped, Popped
  <1>3. CASE AxiIdle
    <2>1. ~pop /\ ~Popped /\ ~Popped' /\ ~rvalid' /\ Stays
      BY <1>3 DEF AxiIdle, WriteRests, WriteIdle, ReadIdle, Popped
    <2> QED BY <1>1, <1>2, <2>1, QuietCollects
  <1>4. CASE LoadTaken
    <2>1. ~pop /\ ~Popped /\ ~Popped' /\ Stays /\ rdata' = RegValue(pc) /\ pc \in Loads
      BY <1>4 DEF LoadTaken, WriteRests, WriteIdle, Popped
    <2>2. queue' = queue /\ (empty' => empty) /\ Popped' = Popped
      BY <1>1, <1>2, <2>1
    <2>3. rvalid' => (rdata' = rdata /\ rvalid) \/ (rdata' = RegValue(pc) /\ pc \in Loads)
      BY <2>1
    <2> HIDE DEF ReadoutInv
    <2> QED BY <1>1, <2>1, <2>2, <2>3, QuietCollects
  <1>5. CASE LoadWaits
    <2>1. ~pop /\ ~Popped /\ ~Popped' /\ Stays /\ rdata' = rdata /\ rvalid
      BY <1>5 DEF LoadWaits, WriteRests, WriteIdle, Popped
    <2> QED BY <1>1, <1>2, <2>1, QuietCollects
  <1>6. CASE LoadEnds
    <2>1. ~pop /\ ~rvalid'
      BY <1>6 DEF LoadEnds, WriteRests, WriteIdle, ReadIdle
    <2> QED BY <1>1, <1>6, <2>1, LoadCollects
  <1>7. CASE StoreLatches
    <2>1. ~pop /\ ~Popped /\ ~Popped' /\ ~rvalid' /\ Stays
      BY <1>7 DEF StoreLatches, ReadIdle, Popped
    <2> QED BY <1>1, <1>2, <2>1, QuietCollects
  <1>8. CASE StoreFires
    <2>1. ~pop /\ ~Popped /\ ~rvalid' /\ Stays /\ pop' = (pc = "POP" /\ ~empty) /\ pc' = pc
      BY <1>8 DEF StoreFires, ReadIdle, Popped, Stays, ps
    <2>2. ~Popped'
      BY <2>1 DEF Popped, Collects
    <2> QED BY <1>1, <1>2, <2>1, <2>2, QuietCollects
  <1>9. CASE StoreWaits
    <2>1. ~rvalid' /\ Stays /\ bvalid /\ bvalid' /\ ~pop' /\ pc' = pc
      BY <1>9 DEF StoreWaits, ReadIdle, Stays, ps
    <2>2. CASE pop
      BY <1>1, <2>1, <2>2, PopCollects
    <2>3. CASE ~pop
      <3>1. Popped' = Popped
        BY <1>2, <2>1, <2>3 DEF Popped
      <3> QED BY <1>1, <2>1, <2>3, <3>1, QuietCollects
    <2> QED BY <1>2, <2>2, <2>3
  <1>10. CASE StoreEnds
    <2>1. ~rvalid' /\ ~bvalid' /\ pc \in Stores
      BY <1>10 DEF StoreEnds, ReadIdle, WriteIdle
    <2>2. CASE pc = "POP"
      BY <1>1, <1>10, <2>1, <2>2, EndCollects
    <2>3. CASE pc = "FILTER_CFG"
      <3>1. ~pop /\ ~Popped /\ ~Popped' /\ Done' = Done
        BY <1>1, <2>1, <2>3 DEF Popped, Done
      <3>2. got' = got /\ collected' = collected /\ pc' \in {"STATUS", "FILTER_CFG"}
        BY <1>10, <2>3, StoredPc
      <3>3. got' = <<>>
        BY <2>3, <3>2 DEF Collects
      <3> QED BY <1>1, <2>1, <3>1, <3>2, <3>3 DEF Collects, FieldRegs
    <2> QED BY <2>1, <2>2, <2>3 DEF Stores
  <1> QED BY AxiSteps, <1>3, <1>4, <1>5, <1>6, <1>7, <1>8, <1>9, <1>10

LEMMA AxiKeeps ==
  ASSUME ReadoutInv, NEW rready \in BOOLEAN, NEW bready \in BOOLEAN, AxiClk(rready, bready)
  PROVE  ReadoutInv'
  <1>1. Books'
    BY AxiQueue DEF ReadoutInv, Books
  <1> QED BY <1>1, AxiKeepsTypes, AxiKeepsHandshake, AxiKeepsMasks, AxiKeepsCollects DEF ReadoutInv

LEMMA ReadoutStarts ==
  ASSUME Init
  PROVE  ReadoutInv
  <1>1. TypeOK
    <2>1. FifoTyped
      BY EmptySeq DEF Init, Fifo!FifoInit, FifoTyped
    <2>2. RxTyped
      BY ReadoutAssumption DEF Init, RxTyped
    <2>3. BusTyped
      BY DEF Init, BusTyped
    <2>4. pc \in Stores \cup Loads /\ busy \in BOOLEAN
      BY DEF Init, Stores, Loads
    <2>5. todo \in Seq(Codes) /\ got \in Seq(Fields) /\ collected \in Seq(Seq(Fields))
      BY ReadoutAssumption, EmptySeq DEF Init
    <2> QED BY <2>1, <2>2, <2>3, <2>4, <2>5 DEF TypeOK, PsTyped
  <1>2. Handshake
    BY DEF Init, Handshake, ReadIdle, WriteIdle
  <1>3. Books
    BY EmptySeq DEF Init, Fifo!FifoInit, Books
  <1>4. Masks
    <2>1. Len(todo) = Len(DropCodes) /\ Len(DropCodes) \in Nat /\ todo = DropCodes /\ ~bvalid
      BY SeqLen, ReadoutAssumption DEF Init
    <2>2. Fired = 0
      BY <2>1 DEF Fired
    <2>3. Settles = drop_mask
      BY DEF Settles, Init
    <2> QED BY <2>1, <2>2, <2>3 DEF Init, Masks
  <1>5. Collects
    <2>1. pc \in {"STATUS", "FILTER_CFG"} /\ empty /\ queue = <<>> /\ accepted = <<>> /\ collected = <<>>
          /\ got = <<>> /\ ~rvalid /\ ~bvalid
      BY DEF Init, Fifo!FifoInit
    <2>2. Len(<<>>) = 0
      BY EmptySeq
    <2> QED BY <2>1, <2>2 DEF Collects, Popped, Done, FieldRegs
  <1> QED BY <1>1, <1>2, <1>3, <1>4, <1>5 DEF ReadoutInv

LEMMA ReadoutSame ==
  ASSUME ReadoutInv, UNCHANGED vars
  PROVE  ReadoutInv'
  <1> USE DEF vars, fifo, rx, rdChan, wrChan, bus, ps, history, ReadoutInv
  <1>1. TypeOK'
    BY DEF TypeOK, FifoTyped, RxTyped, BusTyped, PsTyped
  <1>2. Handshake'
    BY DEF Handshake, ReadIdle, WriteIdle, Loading, Storing, AddressGoes, DataGoes
  <1>3. Books' /\ Masks'
    BY DEF Books, Masks, Fired, Settles
  <1>4. Collects'
    BY DEF Collects, Popped, Done, HasRead
  <1> QED BY <1>1, <1>2, <1>3, <1>4

\* Every access of the loop, every event in the FIFO and every bit of the mask, at every moment.
THEOREM ReadoutInvariance == MCSpec => []ReadoutInv
  <1>1. MCInit => ReadoutInv
    BY ReadoutStarts DEF MCInit
  <1>2. ReadoutInv /\ [MCNext]_all_vars => ReadoutInv'
    <2> SUFFICES ASSUME ReadoutInv, [MCNext]_all_vars PROVE ReadoutInv'
      OBVIOUS
    <2>1. CASE UNCHANGED vars
      BY <2>1, ReadoutSame
    <2>2. CASE Next
      BY <2>2, RxKeeps, BusKeeps, AxiKeeps DEF Next
    <2> QED BY <2>1, <2>2 DEF MCNext, all_vars, ArchiverStep, ReadoutStep
  <1> QED BY <1>1, <1>2, PTL DEF MCSpec

\* What the FIFO accepted reaches the publisher once, in order and whole
\* (readout_common.py:211-224, aclk_readout_axi.sv:205-224, 261-277).
THEOREM ExactlyOnce == MCSpec => []CollectedExactlyOnce
  <1>1. ReadoutInv => CollectedExactlyOnce
    <2> SUFFICES ASSUME ReadoutInv
                 PROVE  /\ queue = SubSeq(accepted, Done + 1, Len(accepted))
                        /\ Len(collected) \in {Done - 1, Done}
                        /\ collected = [i \in 1 .. Len(collected) |-> ReadoutOf(accepted[i])]
                        /\ Len(collected) < Done => pc = "POP" /\ got = ReadoutOf(accepted[Done])
                        /\ got # <<>> /\ Len(collected) = Done =>
                             queue # <<>> /\ IsPrefix(got, ReadoutOf(Head(queue)))
      BY DEF CollectedExactlyOnce, Done
    <2> USE DEF ReadoutInv
    <2>1. queue = SubSeq(accepted, Done + 1, Len(accepted))
      <3> DEFINE rest == SubSeq(accepted, Done + 1, Len(accepted))
      <3>1. \A i \in Done + 1 .. Len(accepted) : accepted[i] \in Words
        BY Oldest, SeqLen DEF TypeOK, FifoTyped
      <3>2. /\ rest \in Seq(Words)
            /\ Len(rest) = IF Done + 1 <= Len(accepted) THEN Len(accepted) - (Done + 1) + 1 ELSE 0
            /\ \A i \in 1 .. Len(accepted) - (Done + 1) + 1 : rest[i] = accepted[Done + 1 + i - 1]
        <4>1. Done + 1 \in Int /\ Len(accepted) \in Int
          BY Oldest
        <4> QED BY <3>1, <4>1, SubSeqProperties
      <3> HIDE DEF rest
      <3>3. Len(rest) = Len(queue) /\ \A i \in 1 .. Len(queue) : rest[i] = accepted[Done + i]
        <4>1. /\ Done \in Nat /\ Len(queue) \in Nat /\ Len(accepted) \in Nat
              /\ Done + Len(queue) = Len(accepted)
          BY Oldest
        <4>2. Len(rest) = Len(queue)
          BY <3>2, <4>1
        <4>3. ASSUME NEW i \in 1 .. Len(queue) PROVE rest[i] = accepted[Done + i]
          <5>1. i \in 1 .. Len(accepted) - (Done + 1) + 1 /\ Done + 1 + i - 1 = Done + i
            BY <4>1
          <5> QED BY <3>2, <5>1
        <4> QED BY <4>2, <4>3
      <3>4. \A i \in 1 .. Len(queue) : queue[i] = rest[i]
        BY <3>3 DEF Collects
      <3>5. queue = rest
        BY <3>2, <3>3, <3>4, SeqEqual DEF TypeOK, FifoTyped
      <3> QED BY <3>5 DEF rest
    <2>2. Len(collected) \in {Done - 1, Done} /\ (Len(collected) < Done => Popped)
      BY Oldest DEF Collects
    <2>3. collected = [i \in 1 .. Len(collected) |-> ReadoutOf(accepted[i])]
      <3>1. collected = [i \in 1 .. Len(collected) |-> collected[i]]
        BY LenProperties DEF TypeOK, PsTyped
      <3> QED BY <3>1 DEF Collects
    <2>4. ASSUME Popped PROVE pc = "POP" /\ got = ReadoutOf(accepted[Done])
      <3>1. pc = "POP" /\ HasRead(accepted[Done]) /\ Done > 0
        BY <2>4 DEF Popped, Collects
      <3> QED BY <3>1, Oldest, WholeReadout DEF TypeOK, PsTyped
    <2>5. ASSUME got # <<>>, Len(collected) = Done
          PROVE  queue # <<>> /\ IsPrefix(got, ReadoutOf(Head(queue)))
      <3>1. ~Popped /\ pc \in FieldRegs \cup {"POP"}
        BY <2>5, Oldest DEF Collects, TypeOK, PsTyped, Stores, Loads
      <3>2. queue # <<>> /\ HasRead(Head(queue)) /\ Head(queue) \in Words
        BY <3>1, Oldest DEF Collects
      <3>3. PICK word \in Words : word = Head(queue)
        BY <3>2
      <3> DEFINE whole == ReadoutOf(word)
      <3>4. /\ FieldsOf(word) \in Seq(FieldRegs) /\ Len(FieldsOf(word)) = Reads("POP", word)
            /\ DOMAIN FieldsOf(word) = 1 .. Reads("POP", word) /\ Reads("POP", word) \in Nat
            /\ Reads(pc, word) <= Reads("POP", word)
        BY <3>1, <3>2, <3>3, FieldsShape DEF Reads, FieldRegs, HasRead
      <3>5. \A i \in 1 .. Reads("POP", word) : <<FieldsOf(word)[i], <<word>>>> \in Fields
        <4>1. <<word>> \in Seq(Words)
          OBVIOUS
        <4>2. \A i \in 1 .. Reads("POP", word) : FieldsOf(word)[i] \in FieldRegs
          BY <3>4, SeqLen
        <4> QED BY <4>1, <4>2 DEF Fields
      <3>6. whole = [i \in 1 .. Reads("POP", word) |-> <<FieldsOf(word)[i], <<word>>>>]
        BY <3>4 DEF ReadoutOf
      <3> HIDE DEF whole
      <3>7. whole \in Seq(Fields) /\ Len(whole) = Reads("POP", word)
        <4>1. whole \in [1 .. Reads("POP", word) -> Fields]
          BY <3>5, <3>6
        <4> QED BY <3>4, <4>1, LenProperties, SeqDef
      <3>8. /\ got \in Seq(Fields) /\ Len(got) \in Nat /\ Len(got) <= Len(whole)
            /\ \A i \in 1 .. Len(got) : got[i] = whole[i] /\ got[i] \in Fields /\ whole[i] \in Fields
        <4>1. got \in Seq(Fields) /\ Len(got) \in Nat
          BY SeqLen DEF TypeOK, PsTyped
        <4>2. HasRead(word) /\ Len(got) = Reads(pc, word)
          BY <3>2, <3>3 DEF HasRead
        <4>3. Len(got) <= Len(whole)
          BY <3>4, <3>7, <4>2
        <4>4. ASSUME NEW i \in 1 .. Len(got)
              PROVE  got[i] = whole[i] /\ got[i] \in Fields /\ whole[i] \in Fields
          <5>1. i \in 1 .. Reads("POP", word)
            BY <3>4, <4>1, <4>2
          <5>2. got[i] = <<FieldsOf(word)[i], <<word>>>>
            BY <4>2 DEF HasRead
          <5> QED BY <3>5, <3>6, <5>1, <5>2
        <4> QED BY <4>1, <4>3, <4>4
      <3>9. SubSeq(got, 1, Len(got)) = SubSeq(whole, 1, Len(got))
        <4> DEFINE l == SubSeq(got, 1, Len(got))
                   r == SubSeq(whole, 1, Len(got))
        <4>1. /\ l \in Seq(Fields) /\ Len(l) = (IF 1 <= Len(got) THEN Len(got) - 1 + 1 ELSE 0)
              /\ \A i \in 1 .. Len(got) - 1 + 1 : l[i] = got[1 + i - 1]
          BY <3>8, SubSeqProperties
        <4>2. /\ r \in Seq(Fields) /\ Len(r) = (IF 1 <= Len(got) THEN Len(got) - 1 + 1 ELSE 0)
              /\ \A i \in 1 .. Len(got) - 1 + 1 : r[i] = whole[1 + i - 1]
          BY <3>8, SubSeqProperties
        <4> HIDE DEF l, r
        <4>3. Len(l) = Len(got) /\ Len(r) = Len(got)
          BY <3>8, <4>1, <4>2
        <4>4. \A i \in 1 .. Len(got) : l[i] = r[i]
          BY <3>8, <4>1, <4>2
        <4>5. l = r
          BY <4>1, <4>2, <4>3, <4>4, SeqEqual
        <4> QED BY <4>5 DEF l, r
      <3>10. IsPrefix(got, whole)
        BY <3>8, <3>9 DEF IsPrefix
      <3> QED BY <3>2, <3>3, <3>10 DEF whole
    <2> QED BY <2>1, <2>2, <2>3, <2>4, <2>5
  <1> QED BY <1>1, ReadoutInvariance, PTL

\* What EVENT_COUNT counted went into the FIFO or was lost, and the overflow flag tells that
\* something was (aclk_readout_axi.sv:156-169).
THEOREM LedgerAlwaysBalances == MCSpec => []LedgerBalances
  <1>1. ReadoutInv => LedgerBalances
    BY DEF ReadoutInv, Books, LedgerBalances
  <1> QED BY <1>1, ReadoutInvariance, PTL

\* Each bit of the mask that is set lets one masked event through at most, on its way to the
\* receive clock (aclk_readout_axi.sv:98-106).
THEOREM OneMisfiltered == MCSpec => []AtMostOneMisfiltered
  <1>1. ReadoutInv => AtMostOneMisfiltered
    <2> SUFFICES ASSUME ReadoutInv PROVE misfiltered <= Len(DropCodes)
      BY DEF AtMostOneMisfiltered
    <2>1. /\ Len(todo) \in Nat /\ Len(DropCodes) \in Nat /\ misfiltered \in Nat
          /\ pc = "FILTER_CFG" => Len(todo) > 0
      BY SeqLen, ReadoutAssumption DEF ReadoutInv, TypeOK, PsTyped, RxTyped, Masks
    <2>2. Fired <= Len(DropCodes) /\ Fired \in Int
      BY <2>1 DEF Fired
    <2> QED BY <2>1, <2>2 DEF ReadoutInv, Masks
  <1> QED BY <1>1, ReadoutInvariance, PTL
-----------------------------------------------------------------------------
(***************************************************************************)
(* The archiver's steps.                                                   *)
(***************************************************************************)
LEMMA InFeed ==
  ASSUME ArchiveTyped
  PROVE  /\ Len(feed) \in Nat
         /\ ToSet(feed) = {feed[i] : i \in 1..Len(feed)} /\ ToSet(feed) \subseteq Nat \ {0}
  BY SeqLen DEF ArchiveTyped, ToSet

\* Less behind a cursor, or more in the archive.
LEMMA StillBehind ==
  ASSUME NEW at, Behind(at) \subseteq Archived, ToSet(feed') \subseteq ToSet(feed), Archived \subseteq Archived'
  PROVE  Behind(at)' \subseteq Archived'
  BY DEF Behind

LEMMA SameArchive ==
  ASSUME files' = files
  PROVE  Archived' = Archived
  BY DEF Archived

LEMMA XaddKeeps ==
  ASSUME ArchiveInv, Xadd
  PROVE  ArchiveInv' /\ files' = files
  <1> USE DEF ArchiveInv
  <1>1. /\ Len(feed) \in Nat /\ added \in Nat /\ Len(feed) <= added /\ added' = added + 1
        /\ UNCHANGED <<apc, last_id, page, cursor, disk, today, open_day, files>>
        /\ feed \in Seq(Nat \ {0})
    BY InFeed DEF Xadd, archive_loop, archive_out, ArchiveTyped, InStream
  <1>2. PICK from \in 1..Len(feed) + 1 : feed' = SubSeq(Append(feed, added'), from, Len(feed) + 1)
    BY DEF Xadd
  <1> DEFINE all == Append(feed, added')
  <1>3. /\ all \in Seq(Nat \ {0}) /\ Len(all) = Len(feed) + 1
        /\ \A i \in 1..Len(feed) + 1 : all[i] = added - Len(feed) + i /\ all[i] \in Nat \ {0}
    <2>1. added' \in Nat \ {0}
      BY <1>1
    <2>2. /\ all \in Seq(Nat \ {0}) /\ Len(all) = Len(feed) + 1
          /\ \A i \in 1..Len(feed) : all[i] = feed[i]
          /\ all[Len(feed) + 1] = added'
      BY <1>1, <2>1, AppendSeq
    <2> HIDE DEF all
    <2>3. \A i \in 1..Len(feed) + 1 : all[i] = added - Len(feed) + i
      <3> SUFFICES ASSUME NEW i \in 1..Len(feed) + 1 PROVE all[i] = added - Len(feed) + i
        OBVIOUS
      <3>1. CASE i \in 1..Len(feed)
        BY <2>2, <3>1 DEF InStream
      <3>2. CASE i = Len(feed) + 1
        BY <1>1, <2>2, <3>2
      <3> QED BY <1>1, <3>1, <3>2
    <2> QED BY <1>1, <2>2, <2>3
  <1>4. feed' = SubSeq(all, from, Len(feed) + 1)
    BY <1>2
  <1> HIDE DEF all
  <1>5. /\ feed' \in Seq(Nat \ {0}) /\ Len(feed') = Len(feed) + 2 - from
        /\ \A i \in 1..Len(feed') : feed'[i] = all[from + i - 1]
    <2>1. from \in Int /\ Len(feed) + 1 \in Int /\ \A i \in from..Len(feed) + 1 : all[i] \in Nat \ {0}
      BY <1>1, <1>3
    <2>2. /\ feed' \in Seq(Nat \ {0})
          /\ Len(feed') = IF from <= Len(feed) + 1 THEN Len(feed) + 1 - from + 1 ELSE 0
          /\ \A i \in 1..Len(feed) + 1 - from + 1 : feed'[i] = all[from + i - 1]
      BY <1>4, <2>1, SubSeqProperties
    <2> QED BY <1>1, <2>1, <2>2
  <1>6. \A i \in 1..Len(feed') : feed'[i] = added' - Len(feed') + i
    <2> SUFFICES ASSUME NEW i \in 1..Len(feed') PROVE feed'[i] = added' - Len(feed') + i
      OBVIOUS
    <2>1. from + i - 1 \in 1..Len(feed) + 1
      BY <1>1, <1>5
    <2>2. feed'[i] = added - Len(feed) + (from + i - 1)
      BY <1>3, <1>5, <2>1
    <2> QED BY <1>1, <1>5, <2>2
  <1>7. ArchiveTyped' /\ InDrain'
    BY <1>1, <1>5 DEF ArchiveTyped, InDrain
  <1>8. InStream'
    <2>1. Len(feed') <= added'
      BY <1>1, <1>5
    <2>2. \A i \in 1..Len(page) : page[i] <= added => page[i] <= added'
      BY <1>1, SeqLen DEF ArchiveTyped
    <2>3. last_id <= added' /\ cursor <= added' /\ disk <= added'
      BY <1>1 DEF InStream, ArchiveTyped
    <2> QED BY <1>1, <1>6, <2>1, <2>2, <2>3 DEF InStream
  <1>9. ASSUME NEW at \in Nat, at <= added, Behind(at) \subseteq Archived
        PROVE  Behind(at)' \subseteq Archived'
    <2> SUFFICES ASSUME NEW id \in ToSet(feed'), id <= at PROVE id \in Archived
      BY <1>1, SameArchive DEF Behind
    <2>1. PICK i \in 1..Len(feed') : id = feed'[i]
      BY <1>5, SeqLen DEF ToSet
    <2>2. id = added - Len(feed) + (from + i - 1) /\ from + i - 1 \in 1..Len(feed) + 1
      BY SMTT(30), <1>3, <1>5, <1>1, <2>1
    <2>3. from + i - 1 \in 1..Len(feed)
      BY <1>1, <1>9, <2>2
    <2>4. id = feed[from + i - 1]
      BY <2>2, <2>3 DEF InStream
    <2> QED BY <1>9, <2>3, <2>4, InFeed DEF Behind
  <1>10. Passed'
    <2>1. ASSUME page # <<>> PROVE page[1] - 1 \in Nat /\ page[1] - 1 <= added
      <3>1. 1 \in 1..Len(page) /\ page[1] \in Nat \ {0}
        BY <2>1, SeqLen DEF ArchiveTyped
      <3>2. page[1] <= added
        BY <3>1 DEF InStream
      <3> QED BY <1>1, <3>1, <3>2
    <2> QED BY <1>1, <1>9, <2>1 DEF Passed, ArchiveTyped, InStream
  <1> QED BY <1>1, <1>7, <1>8, <1>10

\* What XRANGE gives: the entries above the drain's place, from the oldest on.
LEMMA NewerRows ==
  ASSUME ArchiveInv
  PROVE  LET rows == SubSeq(Newer, 1, IF Len(Newer) < PageSize THEN Len(Newer) ELSE PageSize)
         IN  /\ rows \in Seq(Nat \ {0})
             /\ \A i \in 1..Len(rows) : rows[i] = rows[1] + i - 1 /\ rows[i] <= added
             /\ rows # <<>> => /\ last_id < rows[1]
                               /\ \A id \in ToSet(feed) : id < rows[1] => id <= last_id
  <1> USE DEF ArchiveInv
  <1>1. /\ Len(feed) \in Nat /\ added \in Nat /\ last_id \in Nat /\ PageSize \in Nat \ {0}
        /\ feed \in Seq(Nat \ {0}) /\ DOMAIN feed = 1..Len(feed)
        /\ \A i \in 1..Len(feed) : feed[i] = added - Len(feed) + i /\ feed[i] \in Nat \ {0}
    BY ArchiveAssumption, SeqLen DEF ArchiveTyped, InStream
  <1> DEFINE First(i) == \A j \in DOMAIN feed : feed[j] > last_id <=> j >= i
             from == CHOOSE i \in 1..Len(feed) + 1 : First(i)
  <1>2. \E i \in 1..Len(feed) + 1 : First(i)
    <2>1. CASE last_id >= added
      <3>1. First(Len(feed) + 1) /\ Len(feed) + 1 \in 1..Len(feed) + 1
        BY <1>1, <2>1
      <3> HIDE DEF First
      <3> QED BY <3>1
    <2>2. CASE last_id < added - Len(feed)
      <3>1. First(1) /\ 1 \in 1..Len(feed) + 1
        BY <1>1, <2>2
      <3> HIDE DEF First
      <3> QED BY <3>1
    <2>3. CASE last_id < added /\ last_id >= added - Len(feed)
      <3>1. last_id - (added - Len(feed)) + 1 \in 1..Len(feed) + 1
        BY <1>1, <2>3
      <3>2. First(last_id - (added - Len(feed)) + 1)
        BY <1>1, <2>3
      <3> HIDE DEF First
      <3> QED BY <3>1, <3>2
    <2>4. last_id >= added \/ last_id < added - Len(feed) \/ (last_id < added /\ last_id >= added - Len(feed))
      BY <1>1
    <2> HIDE DEF First
    <2> QED BY <2>1, <2>2, <2>3, <2>4
  <1>3. from \in 1..Len(feed) + 1 /\ First(from)
    BY <1>2
  <1>4. Newer = SubSeq(feed, from, Len(feed))
    BY DEF Newer
  <1> HIDE DEF from, First
  <1>5. /\ Len(Newer) = Len(feed) + 1 - from /\ Newer \in Seq(Nat \ {0})
        /\ \A i \in 1..Len(Newer) : Newer[i] = feed[from + i - 1]
    <2>1. from \in Int /\ Len(feed) \in Int /\ \A i \in from..Len(feed) : feed[i] \in Nat \ {0}
      BY <1>1, <1>3
    <2>2. /\ Newer \in Seq(Nat \ {0})
          /\ Len(Newer) = IF from <= Len(feed) THEN Len(feed) - from + 1 ELSE 0
          /\ \A i \in 1..Len(feed) - from + 1 : Newer[i] = feed[from + i - 1]
      BY <1>4, <2>1, SubSeqProperties
    <2> QED BY <1>1, <1>3, <2>2
  <1> DEFINE n == IF Len(Newer) < PageSize THEN Len(Newer) ELSE PageSize
             rows == SubSeq(Newer, 1, n)
  <1>6. n \in Nat /\ n <= Len(Newer) /\ Len(Newer) \in Nat
    BY <1>1, <1>3, <1>5
  <1>7. /\ rows \in Seq(Nat \ {0}) /\ Len(rows) = n
        /\ \A i \in 1..n : rows[i] = feed[from + i - 1]
    <2>1. \A i \in 1..n : Newer[i] \in Nat \ {0}
      BY <1>5, <1>6, SeqLen
    <2>2. /\ rows \in Seq(Nat \ {0}) /\ Len(rows) = IF 1 <= n THEN n - 1 + 1 ELSE 0
          /\ \A i \in 1..n - 1 + 1 : rows[i] = Newer[1 + i - 1]
      BY <1>6, <2>1, SubSeqProperties
    <2> QED BY <1>5, <1>6, <2>2
  <1> HIDE DEF n, rows
  <1>8. \A i \in 1..n : rows[i] = added - Len(feed) + from + i - 1 /\ from + i - 1 \in 1..Len(feed)
    <2> SUFFICES ASSUME NEW i \in 1..n
                 PROVE  rows[i] = added - Len(feed) + from + i - 1 /\ from + i - 1 \in 1..Len(feed)
      OBVIOUS
    <2>1. from + i - 1 \in 1..Len(feed)
      BY <1>1, <1>3, <1>5, <1>6
    <2>2. rows[i] = feed[from + i - 1]
      BY <1>7
    <2>3. feed[from + i - 1] = added - Len(feed) + (from + i - 1)
      BY <1>1, <2>1
    <2> QED BY <1>1, <1>3, <1>6, <2>1, <2>2, <2>3
  <1>9. \A i \in 1..Len(rows) : rows[i] = rows[1] + i - 1 /\ rows[i] <= added
    BY <1>1, <1>3, <1>6, <1>7, <1>8
  <1>10. ASSUME rows # <<>>
         PROVE  last_id < rows[1] /\ \A id \in ToSet(feed) : id < rows[1] => id <= last_id
    <2>1. n > 0
      BY <1>6, <1>7, <1>10, SeqLen
    <2>2. rows[1] = feed[from] /\ from \in 1..Len(feed)
      BY <1>1, <1>3, <1>6, <1>7, <1>8, <2>1
    <2>3. last_id < rows[1]
      BY <1>1, <1>3, <2>2 DEF First
    <2>4. ASSUME NEW j \in 1..Len(feed), feed[j] < rows[1] PROVE feed[j] <= last_id
      <3>1. j < from
        BY <1>1, <2>2, <2>4
      <3>2. ~(feed[j] > last_id)
        <4>1. feed[j] > last_id <=> j >= from
          BY <1>1, <1>3 DEF First
        <4>2. ~(j >= from)
          BY <1>1, <1>3, <3>1
        <4> QED BY <4>1, <4>2
      <3> QED BY <1>1, <3>2
    <2> QED BY <2>3, <2>4, InFeed
  <1> QED BY <1>7, <1>9, <1>10 DEF rows, n
\* The steps that neither read nor write rows: a cursor moves to the place of another.
LEMMA CursorsKeep ==
  ASSUME ArchiveInv, NextDay \/ DrainTop \/ Roll \/ Drained \/ Save \/ Wake \/ RedisError \/ Crash \/ Restart
  PROVE  ArchiveInv' /\ files' = files
  <1> USE DEF ArchiveInv
  <1>1. /\ UNCHANGED <<feed, added, files>> /\ page' \in {page, <<>>}
        /\ {last_id', cursor', disk'} \subseteq {last_id, cursor, disk, NoCursor}
    BY DEF NextDay, DrainTop, Roll, Drained, Save, Wake, RedisError, Crash, Restart, archive_loop, archive_out
  <1>2. ArchiveTyped'
    <2>1. /\ feed' \in Seq(Nat \ {0}) /\ added' \in Nat /\ files' \in [1..Days -> Seq(Nat)]
          /\ last_id' \in Nat /\ cursor' \in Nat /\ disk' \in Nat /\ page' \in Seq(Nat \ {0})
      <3>1. feed' \in Seq(Nat \ {0}) /\ added' \in Nat /\ files' \in [1..Days -> Seq(Nat)]
        BY <1>1 DEF ArchiveTyped
      <3>2. last_id' \in Nat /\ cursor' \in Nat /\ disk' \in Nat
        BY <1>1 DEF ArchiveTyped, NoCursor
      <3>3. page' \in Seq(Nat \ {0})
        <4>1. <<>> \in Seq(Nat \ {0})
          BY EmptySeq
        <4> QED BY <1>1, <4>1 DEF ArchiveTyped
      <3> QED BY <3>1, <3>2, <3>3
    <2>2. apc' \in {"top", "range", "drained", "save", "sleep", "down"} \cup Writing
      BY DEF ArchiveTyped, Writing, NextDay, DrainTop, Roll, Drained, Save, Wake, RedisError, Crash, Restart, archive_loop
    <2>3. today' \in 1..Days
      <3>1. Days \in Nat /\ today \in 1..Days /\ (today' = today \/ (today < Days /\ today' = today + 1))
        BY ArchiveAssumption
           DEF ArchiveTyped, NextDay, DrainTop, Roll, Drained, Save, Wake, RedisError, Crash, Restart
      <3> QED BY <3>1
    <2>4. open_day' \in 0..Days
      <3>1. Days \in Nat /\ today \in 1..Days /\ open_day \in 0..Days /\ open_day' \in {open_day, today, 0}
        BY ArchiveAssumption
           DEF ArchiveTyped, NoDay, NextDay, DrainTop, Roll, Drained, Save, Wake, RedisError, Crash, Restart, archive_out
      <3> QED BY <3>1
    <2> QED BY <2>1, <2>2, <2>3, <2>4 DEF ArchiveTyped
  <1>3. InStream'
    <2>1. \A i \in 1..Len(page') : page'[i] = page'[1] + i - 1 /\ page'[i] <= added'
      <3>1. CASE page' = <<>>
        BY <3>1, Len(<<>>) = 0
      <3>2. CASE page' = page
        BY <1>1, <3>2 DEF InStream
      <3> QED BY <1>1, <3>1, <3>2
    <2>2. last_id' <= added' /\ cursor' <= added' /\ disk' <= added'
      BY <1>1 DEF InStream, ArchiveTyped, NoCursor
    <2> QED BY <1>1, <2>1, <2>2 DEF InStream
  <1>4. InDrain'
    <2> USE DEF ArchiveTyped, InDrain, Writing
    <2>1. CASE NextDay
      BY <2>1 DEF NextDay, archive_loop, archive_out
    <2>2. CASE DrainTop
      BY <2>2 DEF DrainTop, archive_out
    <2>3. CASE Roll
      BY <2>3 DEF Roll, NoDay, archive_out
    <2>4. CASE Drained
      BY <2>4 DEF Drained, archive_out
    <2>5. CASE Save
      BY <2>5 DEF Save, archive_out
    <2>6. CASE Wake
      BY <2>6 DEF Wake, archive_out
    <2>7. CASE RedisError
      BY <2>7 DEF RedisError, archive_out
    <2>8. CASE Crash
      BY <2>8 DEF Crash
    <2>9. CASE Restart
      BY <2>9 DEF Restart, archive_out
    <2> QED BY <2>1, <2>2, <2>3, <2>4, <2>5, <2>6, <2>7, <2>8, <2>9
  <1>5. Passed'
    <2>1. Archived' = Archived
      BY <1>1, SameArchive
    <2>2. \A at \in {last_id', cursor', disk'} : Behind(at) \subseteq Archived
      <3>1. Behind(NoCursor) = {}
        BY InFeed DEF Behind, NoCursor
      <3> QED BY <1>1, <3>1 DEF Passed
    <2>3. page' # <<>> => page' = page
      BY <1>1
    <2>4. \A at : {id \in ToSet(feed') : id <= at} = Behind(at)
      BY <1>1 DEF Behind
    <2>5. /\ {id \in ToSet(feed') : id <= cursor'} \subseteq Archived
          /\ {id \in ToSet(feed') : id <= disk'} \subseteq Archived
          /\ {id \in ToSet(feed') : id <= last_id'} \subseteq Archived
      BY <2>2, <2>4
    <2>6. page' # <<>> => {id \in ToSet(feed') : id <= page'[1] - 1} \subseteq Archived
      BY <2>3, <2>4 DEF Passed
    <2> QED BY <2>1, <2>5, <2>6 DEF Passed, Behind
  <1> QED BY <1>1, <1>2, <1>3, <1>4, <1>5

LEMMA ReadBatchKeeps ==
  ASSUME ArchiveInv, ReadBatch
  PROVE  ArchiveInv' /\ files' = files
  <1> USE DEF ArchiveInv
  <1> DEFINE rows == SubSeq(Newer, 1, IF Len(Newer) < PageSize THEN Len(Newer) ELSE PageSize)
  <1>1. /\ apc = "range" /\ page' = rows /\ apc' = IF rows = <<>> THEN "drained" ELSE "roll"
        /\ UNCHANGED <<feed, added, last_id, cursor, disk, today, open_day, files>>
    BY DEF ReadBatch, archive_out
  <1>2. /\ rows \in Seq(Nat \ {0})
        /\ \A i \in 1..Len(rows) : rows[i] = rows[1] + i - 1 /\ rows[i] <= added
        /\ rows # <<>> => /\ last_id < rows[1]
                          /\ \A id \in ToSet(feed) : id < rows[1] => id <= last_id
    BY NewerRows
  <1> HIDE DEF rows
  <1>3. ArchiveTyped' /\ InStream' /\ InDrain'
    <2>1. ArchiveTyped'
      BY <1>1, <1>2 DEF ArchiveTyped, Writing
    <2>2. InStream'
      BY <1>1, <1>2 DEF InStream
    <2>3. InDrain'
      BY <1>1, <1>2 DEF InDrain, Writing
    <2> QED BY <2>1, <2>2, <2>3
  <1>4. Passed'
    <2>1. Archived' = Archived
      BY <1>1, SameArchive
    <2>2. ASSUME rows # <<>> PROVE {id \in ToSet(feed) : id <= rows[1] - 1} \subseteq Archived
      <3>1. 1 \in 1..Len(rows) /\ rows[1] \in Nat
        BY <1>2, <2>2, SeqLen
      <3>2. ASSUME NEW id \in ToSet(feed), id <= rows[1] - 1 PROVE id \in Behind(last_id)
        BY <1>2, <2>2, <3>1, <3>2, InFeed DEF Behind
      <3> QED BY <3>2 DEF Passed
    <2> QED BY <1>1, <2>1, <2>2 DEF Passed, Behind
  <1> QED BY <1>1, <1>3, <1>4

LEMMA InArchive ==
  /\ \A id : id \in Archived <=> id # Header /\ \E d \in 1..Days : id \in ToSet(files[d])
  /\ \A id : id \in Archived' <=> id # Header /\ \E d \in 1..Days : id \in ToSet(files'[d])
  <1>1. \A id : id \in UNION {ToSet(files[d]) : d \in 1..Days} <=> \E d \in 1..Days : id \in ToSet(files[d])
    BY Zenon
  <1>2. \A id : id \in UNION {ToSet(files'[d]) : d \in 1..Days} <=> \E d \in 1..Days : id \in ToSet(files'[d])
    BY Zenon
  <1>3. \A id : id \in Archived <=> id \in UNION {ToSet(files[d]) : d \in 1..Days} /\ id # Header
    BY Zenon DEF Archived
  <1>4. \A id : id \in Archived' <=> id \in UNION {ToSet(files'[d]) : d \in 1..Days} /\ id # Header
    BY Zenon DEF Archived, Header, ToSet
  <1> QED BY <1>1, <1>2, <1>3, <1>4

LEMMA AppendSet ==
  ASSUME NEW s \in Seq(Nat), NEW row \in Nat
  PROVE  ToSet(s) \subseteq ToSet(Append(s, row)) /\ row \in ToSet(Append(s, row))
  <1> DEFINE all == Append(s, row)
  <1>1. /\ all \in Seq(Nat) /\ Len(all) = Len(s) + 1 /\ Len(s) \in Nat
        /\ \A i \in 1..Len(s) : all[i] = s[i]
        /\ all[Len(s) + 1] = row
    BY AppendSeq
  <1> HIDE DEF all
  <1>2. ToSet(s) = {s[i] : i \in 1..Len(s)} /\ ToSet(all) = {all[i] : i \in 1..Len(all)}
    BY <1>1, SeqLen DEF ToSet
  <1>3. ToSet(s) \subseteq ToSet(all) /\ row \in ToSet(all)
    BY <1>1, <1>2
  <1> QED BY <1>3 DEF all

\* A row put at the end of the open day's file is in the archive, with all that was there.
LEMMA Filed ==
  ASSUME ArchiveTyped, NEW row \in Nat, open_day # NoDay,
         files' = [files EXCEPT ![open_day] = Append(@, row)]
  PROVE  /\ files' \in [1..Days -> Seq(Nat)] /\ Archived \subseteq Archived'
         /\ row # Header => row \in Archived'
         /\ \A d \in 1..Days : IF d = open_day THEN Last(files'[d]) = row ELSE files'[d] = files[d]
  <1>1. open_day \in 1..Days /\ files[open_day] \in Seq(Nat)
    <2>1. Days \in Nat /\ open_day \in 0..Days /\ open_day # 0
      BY ArchiveAssumption DEF ArchiveTyped, NoDay
    <2>2. open_day \in 1..Days
      BY <2>1
    <2> QED BY <2>2 DEF ArchiveTyped
  <1>2. /\ files'[open_day] = Append(files[open_day], row)
        /\ \A d \in 1..Days : d # open_day => files'[d] = files[d]
    BY <1>1 DEF ArchiveTyped
  <1>3. Append(files[open_day], row) \in Seq(Nat)
    BY <1>1, AppendSeq
  <1>4. files' \in [1..Days -> Seq(Nat)]
    BY <1>1, <1>3 DEF ArchiveTyped
  <1>5. \A d \in 1..Days : ToSet(files[d]) \subseteq ToSet(files'[d])
    <2> SUFFICES ASSUME NEW d \in 1..Days PROVE ToSet(files[d]) \subseteq ToSet(files'[d])
      OBVIOUS
    <2>1. CASE d = open_day
      BY <1>1, <1>2, <2>1, AppendSet
    <2>2. CASE d # open_day
      BY <1>2, <2>2
    <2> QED BY <2>1, <2>2
  <1>6. Archived \subseteq Archived'
    <2> SUFFICES ASSUME NEW id \in Archived PROVE id \in Archived'
      OBVIOUS
    <2>1. PICK d \in 1..Days : id \in ToSet(files[d]) /\ id # Header
      BY InArchive
    <2>2. id \in ToSet(files'[d])
      BY <1>5, <2>1
    <2> QED BY <2>1, <2>2, InArchive
  <1>7. ASSUME row # Header PROVE row \in Archived'
    <2>1. row \in ToSet(files'[open_day])
      BY <1>1, <1>2, AppendSet
    <2> QED BY <1>1, <1>7, <2>1, InArchive
  <1>8. Last(files'[open_day]) = row
    BY <1>1, <1>2, AppendSeq DEF Last
  <1> QED BY <1>1, <1>2, <1>4, <1>6, <1>7, <1>8
LEMMA WriteHeaderKeeps ==
  ASSUME ArchiveInv, WriteHeader
  PROVE  ArchiveInv'
  <1> USE DEF ArchiveInv
  <1>1. /\ apc = "header" /\ apc' = "write" /\ open_day # NoDay
        /\ files' = [files EXCEPT ![open_day] = Append(@, Header)]
        /\ UNCHANGED <<feed, added, last_id, page, cursor, disk, today, open_day>>
    BY DEF WriteHeader, InDrain
  <1>2. files' \in [1..Days -> Seq(Nat)] /\ Archived \subseteq Archived'
    <2>1. Header \in Nat
      BY DEF Header
    <2> QED BY <1>1, <2>1, Filed
  <1>3. ArchiveTyped' /\ InStream' /\ InDrain'
    <2>1. ArchiveTyped'
      BY <1>1, <1>2 DEF ArchiveTyped, Writing
    <2>2. InStream'
      BY <1>1 DEF InStream
    <2>3. InDrain'
      BY <1>1 DEF InDrain, Writing
    <2> QED BY <2>1, <2>2, <2>3
  <1>4. Passed'
    BY <1>1, <1>2 DEF Passed, Behind
  <1> QED BY <1>3, <1>4

\* What a row changes.
LEMMA RowWritten ==
  ASSUME ArchiveInv, WriteRow
  PROVE  /\ apc = "write" /\ open_day # NoDay /\ page # <<>> /\ last_id < page[1] /\ page[1] <= added
         /\ page[1] \in Nat \ {0}
         /\ files' = [files EXCEPT ![open_day] = Append(@, page[1])]
         /\ page' \in Seq(Nat \ {0})
         /\ \A i \in 1..Len(page') : page'[i] = page[1] + i /\ page'[i] <= added
         /\ last_id' = (IF page' # <<>> THEN last_id ELSE page[1])
         /\ IF page' # <<>> THEN apc' = apc /\ page'[1] = page[1] + 1 ELSE apc' \in {"drained", "range"}
         /\ UNCHANGED <<feed, added, cursor, disk, today, open_day>>
  <1> USE DEF ArchiveInv
  <1>1. /\ apc = "write" /\ page' = Tail(page)
        /\ files' = [files EXCEPT ![open_day] = Append(@, Head(page))]
        /\ page' # <<>> => UNCHANGED <<apc, last_id>>
        /\ page' = <<>> => last_id' = Head(page) /\ apc' \in {"drained", "range"}
        /\ UNCHANGED <<feed, added, cursor, disk, today, open_day>>
    BY DEF WriteRow
  <1>2. page # <<>> /\ open_day # NoDay /\ page \in Seq(Nat \ {0})
    BY <1>1 DEF InDrain, Writing, ArchiveTyped
  <1>3. /\ page' \in Seq(Nat \ {0}) /\ Len(page') = Len(page) - 1 /\ Len(page) \in Nat \ {0}
        /\ \A i \in 1..Len(page) - 1 : page'[i] = page[i + 1]
        /\ Head(page) = page[1] /\ page[1] \in Nat \ {0}
    BY <1>1, <1>2, TailSeq
  <1>4. \A i \in 1..Len(page') : page'[i] = page[1] + i /\ page'[i] <= added
    <2> SUFFICES ASSUME NEW i \in 1..Len(page') PROVE page'[i] = page[1] + i /\ page'[i] <= added
      OBVIOUS
    <2>1. i + 1 \in 1..Len(page) /\ i \in 1..Len(page) - 1
      BY <1>3
    <2>2. page[i + 1] = page[1] + (i + 1) - 1 /\ page[i + 1] <= added
      BY <2>1 DEF InStream
    <2> QED BY <1>3, <2>1, <2>2
  <1>5. page[1] <= added /\ last_id < page[1]
    BY <1>2, <1>3 DEF InStream, InDrain
  <1>6. page' # <<>> => page'[1] = page[1] + 1
    <2>1. page' # <<>> => 1 \in 1..Len(page')
      BY <1>3, SeqLen
    <2> QED BY <1>4, <2>1
  <1> QED BY <1>1, <1>2, <1>3, <1>4, <1>5, <1>6

LEMMA WriteRowKeeps ==
  ASSUME ArchiveInv, WriteRow
  PROVE  ArchiveInv'
  <1> USE DEF ArchiveInv
  <1>1. added \in Nat /\ last_id \in Nat /\ cursor \in Nat /\ disk \in Nat /\ page[1] \in Nat \ {0}
    BY RowWritten DEF ArchiveTyped
  <1>2. files' \in [1..Days -> Seq(Nat)] /\ Archived \subseteq Archived' /\ page[1] \in Archived'
    <2>1. PICK row \in Nat : row = page[1] /\ row # Header
      BY <1>1 DEF Header
    <2> QED BY <2>1, RowWritten, Filed
  <1>3. ArchiveTyped'
    BY <1>1, <1>2, RowWritten DEF ArchiveTyped, Writing
  <1>4. InStream'
    <2>1. page' # <<>> => page'[1] = page[1] + 1
      BY RowWritten
    <2>2. \A i \in 1..Len(page') : page'[i] = page'[1] + i - 1 /\ page'[i] <= added'
      <3> SUFFICES ASSUME NEW i \in 1..Len(page') PROVE page'[i] = page'[1] + i - 1 /\ page'[i] <= added'
        OBVIOUS
      <3>1. page' # <<>>
        BY RowWritten, SeqLen
      <3> QED BY <1>1, <2>1, <3>1, RowWritten
    <2>3. last_id' <= added'
      BY RowWritten DEF InStream
    <2> QED BY <2>2, <2>3, RowWritten DEF InStream
  <1>5. InDrain'
    <2>1. disk <= cursor /\ cursor <= last_id
      BY RowWritten DEF InDrain, Writing
    <2> QED BY <1>1, <2>1, RowWritten DEF InDrain, Writing
  <1>6. Passed'
    <2>1. ASSUME NEW id \in ToSet(feed), id <= page[1] PROVE id \in Archived'
      <3>1. id \in Nat
        BY InFeed
      <3>2. CASE id = page[1]
        BY <1>2, <3>2
      <3>3. CASE id <= page[1] - 1
        BY <1>2, <3>3, RowWritten DEF Passed, Behind
      <3> QED BY <1>1, <2>1, <3>1, <3>2, <3>3
    <2>2. page' # <<>> => page'[1] - 1 = page[1]
      BY <1>1, RowWritten
    <2>3. \A id \in ToSet(feed) : (id <= cursor \/ id <= disk \/ id <= last_id) => id \in Archived'
      BY <1>2 DEF Passed, Behind
    <2>4. \A id \in ToSet(feed) : id <= last_id' => id \in Archived'
      BY <2>1, <2>3, RowWritten
    <2>5. feed' = feed /\ cursor' = cursor /\ disk' = disk
      BY RowWritten
    <2> QED BY <2>1, <2>2, <2>3, <2>4, <2>5 DEF Passed, Behind
  <1> QED BY <1>3, <1>4, <1>5, <1>6

\* What the archiver has passed, read, written and saved, at every moment, through any crash.
THEOREM ArchiveInvariance == MCSpec => []ArchiveInv
  <1>1. MCInit => ArchiveInv
    <2> SUFFICES ASSUME ArchiveInit PROVE ArchiveInv
      BY DEF MCInit
    <2>1. <<>> \in Seq(Nat \ {0}) /\ <<>> \in Seq(Nat) /\ Len(<<>>) = 0
      BY EmptySeq
    <2>2. 1 \in 1..Days /\ 0 \in 0..Days
      BY ArchiveAssumption
    <2>3. ArchiveTyped /\ InStream /\ InDrain
      BY <2>1, <2>2 DEF ArchiveInit, ArchiveTyped, InStream, InDrain, Writing, NoCursor, NoDay
    <2>4. ToSet(feed) = {}
      BY <2>1, InFeed, <2>3 DEF ArchiveInit
    <2> QED BY <2>3, <2>4 DEF ArchiveInv, Passed, Behind, ArchiveInit
  <1>2. ArchiveInv /\ [MCNext]_all_vars => ArchiveInv'
    <2> SUFFICES ASSUME ArchiveInv, [MCNext]_all_vars PROVE ArchiveInv'
      OBVIOUS
    <2>1. CASE ArchiveNext
      BY <2>1, XaddKeeps, CursorsKeep, ReadBatchKeeps, WriteHeaderKeeps, WriteRowKeeps DEF ArchiveNext, ArchiveStep
    <2>2. CASE UNCHANGED archive_vars
      <3>1. UNCHANGED <<feed, added, apc, last_id, page, cursor, disk, today, open_day, files>>
        BY <2>2 DEF archive_vars, archive_loop, archive_out
      <3>2. ArchiveTyped' /\ InStream' /\ InDrain'
        BY <3>1 DEF ArchiveInv, ArchiveTyped, InStream, InDrain
      <3>3. Archived' = Archived
        BY <3>1, SameArchive
      <3>4. Passed'
        BY <3>1, <3>3 DEF ArchiveInv, Passed, Behind
      <3> QED BY <3>2, <3>4 DEF ArchiveInv
    <2> QED BY <2>1, <2>2 DEF MCNext, ReadoutStep, ArchiverStep, all_vars
  <1> QED BY <1>1, <1>2, PTL DEF MCSpec

\* An entry behind a cursor, the one in memory or the one on the disk, is in the archive: the
\* cursor moves after the rows, whatever was trimmed, failed or crashed (stream_archive.py).
THEOREM NothingPassedOver == MCSpec => []NothingIsPassedOver
  <1>1. ArchiveInv => NothingIsPassedOver
    BY DEF ArchiveInv, Passed, NothingIsPassedOver
  <1> QED BY <1>1, ArchiveInvariance, PTL

\* A row that goes out was not covered by the cursor, in memory or saved, nor by the place of
\* the drain: only what no saved cursor covers is written again (stream_archive.py).
THEOREM OnlyUnsavedRepeats == MCSpec => RepeatsOnlyUnsaved
  <1> DEFINE Repeat == \A d \in 1..Days : Len(files'[d]) > Len(files[d]) =>
                         LET row == Last(files'[d])
                         IN  row = Header \/ (row > disk /\ row > last_id /\ row > cursor)
  <1>1. ArchiveInv /\ [MCNext]_all_vars => [Repeat]_archive_vars
    <2> SUFFICES ASSUME ArchiveInv, [MCNext]_all_vars, UNCHANGED archive_vars \/ ArchiveNext
                 PROVE  UNCHANGED archive_vars \/ Repeat
      BY DEF MCNext, ReadoutStep, ArchiverStep, all_vars
    <2> USE DEF ArchiveInv
    <2>1. \A d \in 1..Days : Len(files[d]) \in Nat
      BY SeqLen DEF ArchiveTyped
    <2>2. CASE files' = files
      BY <2>1, <2>2
    <2>3. CASE WriteHeader
      <3>1. Header \in Nat /\ open_day # NoDay /\ files' = [files EXCEPT ![open_day] = Append(@, Header)]
        BY <2>3 DEF WriteHeader, InDrain, Header
      <3>2. \A d \in 1..Days : IF d = open_day THEN Last(files'[d]) = Header ELSE files'[d] = files[d]
        BY <3>1, Filed
      <3> QED BY <2>1, <3>2
    <2>4. CASE WriteRow
      <3>1. PICK row \in Nat : row = page[1]
        BY <2>4, RowWritten
      <3>2. row > last_id /\ row > cursor /\ row > disk
        <4>1. last_id < row /\ disk <= cursor /\ cursor <= last_id
          BY <2>4, <3>1, RowWritten DEF InDrain, Writing
        <4> QED BY <3>1, <4>1 DEF ArchiveTyped
      <3>3. \A d \in 1..Days : IF d = open_day THEN Last(files'[d]) = row ELSE files'[d] = files[d]
        BY <2>4, <3>1, RowWritten, Filed
      <3> QED BY <2>1, <3>2, <3>3
    <2> QED BY <2>2, <2>3, <2>4, XaddKeeps, CursorsKeep, ReadBatchKeeps DEF ArchiveNext, ArchiveStep
  <1>2. RepeatsOnlyUnsaved <=> [][Repeat]_archive_vars
    BY DEF RepeatsOnlyUnsaved
  <1> QED BY <1>1, <1>2, ArchiveInvariance, PTL DEF MCSpec
=============================================================================
