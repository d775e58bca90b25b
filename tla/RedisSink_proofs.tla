-------------------------- MODULE RedisSink_proofs --------------------------
(***************************************************************************)
(* Proofs about RedisSink and its two clients, the publisher and the smoke *)
(* test, for every set of codes, every size of the queue and the batches,  *)
(* any events, times, faults and restarts: the ledger closes, an event     *)
(* enters a stream at most once and in order, the guard covers the server, *)
(* and the smoke test's pass is true and leaves nothing behind.            *)
(***************************************************************************)
EXTENDS MCRedisSink, SequenceTheorems, FiniteSetTheorems, TLAPS

Record == [n : Nat \ {0}, ra : Nat \ {0}, code : Codes, count : Nat]
Command == UNION {[rec : {r}, id : [KeysOf(r.code) -> Nat \ {0}], run : Nat \ {0}] : r \in Record}
Connection == Seq(Command) \ {<<>>}
EntryType == [id : Nat \ {0}, n : Nat \ {0}, code : Codes, count : Nat, run : Nat \ {0}]

MainTyped ==
  /\ dpc \in Submitting \cup {"drain", "join", "snapshot", "dead"}
  /\ dpc \in Submitting => rec \in Record
  /\ drained \in Nat /\ counts \in [Codes -> Nat]
  /\ queue \in Seq(Record) /\ stop \in BOOLEAN
WriterTyped ==
  /\ wpc \in {"top", "connect", "ready", "hset", "hexpire", "take", "idle", "build", "execute",
              "ended", "dead"}
  /\ batch \in Seq(Record) /\ pipe \in Seq(Command)
  /\ last_ratime \in [Key -> Nat] /\ failed \in BOOLEAN
RedisTyped ==
  /\ stream \in [Key -> Seq(EntryType)] /\ late \in Seq(Connection)
CountersTyped ==
  /\ published \in Nat /\ queue_dropped \in Nat /\ redis_dropped \in Nat
  /\ runs \in Nat \ {0} /\ arrived \in Nat /\ uncounted \in Nat /\ rejected \in BOOLEAN
TypeOK == MainTyped /\ WriterTyped /\ RedisTyped /\ CountersTyped

\* Where the two threads can be, and what they then hold.
Places ==
  /\ dpc = "dead" <=> wpc = "dead"
  /\ wpc \notin {"take", "build", "execute"} => batch = <<>>
  /\ wpc \notin {"build", "execute"} => pipe = <<>>
  /\ wpc = "build" => Len(pipe) <= Len(batch)
  /\ failed => wpc = "execute"

\* The publisher alone meets a full queue; the smoke test never submits beside it.
Clients ==
  /\ smoke = "off" => Len(queue) <= QueueSize
  /\ smoke # "off" => dpc \in {"drain", "dead"}
  /\ smoke \in {"ping", "submit"} => dpc = "drain" /\ drained < N

\* The ledger, and how much of it is in the hands of the main thread.
Books ==
  /\ LedgerConserved
  /\ dpc = "count" => Len(queue) < QueueSize
  /\ dpc \in Submitting \cup {"drain", "dead"} => uncounted = 0
  /\ dpc = "dead" => drained = 0

BooksInv == TypeOK /\ Places /\ Clients /\ Books
-----------------------------------------------------------------------------
\* The records that are still to be written come in the order in which they were
\* drained: the batch, the queue, the record in hand.
InLine ==
  /\ \A i, j \in 1..Len(batch) : i < j => batch[i].n < batch[j].n
  /\ \A i, j \in 1..Len(queue) : i < j => queue[i].n < queue[j].n
  /\ \A i \in 1..Len(batch), j \in 1..Len(queue) : batch[i].n < queue[j].n
  /\ dpc \in Submitting => /\ \A i \in 1..Len(batch) : batch[i].n < rec.n
                           /\ \A j \in 1..Len(queue) : queue[j].n < rec.n
                           /\ rec.n <= arrived
  /\ \A i \in 1..Len(batch) : batch[i].n <= arrived
  /\ \A j \in 1..Len(queue) : queue[j].n <= arrived

\* The entries of a stream, and those that the commands which are still in a pipeline,
\* or in an abandoned connection, would make of it.
Piped == {pipe[i] : i \in 1..Len(pipe)}
Abandoned == UNION {{late[c][i] : i \in 1..Len(late[c])} : c \in 1..Len(late)}
Made(cmds, k) == {Entry(w, k) : w \in {v \in cmds : k \in KeysOf(v.rec.code)}}
Stored(k) == {stream[k][i] : i \in 1..Len(stream[k])}
Issued(k) == Stored(k) \cup Made(Abandoned, k) \cup Made(Piped, k)

\* Two entries of a stream agree: the same event has one ID, and within a run the IDs
\* are in the order of the events.
Agree(x, y) ==
  /\ x.n = y.n => x.run = y.run /\ x.id = y.id
  /\ x.run = y.run /\ x.n < y.n => x.id < y.id
AllAgree == \A k \in Key : \A x, y \in Issued(k) : Agree(x, y)

\* The guard's memory covers what this run has issued.
Covered ==
  \A k \in Key : \A x \in Issued(k) :
    /\ x.run <= runs /\ x.n <= arrived
    /\ x.run = runs /\ wpc # "dead" => x.id <= last_ratime[k]

\* What is issued is older than what still waits to be, and within the pipeline older
\* than what comes after it.
Waiting ==
  {queue[j].n : j \in 1..Len(queue)}
    \cup (IF dpc \in Submitting THEN {rec.n} ELSE {})
    \cup {batch[i].n : i \in {j \in 1..Len(batch) : wpc \in {"take", "build"} /\ j > Len(pipe)}}
IssuedBefore == \A k \in Key : \A x \in Issued(k) : \A n \in Waiting : x.n < n
PipeInOrder == \A i, j \in 1..Len(pipe) : i < j => pipe[i].rec.n < pipe[j].rec.n
PipeLast ==
  \A k \in Key, i \in 1..Len(pipe) :
    \A x \in Stored(k) \cup Made(Abandoned, k) : x.n < pipe[i].rec.n
InTurn == IssuedBefore /\ PipeInOrder /\ PipeLast

Rising == \A k \in Key : \A i, j \in 1..Len(stream[k]) : i < j => stream[k][i].id < stream[k][j].id
Unrefused == runs = 1 => ~rejected

OrderInv == InLine /\ AllAgree /\ Covered /\ InTurn /\ Rising /\ Unrefused
-----------------------------------------------------------------------------
\* An event's record is in the feed, and in every stream that its feed entry's code has.
IsIn(n) ==
  \E i \in 1..Len(stream[StreamKey]) :
    /\ stream[StreamKey][i].n = n
    /\ \A k \in KeysOf(stream[StreamKey][i].code) : \E j \in 1..Len(stream[k]) : stream[k][j].n = n

\* Of a pipeline, the records that were sent and not refused are in.
SentIsIn ==
  /\ wpc = "build" => \A i \in 1..Len(pipe) : pipe[i].rec = batch[i]
  /\ wpc = "execute" =>
       /\ Len(pipe) <= Len(batch)
       /\ \A i \in 1..Len(pipe) : pipe[i].rec = batch[Len(batch) - Len(pipe) + i]
  /\ smoke = "off" /\ wpc = "execute" /\ ~failed =>
       \A i \in 1..Len(batch) - Len(pipe) : IsIn(batch[i].n)
  /\ smoke = "off" => \A n \in acked : IsIn(n)

\* The smoke test's records carry its own codes, and so write its own keys only.
SmokeCodes == {SmokeEvents[i].code : i \in DOMAIN SmokeEvents}
OwnKeys ==
  smoke # "off" =>
    /\ \A j \in 1..Len(queue) : queue[j].code \in SmokeCodes
    /\ \A i \in 1..Len(batch) : batch[i].code \in SmokeCodes
    /\ \A w \in Piped \cup Abandoned : w.rec.code \in SmokeCodes
    /\ \A k \in Key \ SmokeKeys : stream[k] = <<>>

\* Once the keys are deleted nothing writes any more.
NothingToCome ==
  gone => /\ smoke \in {"done", "exited"}
          /\ wpc \in {"ended", "dead"} /\ late = <<>>
          /\ SmokeLeavesNothing

-----------------------------------------------------------------------------
\* A test is under way, and has not deleted its keys.
Testing == smoke \notin {"off", "done", "exited"}

\* The events of this run of the test follow each other, through the queue and the batch.
FirstEvent == arrived - drained
Handled == published + redis_dropped
Consecutive ==
  smoke # "off" /\ dpc # "dead" =>
    /\ queue_dropped = 0 /\ drained <= arrived /\ drained <= N
    /\ \A i \in 1..Len(batch) : batch[i].n = FirstEvent + Handled + i
    /\ \A j \in 1..Len(queue) : queue[j].n = FirstEvent + Handled + Len(batch) + j
    /\ \A x \in Issued(StreamKey) : x.run = runs => x.n > FirstEvent
    /\ \A i \in 1..Len(pipe) : pipe[i].run = runs

\* While Redis has dropped nothing, what is published or sent is in the feed.
InFeed(n) == \E i \in 1..Len(stream[StreamKey]) : stream[StreamKey][i].n = n /\ stream[StreamKey][i].run = runs
Arrives ==
  /\ Testing /\ redis_dropped = 0 =>
       \A n \in FirstEvent + 1..FirstEvent + published : InFeed(n)
  /\ Testing /\ wpc = "execute" /\ ~failed =>
       \A i \in 1..Len(batch) - Len(pipe) : InFeed(batch[i].n)

\* The server's field: an old server never lets it expire, and the writer that publishes
\* has written it first.
Field ==
  /\ watchdog \in {"absent", "alive", "expiring"}
  /\ old => smoke # "off" /\ watchdog # "expiring"
Unstopped == {"ping", "submit", "wait", "stats", "httl", "stop", "give_up"}
Phases ==
  smoke # "off" => /\ dpc = "dead" <=> smoke = "exited"
                   /\ dpc = "dead" \/ smoke \in Unstopped => ~stop
Written ==
  Testing /\ ~stop /\ (published > 0 \/ wpc \in {"hexpire", "take", "build", "execute"})
    => watchdog # "absent"

\* What the test has found so far holds still: a writer that has published all has
\* nothing left to do.
Judged == {"httl", "stop", "join", "feed", "times", "counts"}
Found ==
  /\ smoke \in Judged => published = N
  /\ smoke \in {"stop", "join"} /\ verdict = "none" => ~old
  /\ smoke \in {"feed", "times", "counts"} => verdict = "none" /\ ~old
  /\ verdict = "pass" => smoke \in {"delete", "done", "exited"}
  /\ verdict = "pass" /\ smoke = "delete" => published = N /\ ~old
  /\ verdict # "no_field"
Findings == Field /\ Phases /\ Written /\ Found

TestInv == Consecutive /\ Arrives /\ Findings

IInv == BooksInv /\ OrderInv /\ SentIsIn /\ OwnKeys /\ NothingToCome /\ TestInv

-----------------------------------------------------------------------------
(***************************************************************************)
(* Sequences and keys.                                                     *)
(***************************************************************************)
LEMMA AppendSeq ==
  ASSUME NEW S, NEW s \in Seq(S), NEW e \in S
  PROVE  /\ Append(s, e) \in Seq(S) /\ Len(Append(s, e)) = Len(s) + 1
         /\ Len(s) \in Nat
         /\ \A i \in 1..Len(s) + 1 : Append(s, e)[i] = IF i <= Len(s) THEN s[i] ELSE e
  <1>1. Len(s) \in Nat
    BY LenProperties
  <1> QED BY <1>1, AppendProperties

LEMMA TailSeq ==
  ASSUME NEW S, NEW s \in Seq(S), s # <<>>
  PROVE  /\ Tail(s) \in Seq(S) /\ Len(Tail(s)) = Len(s) - 1 /\ Len(s) \in Nat \ {0}
         /\ \A i \in 1..Len(s) - 1 : Tail(s)[i] = s[i + 1]
         /\ Head(s) = s[1] /\ Head(s) \in S
  <1>1. Len(s) \in Nat \ {0}
    BY EmptySeq
  <1>2. Head(s) = s[1]
    OBVIOUS
  <1> QED BY <1>1, <1>2, HeadTailProperties

LEMMA NoSeq ==
  ASSUME NEW S
  PROVE  <<>> \in Seq(S) /\ Len(<<>>) = 0
  BY EmptySeq

LEMMA SeqLen ==
  ASSUME NEW S, NEW s \in Seq(S)
  PROVE  /\ Len(s) \in Nat /\ DOMAIN s = 1..Len(s)
         /\ \A i \in 1..Len(s) : s[i] \in S
         /\ s # <<>> <=> Len(s) > 0
  <1>1. Len(s) \in Nat /\ DOMAIN s = 1..Len(s)
    BY LenProperties
  <1>2. \A i \in 1..Len(s) : s[i] \in S
    BY ElementOfSeq
  <1>3. s # <<>> <=> Len(s) > 0
    BY <1>1, EmptySeq
  <1> QED BY <1>1, <1>2, <1>3

\* An element gone, the others are those that were there.
LEMMA RemoveSeq ==
  ASSUME NEW S, NEW s \in Seq(S), NEW c \in 1..Len(s)
  PROVE  /\ RemoveAt(s, c) \in Seq(S)
         /\ \A i \in 1..Len(RemoveAt(s, c)) : \E j \in 1..Len(s) : RemoveAt(s, c)[i] = s[j]
  <1> DEFINE front == SubSeq(s, 1, c - 1)
             back == SubSeq(s, c + 1, Len(s))
  <1>1. Len(s) \in Nat /\ c \in Nat \ {0} /\ \A i \in 1..Len(s) : s[i] \in S
    BY SeqLen
  <1>2. /\ front \in Seq(S) /\ Len(front) = c - 1
        /\ \A i \in 1..c - 1 : front[i] = s[i]
    <2>1. \A i \in 1..c - 1 : s[i] \in S
      BY <1>1
    <2>2. /\ front \in Seq(S) /\ Len(front) = IF 1 <= c - 1 THEN c - 1 - 1 + 1 ELSE 0
          /\ \A i \in 1..c - 1 - 1 + 1 : front[i] = s[1 + i - 1]
      BY <1>1, <2>1, SubSeqProperties
    <2> QED BY <1>1, <2>2
  <1>3. /\ back \in Seq(S) /\ Len(back) = Len(s) - c
        /\ \A i \in 1..Len(s) - c : back[i] = s[c + i]
    <2>1. \A i \in c + 1..Len(s) : s[i] \in S
      BY <1>1
    <2>2. /\ back \in Seq(S)
          /\ Len(back) = IF c + 1 <= Len(s) THEN Len(s) - (c + 1) + 1 ELSE 0
          /\ \A i \in 1..Len(s) - (c + 1) + 1 : back[i] = s[c + 1 + i - 1]
      BY <1>1, <2>1, SubSeqProperties
    <2> QED BY <1>1, <2>2
  <1>4. RemoveAt(s, c) = front \o back
    BY DEF RemoveAt
  <1> HIDE DEF front, back
  <1>5. /\ front \o back \in Seq(S) /\ Len(front \o back) = Len(s) - 1
        /\ \A i \in 1..Len(s) - 1 :
             (front \o back)[i] = IF i <= c - 1 THEN front[i] ELSE back[i - (c - 1)]
    <2>1. /\ front \o back \in Seq(S) /\ Len(front \o back) = Len(front) + Len(back)
          /\ \A i \in 1..Len(front) + Len(back) :
               (front \o back)[i] = IF i <= Len(front) THEN front[i] ELSE back[i - Len(front)]
      BY <1>2, <1>3, ConcatProperties
    <2>2. Len(front) = c - 1 /\ Len(front) + Len(back) = Len(s) - 1
      BY <1>1, <1>2, <1>3
    <2> QED BY <2>1, <2>2
  <1>6. ASSUME NEW i \in 1..Len(s) - 1
        PROVE  \E j \in 1..Len(s) : (front \o back)[i] = s[j]
    <2>1. CASE i <= c - 1
      <3>1. i \in 1..c - 1 /\ i \in 1..Len(s)
        BY <1>1, <2>1
      <3> QED BY <1>2, <1>5, <2>1, <3>1
    <2>2. CASE i > c - 1
      <3>1. i - (c - 1) \in 1..Len(s) - c /\ i + 1 \in 1..Len(s)
        BY <1>1, <2>2
      <3>2. (front \o back)[i] = s[i + 1]
        BY <1>1, <1>3, <1>5, <2>2, <3>1
      <3> QED BY <3>1, <3>2
    <2>3. i <= c - 1 \/ i > c - 1
      BY <1>1
    <2> QED BY <2>1, <2>2, <2>3
  <1> QED BY <1>4, <1>5, <1>6

LEMMA KeysTyped ==
  /\ \A c \in Codes : KeysOf(c) \subseteq Key /\ StreamKey \in KeysOf(c)
  /\ \A c \in Codes, k \in 0..3 : {WritesOf(c)[i] : i \in 1..k} \subseteq KeysOf(c)
  <1>1. \A c \in Codes : KeysOf(c) \subseteq Key /\ StreamKey \in KeysOf(c)
    BY DEF Key, KeysOf
  <1>2. ASSUME NEW c \in Codes, NEW i \in 1..3
        PROVE  WritesOf(c)[i] \in KeysOf(c)
    <2>1. i = 1 \/ i = 2 \/ i = 3
      OBVIOUS
    <2> QED BY <2>1 DEF WritesOf, KeysOf
  <1> QED BY <1>1, <1>2

LEMMA CommandTyped ==
  \A w \in Command : /\ w.rec \in Record /\ w.run \in Nat \ {0}
                     /\ w.id \in [KeysOf(w.rec.code) -> Nat \ {0}]
  BY DEF Command

LEMMA EntryTyped ==
  ASSUME NEW w \in Command, NEW k \in KeysOf(w.rec.code)
  PROVE  /\ Entry(w, k) \in EntryType
         /\ Entry(w, k).n = w.rec.n /\ Entry(w, k).run = w.run
         /\ Entry(w, k).id = w.id[k] /\ Entry(w, k).code = w.rec.code
  BY CommandTyped DEF Entry, EntryType, Record

-----------------------------------------------------------------------------
(***************************************************************************)
(* The books: every step of either thread keeps them.                      *)
(***************************************************************************)
LEMMA BooksInit == MCInit => BooksInv
  <1> SUFFICES ASSUME MCInit PROVE BooksInv
    OBVIOUS
  <1>1. Init /\ smoke \in {"off", "ping"}
    BY DEF MCInit, NoSmoke, SmokeInit
  <1>2. \A S : <<>> \in Seq(S)
    BY NoSeq
  <1>3. TypeOK
    <2>1. MainTyped
      BY <1>1, <1>2 DEF Init, MainTyped, NoCounts, Submitting
    <2>2. WriterTyped
      BY <1>1, <1>2 DEF Init, WriterTyped, NoIds
    <2>3. RedisTyped
      BY <1>1, <1>2 DEF Init, RedisTyped
    <2>4. CountersTyped
      <3>1. /\ published = 0 /\ queue_dropped = 0 /\ redis_dropped = 0
            /\ runs = 1 /\ arrived = 0 /\ uncounted = 0 /\ rejected = FALSE
        BY <1>1 DEF Init
      <3>2. rejected \in BOOLEAN
        BY <3>1
      <3> QED BY <3>1, <3>2 DEF CountersTyped
    <2> QED BY <2>1, <2>2, <2>3, <2>4 DEF TypeOK
  <1>4. Places
    BY <1>1 DEF Init, Places
  <1>5. N \in Nat \ {0}
    BY SmokeAssumption, EmptySeq DEF N
  <1>6. Clients
    BY <1>1, <1>5, NoSeq, SinkAssumption DEF Init, Clients
  <1>7. Books
    BY <1>1, NoSeq DEF Init, Books, LedgerConserved, InHand, Submitting
  <1> QED BY <1>3, <1>4, <1>6, <1>7 DEF BooksInv

\* An event is drained, and submitted: put, evict, count, put again.
LEMMA OnEventBooks ==
  ASSUME BooksInv, smoke = "off", UNCHANGED smoke,
         NEW ra \in 0..MaxRa, NEW code \in Codes, OnEvent(ra, code)
  PROVE  BooksInv'
  <1> USE DEF BooksInv, TypeOK
  <1>1. /\ dpc = "drain" /\ arrived' = arrived + 1 /\ ra \in Nat
        /\ UNCHANGED <<queue, stop, writer, stats, redis, runs, uncounted, acked, rejected>>
    BY SinkAssumption DEF OnEvent
  <1>2. WriterTyped' /\ RedisTyped' /\ CountersTyped' /\ Places'
    <2>1. wpc # "dead"
      BY <1>1 DEF Places
    <2>2. dpc' # "dead"
      BY <1>1 DEF OnEvent
    <2> QED BY <1>1, <2>1, <2>2
            DEF WriterTyped, RedisTyped, CountersTyped, Places, writer, stats, redis
  <1>3. CASE ra = 0
    BY <1>1, <1>2, <1>3
    DEF OnEvent, MainTyped, Clients, Books, LedgerConserved, InHand, Submitting, stats, writer
  <1>4. CASE ra # 0
    <2>1. /\ drained' = drained + 1 /\ counts' = [counts EXCEPT ![code] = @ + 1]
          /\ rec' = [n |-> arrived', ra |-> ra, code |-> code, count |-> counts'[code]]
          /\ dpc' = "put"
      BY <1>4 DEF OnEvent
    <2>2. rec' \in Record /\ counts' \in [Codes -> Nat]
      BY <1>1, <1>4, <2>1 DEF Record, MainTyped, CountersTyped
    <2>3. MainTyped'
      BY <1>1, <2>1, <2>2 DEF MainTyped, Submitting
    <2>4. Clients' /\ Books'
      BY <1>1, <2>1 DEF MainTyped, CountersTyped, WriterTyped, Clients, Books, LedgerConserved,
                        InHand, Submitting, stats, writer
    <2> QED BY <1>2, <2>3, <2>4
  <1> QED BY <1>3, <1>4

\* What the steps of a submit leave alone.
LEMMA SubmitChanges ==
  ASSUME BooksInv, Put \/ Evict \/ CountDrop \/ Reput
  PROVE  /\ UNCHANGED <<rec, drained, counts, stop, writer, published, redis_dropped, redis, history>>
         /\ dpc \in Submitting /\ rec \in Record /\ wpc # "dead"
         /\ Len(queue) \in Nat /\ queue \in Seq(Record)
  <1>1. /\ UNCHANGED <<rec, drained, counts, stop, writer, published, redis_dropped, redis, history>>
        /\ dpc \in Submitting
    BY DEF Put, Evict, CountDrop, Reput, stats, Submitting
  <1> QED BY <1>1, SeqLen DEF BooksInv, TypeOK, MainTyped, Places, Submitting

LEMMA SubmitBooks ==
  ASSUME BooksInv, smoke = "off", UNCHANGED smoke, Put \/ Evict \/ CountDrop \/ Reput
  PROVE  BooksInv'
  <1> USE DEF BooksInv, TypeOK
  <1>1. /\ UNCHANGED <<rec, drained, counts, stop, writer, published, redis_dropped, redis, history>>
        /\ dpc \in Submitting /\ rec \in Record /\ wpc # "dead"
        /\ Len(queue) \in Nat /\ queue \in Seq(Record)
    BY SubmitChanges
  <1>2. Len(queue) <= QueueSize /\ uncounted = 0 /\ QueueSize \in Nat \ {0}
    BY <1>1, SinkAssumption DEF Clients, Books
  <1>3. WriterTyped' /\ RedisTyped'
    BY <1>1 DEF WriterTyped, RedisTyped, writer, redis
  <1>4. /\ Append(queue, rec) \in Seq(Record) /\ Len(Append(queue, rec)) = Len(queue) + 1
        /\ queue # <<>> => Tail(queue) \in Seq(Record) /\ Len(Tail(queue)) = Len(queue) - 1
    BY <1>1, AppendSeq, TailSeq
  <1>5. /\ dpc' \in Submitting \cup {"drain"}
        /\ queue' \in Seq(Record) /\ Len(queue') \in Nat /\ Len(queue') <= QueueSize
        /\ queue_dropped' \in Nat
    <2>1. queue_dropped \in Nat
      BY DEF CountersTyped
    <2>2. CASE Put
      BY <1>1, <1>2, <1>4, <2>1, <2>2 DEF Put, Submitting, stats
    <2>3. CASE Evict
      BY <1>1, <1>2, <1>4, <2>1, <2>3 DEF Evict, Submitting, stats
    <2>4. CASE CountDrop
      BY <1>1, <1>2, <2>1, <2>4 DEF CountDrop, Submitting
    <2>5. CASE Reput
      BY SMTT(30), <1>1, <1>2, <1>4, <2>1, <2>5 DEF Reput, Submitting
    <2> QED BY <2>2, <2>3, <2>4, <2>5
  <1>6. MainTyped' /\ CountersTyped' /\ Places' /\ Clients'
    BY <1>1, <1>2, <1>5 DEF MainTyped, CountersTyped, Places, Clients, Submitting, history, writer
  <1>7. Books'
    <2>1. /\ drained \in Nat /\ published \in Nat /\ queue_dropped \in Nat /\ redis_dropped \in Nat
          /\ Len(batch) \in Nat
      BY SeqLen DEF MainTyped, CountersTyped, WriterTyped
    <2>2. /\ uncounted' = 0 /\ Len(batch') = Len(batch) /\ drained' = drained
          /\ published' = published /\ redis_dropped' = redis_dropped
      BY <1>1, <1>2 DEF history, writer
    <2>3. drained = published + queue_dropped + redis_dropped + Len(queue) + Len(batch) + InHand
      BY <1>2, <2>1 DEF Books, LedgerConserved, InHand
    <2>4. CASE Put
      BY <1>2, <1>4, <2>1, <2>2, <2>3, <2>4, <1>1
      DEF Put, Books, LedgerConserved, InHand, Submitting, stats
    <2>5. CASE Evict
      <3>1. queue = <<>> => Len(queue) = 0
        BY NoSeq
      <3> QED BY <1>2, <1>4, <2>1, <2>2, <2>3, <2>5, <1>1, <3>1
              DEF Evict, Books, LedgerConserved, InHand, Submitting, stats
    <2>6. CASE CountDrop
      BY <1>2, <1>4, <2>1, <2>2, <2>3, <2>6, <1>1
      DEF CountDrop, Books, LedgerConserved, InHand, Submitting
    <2>7. CASE Reput
      BY SMTT(30), <1>2, <1>4, <2>1, <2>2, <2>3, <2>7, <1>1
      DEF Reput, Books, LedgerConserved, InHand, Submitting
    <2> QED BY <2>4, <2>5, <2>6, <2>7
  <1> QED BY <1>3, <1>6, <1>7

LEMMA InterruptBooks ==
  ASSUME BooksInv, smoke = "off", UNCHANGED smoke, Interrupt \/ Join
  PROVE  BooksInv'
  <1> USE DEF BooksInv, TypeOK
  <1>1. /\ UNCHANGED <<rec, drained, counts, queue, writer, stats, redis, runs, arrived, acked, rejected>>
        /\ dpc' \in {"join", "snapshot"} /\ dpc # "dead" /\ uncounted' \in 0..2
    BY DEF Interrupt, Join, history, InHand, Submitting, Books, LedgerConserved, CountersTyped
  <1>2. stop' \in BOOLEAN
    BY DEF Interrupt, Join, MainTyped
  <1>3. MainTyped' /\ WriterTyped' /\ RedisTyped' /\ CountersTyped'
    BY <1>1, <1>2 DEF MainTyped, WriterTyped, RedisTyped, CountersTyped, Submitting, writer, redis, stats
  <1>4. Places' /\ Clients'
    BY <1>1 DEF Places, Clients, writer
  <1>5. Books'
    <2>1. CASE Interrupt
      <3>1. uncounted = 0 /\ uncounted' = InHand /\ dpc' = "join" /\ InHand \in 0..2
        BY <2>1 DEF Interrupt, Books, InHand, Submitting
      <3>2. InHand' = 0 /\ drained \in Nat /\ published \in Nat /\ queue_dropped \in Nat
            /\ redis_dropped \in Nat /\ Len(queue) \in Nat /\ Len(batch) \in Nat
        BY <3>1, SeqLen DEF InHand, Submitting, MainTyped, WriterTyped, CountersTyped
      <3> QED BY <1>1, <3>1, <3>2 DEF Books, LedgerConserved, Submitting, writer, stats
    <2>2. CASE Join
      BY <1>1, <2>2 DEF Join, history, Books, LedgerConserved, InHand, Submitting, writer, stats
    <2> QED BY <2>1, <2>2
  <1> QED BY <1>3, <1>4, <1>5

-----------------------------------------------------------------------------
\* The writer's steps between its commands.
LEMMA WalkChanges ==
  ASSUME BooksInv, NEW ok \in BOOLEAN, Top \/ Connect(ok) \/ Ready(ok) \/ Hset(ok) \/ Hexpire(ok) \/ Idle
  PROVE  /\ UNCHANGED <<main, queue, stop, batch, pipe, last_ratime, failed, published, queue_dropped,
                       redis_dropped, stream, late, history>>
         /\ batch = <<>> /\ pipe = <<>>
         /\ wpc \notin {"build", "execute", "ended", "dead"}
         /\ wpc' \in {"top", "connect", "ready", "hset", "hexpire", "take", "ended"}
         /\ ~failed
  <1>1. wpc \in {"top", "connect", "ready", "hset", "hexpire", "idle"}
    BY DEF Top, Connect, Ready, Hset, Hexpire, Idle
  <1>2. batch = <<>> /\ pipe = <<>> /\ ~failed
    BY <1>1 DEF BooksInv, Places
  <1>3. UNCHANGED <<main, queue, stop, batch, pipe, last_ratime, failed, published, queue_dropped,
                    redis_dropped, stream, late, history>>
    BY DEF Top, Connect, Ready, Hset, Hexpire, Idle, WriterRest, redis, history
  <1>4. wpc' \in {"top", "connect", "ready", "hset", "hexpire", "take", "ended"}
    BY DEF Top, Connect, Ready, Hset, Hexpire, Idle
  <1> QED BY <1>1, <1>2, <1>3, <1>4

\* The books do not see a step that moves the writer and leaves the sizes.
LEMMA SameBooks ==
  ASSUME BooksInv, UNCHANGED smoke,
         UNCHANGED <<main, stop, last_ratime, published, queue_dropped, redis_dropped,
                     runs, arrived, uncounted>>,
         batch' \in Seq(Record), queue' \in Seq(Record), pipe' \in Seq(Command),
         failed' \in BOOLEAN, rejected' \in BOOLEAN,
         Len(queue') + Len(batch') = Len(queue) + Len(batch), Len(queue') <= Len(queue),
         RedisTyped',
         Places', wpc' \in {"top", "connect", "ready", "hset", "hexpire", "take", "idle", "build",
                            "execute", "ended", "dead"}
  PROVE  BooksInv'
  <1> USE DEF BooksInv, TypeOK
  <1>1. /\ Len(queue) \in Nat /\ Len(batch) \in Nat /\ Len(queue') \in Nat /\ Len(batch') \in Nat
    BY SeqLen DEF MainTyped, WriterTyped
  <1>2. MainTyped' /\ WriterTyped' /\ CountersTyped'
    BY DEF MainTyped, WriterTyped, CountersTyped, main
  <1>3. Clients'
    BY <1>1, SinkAssumption DEF Clients, main
  <1>4. /\ drained \in Nat /\ published \in Nat /\ queue_dropped \in Nat /\ redis_dropped \in Nat
        /\ uncounted \in Nat
    BY DEF MainTyped, CountersTyped
  <1>5. InHand \in Nat /\ InHand' = InHand
    BY DEF InHand, main
  <1>6. Books'
    BY <1>1, <1>4, <1>5, SinkAssumption DEF Books, LedgerConserved, main
  <1> QED BY <1>2, <1>3, <1>6

LEMMA WalkBooks ==
  ASSUME BooksInv, UNCHANGED smoke, NEW ok \in BOOLEAN,
         Top \/ Connect(ok) \/ Ready(ok) \/ Hset(ok) \/ Hexpire(ok) \/ Idle
  PROVE  BooksInv'
  <1>1. /\ UNCHANGED <<main, queue, stop, batch, pipe, last_ratime, failed, published, queue_dropped,
                      redis_dropped, stream, late, history>>
        /\ batch = <<>> /\ pipe = <<>> /\ wpc \notin {"build", "execute", "ended", "dead"}
        /\ wpc' \in {"top", "connect", "ready", "hset", "hexpire", "take", "ended"} /\ ~failed
    BY WalkChanges
  <1>2. Places'
    BY <1>1 DEF BooksInv, Places, main
  <1>3. RedisTyped' /\ Len(queue) \in Nat
    BY <1>1, SeqLen DEF BooksInv, TypeOK, RedisTyped, MainTyped
  <1> QED BY <1>1, <1>2, <1>3, SameBooks DEF BooksInv, TypeOK, MainTyped, WriterTyped, CountersTyped, history

\* A record taken into the batch, and the end of taking.
LEMMA TakeBooks ==
  ASSUME BooksInv, UNCHANGED smoke, Take
  PROVE  BooksInv'
  <1> USE DEF BooksInv, TypeOK
  <1>1. /\ wpc = "take" /\ pipe = <<>>
        /\ UNCHANGED <<main, stop, pipe, last_ratime, failed, redis, published, queue_dropped,
                      redis_dropped, history>>
    BY DEF Take, history, Places
  <1>2. queue \in Seq(Record) /\ batch \in Seq(Record)
    BY DEF MainTyped, WriterTyped
  <1>3. CASE queue # <<>> /\ Len(batch) < BatchSize
    <2>1. batch' = Append(batch, Head(queue)) /\ queue' = Tail(queue) /\ wpc' = wpc
      BY <1>3 DEF Take
    <2>2. /\ batch' \in Seq(Record) /\ queue' \in Seq(Record)
          /\ Len(batch') = Len(batch) + 1 /\ Len(queue') = Len(queue) - 1
          /\ Len(batch) \in Nat /\ Len(queue) \in Nat
      BY <1>2, <1>3, <2>1, AppendSeq, TailSeq
    <2>3. Places' /\ RedisTyped'
      BY <1>1, <2>1 DEF Places, RedisTyped, main, redis
    <2> QED BY <1>1, <2>1, <2>2, <2>3, SameBooks DEF WriterTyped, CountersTyped, history
  <1>4. CASE ~(queue # <<>> /\ Len(batch) < BatchSize)
    <2>1. /\ wpc' = IF batch = <<>> THEN "idle" ELSE "build"
          /\ UNCHANGED <<batch, queue>>
      BY <1>4 DEF Take
    <2>2. Len(queue) \in Nat /\ Len(batch) \in Nat /\ Len(pipe) = 0
      BY <1>1, <1>2, SeqLen, NoSeq
    <2>3. Places' /\ RedisTyped'
      BY <1>1, <2>1, <2>2 DEF Places, RedisTyped, main, redis
    <2> QED BY <1>1, <1>2, <2>1, <2>2, <2>3, SameBooks DEF WriterTyped, CountersTyped, history
  <1> QED BY <1>3, <1>4

\* The IDs of a record: positive, and above what the guard remembers.
LEMMA GuardedIdRises ==
  ASSUME last_ratime \in [Key -> Nat], NEW k \in Key, NEW ra \in Nat \ {0}
  PROVE  GuardedId(k, ra) \in Nat \ {0} /\ GuardedId(k, ra) > last_ratime[k]
  BY DEF GuardedId

\* What Build adds to the pipeline.
LEMMA BuildChanges ==
  ASSUME BooksInv, Build, Len(pipe) < Len(batch)
  PROVE  \E w \in Command :
           /\ w.rec = batch[Len(pipe) + 1] /\ w.run = runs
           /\ \A k \in KeysOf(w.rec.code) : w.id[k] > last_ratime[k] /\ last_ratime'[k] = w.id[k]
           /\ \A k \in Key : k \notin KeysOf(w.rec.code) => last_ratime'[k] = last_ratime[k]
           /\ last_ratime' \in [Key -> Nat]
           /\ pipe' = Append(pipe, w) /\ wpc' = wpc
  <1> DEFINE r == batch[Len(pipe) + 1]
             ids == [k \in KeysOf(r.code) |-> GuardedId(k, r.ra)]
             w == [rec |-> r, id |-> ids, run |-> runs]
  <1>1. /\ pipe' = Append(pipe, w) /\ wpc' = wpc
        /\ last_ratime' = [k \in Key |-> IF k \in KeysOf(r.code) THEN ids[k] ELSE last_ratime[k]]
    BY DEF Build
  <1>2. r \in Record /\ last_ratime \in [Key -> Nat] /\ runs \in Nat \ {0}
    BY SeqLen DEF BooksInv, TypeOK, WriterTyped, CountersTyped
  <1>3. KeysOf(r.code) \subseteq Key /\ r.ra \in Nat \ {0}
    BY <1>2, KeysTyped DEF Record
  <1>4. \A k \in KeysOf(r.code) : ids[k] \in Nat \ {0} /\ ids[k] > last_ratime[k]
    BY <1>2, <1>3, GuardedIdRises
  <1>5. ids \in [KeysOf(r.code) -> Nat \ {0}]
    BY <1>4
  <1> HIDE DEF ids
  <1>6. w \in [rec : {r}, id : [KeysOf(r.code) -> Nat \ {0}], run : Nat \ {0}]
    BY <1>2, <1>5
  <1>7. w \in Command
    BY <1>2, <1>6 DEF Command
  <1>8. last_ratime' \in [Key -> Nat]
    BY <1>1, <1>2, <1>4
  <1>9. \A k \in KeysOf(r.code) : w.id[k] > last_ratime[k] /\ last_ratime'[k] = w.id[k]
    BY <1>1, <1>3, <1>4
  <1>10. \A k \in Key : k \notin KeysOf(r.code) => last_ratime'[k] = last_ratime[k]
    BY <1>1
  <1> QED BY <1>1, <1>7, <1>8, <1>9, <1>10

LEMMA BuildBooks ==
  ASSUME BooksInv, UNCHANGED smoke, Build
  PROVE  BooksInv'
  <1> USE DEF BooksInv, TypeOK
  <1>1. /\ wpc = "build" /\ ~failed
        /\ UNCHANGED <<main, queue, stop, batch, failed, redis, published, queue_dropped,
                      redis_dropped, history>>
    BY DEF Build, WriterRest, history, Places
  <1>2. /\ batch \in Seq(Record) /\ pipe \in Seq(Command) /\ Len(batch) \in Nat /\ Len(pipe) \in Nat
        /\ queue \in Seq(Record) /\ Len(queue) \in Nat /\ Len(pipe) <= Len(batch)
    BY <1>1, SeqLen DEF MainTyped, WriterTyped, Places
  <1>3. /\ pipe' \in Seq(Command) /\ last_ratime' \in [Key -> Nat]
        /\ wpc' \in {"build", "execute"} /\ Len(pipe') <= Len(batch)
    <2>1. CASE Len(pipe) < Len(batch)
      <3>1. PICK w \in Command : pipe' = Append(pipe, w) /\ last_ratime' \in [Key -> Nat] /\ wpc' = wpc
        BY <2>1, BuildChanges
      <3> QED BY <1>1, <1>2, <2>1, <3>1, AppendSeq
    <2>2. CASE ~(Len(pipe) < Len(batch))
      BY <1>2, <2>2 DEF Build, WriterTyped
    <2> QED BY <2>1, <2>2
  <1>4. MainTyped' /\ WriterTyped' /\ RedisTyped' /\ CountersTyped' /\ Clients'
    BY <1>1, <1>2, <1>3 DEF MainTyped, WriterTyped, RedisTyped, CountersTyped, Clients, main, redis, history
  <1>5. Places'
    BY <1>1, <1>2, <1>3 DEF Places, main
  <1>6. Books'
    BY <1>1 DEF Books, LedgerConserved, InHand, main, history
  <1> QED BY <1>4, <1>5, <1>6

-----------------------------------------------------------------------------
\* What the server makes of a command: an entry at the end of a stream, or nothing.
LEMMA AddedTyped ==
  ASSUME stream \in [Key -> Seq(EntryType)], NEW w \in Command,
         NEW keys \in SUBSET KeysOf(w.rec.code)
  PROVE  /\ Added(w, keys) \in [Key -> Seq(EntryType)]
         /\ \A k \in Key : \/ Added(w, keys)[k] = stream[k] /\ (k \in keys => Refuses(w, k))
                          \/ /\ k \in keys /\ ~Refuses(w, k)
                             /\ Added(w, keys)[k] = Append(stream[k], Entry(w, k))
  <1>1. ASSUME NEW k \in keys PROVE Append(stream[k], Entry(w, k)) \in Seq(EntryType)
    <2>1. k \in KeysOf(w.rec.code) /\ k \in Key
      BY CommandTyped, KeysTyped DEF Record
    <2> QED BY <2>1, EntryTyped, AppendSeq
  <1>2. Added(w, keys) \in [Key -> Seq(EntryType)]
    BY <1>1 DEF Added
  <1>3. ASSUME NEW k \in Key
        PROVE  \/ Added(w, keys)[k] = stream[k] /\ (k \in keys => Refuses(w, k))
               \/ /\ k \in keys /\ ~Refuses(w, k)
                  /\ Added(w, keys)[k] = Append(stream[k], Entry(w, k))
    BY DEF Added
  <1> QED BY <1>2, <1>3

LEMMA SendChanges ==
  ASSUME BooksInv, Send
  PROVE  /\ wpc = "execute" /\ wpc' = "execute" /\ pipe # <<>>
         /\ Head(pipe) \in Command /\ Head(pipe) = pipe[1] /\ Len(pipe) \in Nat \ {0}
         /\ pipe' = Tail(pipe) /\ pipe' \in Seq(Command) /\ Len(pipe') = Len(pipe) - 1
         /\ \A i \in 1..Len(pipe') : pipe'[i] = pipe[i + 1]
         /\ stream' = Added(Head(pipe), KeysOf(Head(pipe).rec.code))
         /\ (failed' # failed \/ rejected' # rejected)
              => \E k \in KeysOf(Head(pipe).rec.code) : Refuses(Head(pipe), k)
         /\ (\E k \in KeysOf(Head(pipe).rec.code) : Refuses(Head(pipe), k)) => failed'
         /\ failed => failed'
         /\ failed' \in BOOLEAN /\ rejected' \in BOOLEAN
         /\ UNCHANGED <<main, queue, stop, batch, last_ratime, late, published, queue_dropped,
                       redis_dropped, runs, arrived, uncounted, acked>>
  <1> USE DEF BooksInv, TypeOK
  <1>1. /\ wpc = "execute" /\ wpc' = "execute" /\ pipe # <<>> /\ pipe' = Tail(pipe)
        /\ UNCHANGED <<main, queue, stop, batch, last_ratime, late, published, queue_dropped,
                      redis_dropped, runs, arrived, uncounted, acked>>
    BY DEF Send, WriterRest
  <1>2. /\ Head(pipe) \in Command /\ Head(pipe) = pipe[1] /\ Len(pipe) \in Nat \ {0}
        /\ pipe' \in Seq(Command) /\ Len(pipe') = Len(pipe) - 1
        /\ \A i \in 1..Len(pipe') : pipe'[i] = pipe[i + 1]
    BY <1>1, TailSeq DEF WriterTyped
  <1>3. stream' = Added(Head(pipe), KeysOf(Head(pipe).rec.code))
    BY DEF Send
  <1> DEFINE refused == \E k \in KeysOf(Head(pipe).rec.code) : Refuses(Head(pipe), k)
  <1>4. failed' = (failed \/ refused) /\ rejected' = (rejected \/ refused)
    BY DEF Send
  <1>5. failed' \in BOOLEAN /\ rejected' \in BOOLEAN
    BY <1>4
  <1>6. (failed' # failed \/ rejected' # rejected) => refused
    BY <1>4 DEF WriterTyped, CountersTyped
  <1> HIDE DEF refused
  <1>7. (refused => failed') /\ (failed => failed')
    BY <1>4
  <1> QED BY <1>1, <1>2, <1>3, <1>5, <1>6, <1>7 DEF refused

LEMMA SendBooks ==
  ASSUME BooksInv, UNCHANGED smoke, Send
  PROVE  BooksInv'
  <1> USE DEF BooksInv, TypeOK
  <1>1. /\ wpc = "execute" /\ wpc' = "execute"
        /\ Head(pipe) \in Command /\ pipe' \in Seq(Command)
        /\ stream' = Added(Head(pipe), KeysOf(Head(pipe).rec.code))
        /\ failed' \in BOOLEAN /\ rejected' \in BOOLEAN
        /\ UNCHANGED <<main, queue, stop, batch, last_ratime, late, published, queue_dropped,
                      redis_dropped, runs, arrived, uncounted, acked>>
    BY SendChanges
  <1>2. RedisTyped'
    BY <1>1, AddedTyped DEF RedisTyped
  <1>3. Places'
    BY <1>1 DEF Places, main
  <1>4. queue \in Seq(Record) /\ batch \in Seq(Record) /\ Len(queue) \in Nat
    BY SeqLen DEF MainTyped, WriterTyped
  <1> QED BY <1>1, <1>2, <1>3, <1>4, SameBooks

LEMMA PublishedBooks ==
  ASSUME BooksInv, UNCHANGED smoke, Published
  PROVE  BooksInv'
  <1> USE DEF BooksInv, TypeOK
  <1>1. /\ wpc = "execute" /\ wpc' = "top" /\ batch' = <<>> /\ pipe = <<>> /\ ~failed
        /\ published' = published + Len(batch)
        /\ UNCHANGED <<main, queue, stop, pipe, last_ratime, failed, redis, queue_dropped,
                      redis_dropped, runs, arrived, uncounted, rejected>>
    BY DEF Published
  <1>2. Len(batch) \in Nat /\ Len(queue) \in Nat /\ published' \in Nat /\ Len(batch') = 0
        /\ batch' \in Seq(Record)
    BY <1>1, SeqLen, NoSeq DEF MainTyped, WriterTyped, CountersTyped
  <1>3. MainTyped' /\ WriterTyped' /\ RedisTyped' /\ CountersTyped' /\ Clients' /\ Places'
    BY <1>1, <1>2 DEF MainTyped, WriterTyped, RedisTyped, CountersTyped, Clients, Places, main, redis
  <1>4. /\ InHand' = InHand /\ InHand \in Nat
        /\ published \in Nat /\ queue_dropped \in Nat /\ redis_dropped \in Nat /\ drained \in Nat
        /\ uncounted \in Nat
    BY <1>1 DEF InHand, main, MainTyped, CountersTyped
  <1>5. Books'
    BY <1>1, <1>2, <1>4 DEF Books, LedgerConserved, main
  <1> QED BY <1>3, <1>5

\* A connection that is given up takes along what was still in the pipeline.
LEMMA AbandonTyped ==
  ASSUME late \in Seq(Connection), NEW sent \in Seq(Command)
  PROVE  /\ Abandon(sent) \in Seq(Connection)
         /\ Len(late) \in Nat /\ Len(Abandon(sent)) \in {Len(late), Len(late) + 1}
         /\ \A c \in 1..Len(Abandon(sent)) :
              IF c <= Len(late) THEN Abandon(sent)[c] = late[c] ELSE Abandon(sent)[c] = sent
  <1>1. CASE sent = <<>>
    BY <1>1, SeqLen DEF Abandon
  <1>2. CASE sent # <<>>
    <2>1. sent \in Connection /\ Abandon(sent) = Append(late, sent)
      BY <1>2 DEF Abandon, Connection
    <2> QED BY <2>1, AppendSeq
  <1> QED BY <1>1, <1>2

LEMMA RaisedBooks ==
  ASSUME BooksInv, UNCHANGED smoke, Raised
  PROVE  BooksInv'
  <1> USE DEF BooksInv, TypeOK
  <1>1. /\ wpc = "execute" /\ wpc' = "top" /\ batch' = <<>> /\ pipe' = <<>> /\ failed' = FALSE
        /\ redis_dropped' = redis_dropped + Len(batch) /\ late' = Abandon(pipe)
        /\ UNCHANGED <<main, queue, stop, stream, last_ratime, queue_dropped,
                      published, runs, arrived, uncounted, rejected>>
    BY DEF Raised
  <1>2. failed' \in BOOLEAN
    BY <1>1
  <1>3. Len(batch) \in Nat /\ Len(queue) \in Nat /\ redis_dropped' \in Nat /\ Len(batch') = 0
        /\ batch' \in Seq(Record) /\ pipe' \in Seq(Command)
    BY <1>1, SeqLen, NoSeq DEF MainTyped, WriterTyped, CountersTyped
  <1>4. late' \in Seq(Connection)
    BY <1>1, AbandonTyped DEF WriterTyped, RedisTyped
  <1>5. MainTyped' /\ WriterTyped' /\ RedisTyped' /\ CountersTyped' /\ Clients' /\ Places'
    BY <1>1, <1>2, <1>3, <1>4 DEF MainTyped, WriterTyped, RedisTyped, CountersTyped, Clients, Places, main
  <1>6. /\ InHand' = InHand /\ InHand \in Nat
        /\ published \in Nat /\ queue_dropped \in Nat /\ redis_dropped \in Nat /\ drained \in Nat
        /\ uncounted \in Nat
    BY <1>1 DEF InHand, main, MainTyped, CountersTyped
  <1>7. Books'
    BY <1>1, <1>3, <1>6 DEF Books, LedgerConserved, main
  <1> QED BY <1>5, <1>7

\* Late commands of a connection: its first one runs, in whole or in part.
LEMMA LateChanges ==
  ASSUME BooksInv, NEW c \in DOMAIN late, LateRun(c)
  PROVE  /\ \E w \in Abandoned \cap Command : \E keys \in SUBSET KeysOf(w.rec.code) :
              stream' = Added(w, keys)
         /\ late' \in Seq(Connection) /\ Abandoned' \subseteq Abandoned
         /\ UNCHANGED <<watchdog, main, queue, stop, writer, stats, history>>
  <1> USE DEF BooksInv, TypeOK
  <1>1. late \in Seq(Connection) /\ DOMAIN late = 1..Len(late) /\ c \in 1..Len(late)
    BY SeqLen DEF RedisTyped
  <1>2. late[c] \in Connection /\ late[c] \in Seq(Command) /\ late[c] # <<>>
    BY <1>1, SeqLen DEF Connection
  <1>3. /\ Tail(late[c]) \in Seq(Command) /\ Len(late[c]) \in Nat \ {0}
        /\ Len(Tail(late[c])) = Len(late[c]) - 1
        /\ \A i \in 1..Len(late[c]) - 1 : Tail(late[c])[i] = late[c][i + 1]
        /\ Head(late[c]) = late[c][1] /\ Head(late[c]) \in Command
    BY <1>2, TailSeq
  <1>4. Head(late[c]) \in Abandoned
    BY <1>1, <1>3 DEF Abandoned
  <1>5. PICK k \in 0..3 :
          /\ stream' = Added(Head(late[c]), {WritesOf(Head(late[c]).rec.code)[i] : i \in 1..k})
          /\ late' = IF k = 3 /\ Len(late[c]) > 1
                       THEN [late EXCEPT ![c] = Tail(@)] ELSE RemoveAt(late, c)
    BY DEF LateRun
  <1>6. {WritesOf(Head(late[c]).rec.code)[i] : i \in 1..k} \subseteq KeysOf(Head(late[c]).rec.code)
    BY <1>3, CommandTyped, KeysTyped DEF Record
  <1>7. late' \in Seq(Connection) /\ Abandoned' \subseteq Abandoned
    <2>1. CASE k = 3 /\ Len(late[c]) > 1
      <3>1. late' = [late EXCEPT ![c] = Tail(late[c])]
        BY <1>5, <2>1
      <3>2. Tail(late[c]) \in Connection
        BY <1>3, <2>1, NoSeq DEF Connection
      <3>3. /\ late' \in Seq(Connection) /\ Len(late') = Len(late)
            /\ \A j \in 1..Len(late) : late'[j] = IF j = c THEN Tail(late[c]) ELSE late[j]
        BY <1>1, <3>1, <3>2, ExceptSeq
      <3>4. ASSUME NEW d \in 1..Len(late'), NEW i \in 1..Len(late'[d])
            PROVE  late'[d][i] \in Abandoned
        <4>1. CASE d = c
          <5>1. late'[d] = Tail(late[c])
            BY <1>1, <3>3, <4>1
          <5>2. i \in 1..Len(late[c]) - 1
            BY <1>3, <5>1
          <5>3. i + 1 \in 1..Len(late[c]) /\ late'[d][i] = late[c][i + 1]
            BY <1>3, <5>1, <5>2
          <5> QED BY <1>1, <5>3 DEF Abandoned
        <4>2. CASE d # c
          <5>1. d \in 1..Len(late) /\ late'[d] = late[d]
            BY <3>3, <4>2
          <5> QED BY <5>1 DEF Abandoned
        <4> QED BY <4>1, <4>2
      <3> QED BY <3>3, <3>4 DEF Abandoned
    <2>2. CASE ~(k = 3 /\ Len(late[c]) > 1)
      <3>1. late' = RemoveAt(late, c)
        BY <1>5, <2>2
      <3>2. /\ RemoveAt(late, c) \in Seq(Connection)
            /\ \A i \in 1..Len(RemoveAt(late, c)) :
                 \E j \in 1..Len(late) : RemoveAt(late, c)[i] = late[j]
        BY <1>1, RemoveSeq
      <3> QED BY SMTT(30), <3>1, <3>2 DEF Abandoned
    <2> QED BY <2>1, <2>2
  <1>8. UNCHANGED <<watchdog, main, queue, stop, writer, stats, history>>
    BY DEF LateRun
  <1> QED BY <1>3, <1>4, <1>5, <1>6, <1>7, <1>8

LEMMA LateBooks ==
  ASSUME BooksInv, UNCHANGED smoke, NEW c \in DOMAIN late, LateRun(c)
  PROVE  BooksInv'
  <1> USE DEF BooksInv, TypeOK
  <1>1. PICK w \in Command : \E keys \in SUBSET KeysOf(w.rec.code) : stream' = Added(w, keys)
    BY LateChanges
  <1>2. late' \in Seq(Connection) /\ UNCHANGED <<main, queue, stop, writer, stats, history>>
    BY LateChanges
  <1>3. RedisTyped'
    BY <1>1, <1>2, AddedTyped DEF RedisTyped
  <1>4. Places'
    BY <1>2 DEF Places, main, writer
  <1>5. Len(queue) \in Nat
    BY SeqLen DEF MainTyped
  <1> QED BY <1>2, <1>3, <1>4, <1>5, SameBooks
          DEF MainTyped, WriterTyped, CountersTyped, main, writer, stats, history

\* The process ends, and is started again: the books of the next run are empty.
LEMMA DieBooks ==
  ASSUME BooksInv, smoke' = "off" <=> smoke = "off", smoke' \in {"off", "exited"}, Die
  PROVE  BooksInv'
  <1> USE DEF BooksInv, TypeOK
  <1>1. /\ dpc' = "dead" /\ drained' = 0 /\ counts' = NoCounts /\ queue' = <<>> /\ stop' = FALSE
        /\ wpc' = "dead" /\ batch' = <<>> /\ pipe' = <<>> /\ last_ratime' = NoIds /\ failed' = FALSE
        /\ published' = 0 /\ queue_dropped' = 0 /\ redis_dropped' = 0 /\ uncounted' = 0
        /\ UNCHANGED <<stream, runs, arrived, rejected>>
    BY DEF Die
  <1>2. late' \in Seq(Connection)
    BY AbandonTyped DEF Die, WriterTyped, RedisTyped
  <1>3. \A S : <<>> \in Seq(S) /\ Len(<<>>) = 0
    BY NoSeq
  <1>4. MainTyped'
    BY <1>1, <1>3 DEF MainTyped, NoCounts, Submitting
  <1>5. WriterTyped' /\ RedisTyped' /\ CountersTyped'
    BY <1>1, <1>2, <1>3 DEF WriterTyped, RedisTyped, CountersTyped, NoIds
  <1>6. Places' /\ Clients'
    BY <1>1, <1>3, SinkAssumption DEF Places, Clients
  <1>7. Books'
    BY <1>1, <1>3 DEF Books, LedgerConserved, InHand, Submitting
  <1> QED BY <1>4, <1>5, <1>6, <1>7

LEMMA RelaunchBooks ==
  ASSUME BooksInv, (smoke = "off" /\ smoke' = "off") \/ smoke' = "ping", Relaunch
  PROVE  BooksInv'
  <1> USE DEF BooksInv, TypeOK
  <1>1. /\ dpc = "dead" /\ dpc' = "drain" /\ wpc' = "top" /\ runs' = runs + 1
        /\ UNCHANGED <<rec, drained, unsync, counts, queue, stop, client, batch, pipe, last_ratime, failed,
                      stats, redis, arrived, uncounted, acked, rejected>>
    BY DEF Relaunch
  <1>2. wpc = "dead" /\ batch = <<>> /\ pipe = <<>> /\ ~failed /\ uncounted = 0 /\ drained = 0
    BY <1>1 DEF Places, Books
  <1>3. MainTyped' /\ WriterTyped' /\ RedisTyped' /\ CountersTyped'
    BY <1>1 DEF MainTyped, WriterTyped, RedisTyped, CountersTyped, Submitting, stats, redis
  <1>4. N \in Nat \ {0}
    BY SmokeAssumption, EmptySeq DEF N
  <1>5. Places' /\ Clients'
    BY <1>1, <1>2, <1>4 DEF Places, Clients
  <1>6. Books'
    BY <1>1, <1>2 DEF Books, LedgerConserved, InHand, Submitting, stats
  <1> QED BY <1>3, <1>5, <1>6

-----------------------------------------------------------------------------
\* The smoke test goes on, and touches nothing of the sink.
Going == Ping \/ Waited \/ Judge \/ ReadWatchdog \/ Joined \/ ReadKeys

LEMMA GoingChanges ==
  ASSUME Going
  PROVE  /\ UNCHANGED <<sink_vars, gone>>
         /\ smoke \notin {"off", "done", "exited"} /\ smoke' \notin {"off", "ping", "exited"}
         /\ smoke' = "submit" => smoke = "ping"
  BY DEF Going, Ping, Waited, Judge, ReadWatchdog, Joined, ReadKeys, ReadBack, Goes

LEMMA UnchangedBooks ==
  ASSUME BooksInv, UNCHANGED vars,
         smoke' = "off" <=> smoke = "off",
         smoke' \in {"ping", "submit"} => smoke \in {"ping", "submit"}
  PROVE  BooksInv'
  <1> USE DEF BooksInv, TypeOK, vars, main, writer, stats, redis, history
  <1>1. MainTyped' /\ WriterTyped' /\ RedisTyped' /\ CountersTyped'
    BY DEF MainTyped, WriterTyped, RedisTyped, CountersTyped
  <1>2. Places' /\ Clients'
    BY DEF Places, Clients
  <1>3. Books'
    BY DEF Books, LedgerConserved, InHand
  <1> QED BY <1>1, <1>2, <1>3

LEMMA GoingBooks ==
  ASSUME BooksInv, Going
  PROVE  BooksInv'
  BY GoingChanges, UnchangedBooks DEF sink_vars

\* The test's next event goes into the queue.
LEMMA SmokeSubmitChanges ==
  ASSUME BooksInv, Submit
  PROVE  /\ smoke = "submit" /\ dpc = "drain" /\ dpc' = dpc /\ wpc # "dead"
         /\ arrived' = arrived + 1 /\ drained' = drained + 1 /\ drained < N /\ N \in Nat
         /\ counts' \in [Codes -> Nat]
         /\ \E r \in Record : /\ r.n = arrived + 1 /\ queue' = Append(queue, r)
                              /\ \E i \in DOMAIN SmokeEvents : r.code = SmokeEvents[i].code
         /\ smoke' = IF drained' = N THEN "wait" ELSE "submit"
         /\ UNCHANGED <<rec, stop, writer, stats, redis, runs, uncounted, acked, rejected, gone>>
  <1> USE DEF BooksInv, TypeOK
  <1>1. /\ smoke = "submit" /\ arrived' = arrived + 1 /\ drained' = drained + 1
        /\ smoke' = IF drained' = N THEN "wait" ELSE "submit"
        /\ UNCHANGED <<dpc, rec, stop, writer, stats, redis, runs, uncounted, acked, rejected, gone>>
    BY DEF Submit
  <1>2. dpc = "drain" /\ drained < N /\ wpc # "dead"
    BY <1>1 DEF Clients, Places
  <1>3. N \in Nat /\ DOMAIN SmokeEvents = 1..N
        /\ \A i \in 1..N : SmokeEvents[i] \in [code : Codes, ra : Nat \ {0}]
    BY SmokeAssumption, SeqLen DEF N
  <1> DEFINE e == SmokeEvents[drained + 1]
             r == [n |-> arrived', ra |-> e.ra, code |-> e.code, count |-> counts'[e.code]]
  <1>4. counts' = [counts EXCEPT ![e.code] = @ + 1] /\ queue' = Append(queue, r)
    BY DEF Submit
  <1>5. drained + 1 \in 1..N /\ e \in [code : Codes, ra : Nat \ {0}]
    BY <1>2, <1>3 DEF MainTyped
  <1>6. counts' \in [Codes -> Nat]
    BY <1>4, <1>5 DEF MainTyped
  <1>7. r \in Record
    BY <1>1, <1>5, <1>6 DEF Record, CountersTyped
  <1>8. r.n = arrived + 1 /\ \E i \in DOMAIN SmokeEvents : r.code = SmokeEvents[i].code
    BY <1>1, <1>3, <1>5
  <1> HIDE DEF r
  <1>9. \E x \in Record : /\ x.n = arrived + 1 /\ queue' = Append(queue, x)
                          /\ \E i \in DOMAIN SmokeEvents : x.code = SmokeEvents[i].code
    BY <1>4, <1>7, <1>8
  <1> QED BY <1>1, <1>2, <1>3, <1>6, <1>9

LEMMA SmokeSubmitBooks ==
  ASSUME BooksInv, Submit
  PROVE  BooksInv'
  <1> USE DEF BooksInv, TypeOK
  <1>1. /\ smoke = "submit" /\ dpc = "drain" /\ dpc' = dpc /\ wpc # "dead"
        /\ arrived' = arrived + 1 /\ drained' = drained + 1 /\ drained < N /\ N \in Nat
        /\ counts' \in [Codes -> Nat]
        /\ smoke' = IF drained' = N THEN "wait" ELSE "submit"
        /\ UNCHANGED <<rec, stop, writer, stats, redis, runs, uncounted, acked, rejected, gone>>
    BY SmokeSubmitChanges
  <1>2. PICK r \in Record : queue' = Append(queue, r)
    BY SmokeSubmitChanges
  <1>3. /\ queue' \in Seq(Record) /\ Len(queue') = Len(queue) + 1 /\ Len(queue) \in Nat
    BY <1>2, AppendSeq DEF MainTyped
  <1>4. MainTyped' /\ WriterTyped' /\ RedisTyped' /\ CountersTyped'
    BY <1>1, <1>3 DEF MainTyped, WriterTyped, RedisTyped, CountersTyped, Submitting, writer, stats, redis
  <1>5. Places' /\ Clients'
    BY <1>1 DEF Places, Clients, MainTyped, writer
  <1>6. /\ drained \in Nat /\ published \in Nat /\ queue_dropped \in Nat /\ redis_dropped \in Nat
        /\ Len(batch) \in Nat
    BY SeqLen DEF MainTyped, CountersTyped, WriterTyped
  <1>7. Books'
    BY <1>1, <1>3, <1>6 DEF Books, LedgerConserved, InHand, Submitting, writer, stats
  <1> QED BY <1>4, <1>5, <1>7

\* The test stops the sink, and deletes its keys.
LEMMA DeleteBooks ==
  ASSUME BooksInv, StopSink \/ Delete
  PROVE  BooksInv'
  <1> USE DEF BooksInv, TypeOK
  <1>1. /\ UNCHANGED <<main, queue, writer, stats, late, history>>
        /\ smoke' \notin {"off", "ping", "submit"} /\ smoke # "off"
    BY DEF StopSink, Delete, redis
  <1>2. stop' \in BOOLEAN /\ stream' \in [Key -> Seq(EntryType)]
    <2>1. CASE StopSink
      BY <2>1 DEF StopSink, redis, RedisTyped, MainTyped
    <2>2. CASE Delete
      BY <2>2, NoSeq DEF Delete, RedisTyped, MainTyped
    <2> QED BY <2>1, <2>2
  <1>3. MainTyped' /\ WriterTyped' /\ RedisTyped' /\ CountersTyped'
    BY <1>1, <1>2 DEF MainTyped, WriterTyped, RedisTyped, CountersTyped, main, writer, stats, history
  <1>4. Places' /\ Clients'
    BY <1>1 DEF Places, Clients, main, writer
  <1>5. Books'
    BY <1>1 DEF Books, LedgerConserved, InHand, main, writer, stats, history
  <1> QED BY <1>3, <1>4, <1>5

\* The time of the watchdog runs out.
LEMMA ExpireBooks ==
  ASSUME BooksInv, UNCHANGED smoke, Expire
  PROVE  BooksInv'
  <1> USE DEF BooksInv, TypeOK, main, writer, stats, history
  <1>1. UNCHANGED <<main, queue, stop, writer, stats, stream, late, history>>
    BY DEF Expire
  <1>2. MainTyped' /\ WriterTyped' /\ RedisTyped' /\ CountersTyped'
    BY <1>1 DEF MainTyped, WriterTyped, RedisTyped, CountersTyped
  <1>3. Places' /\ Clients'
    BY <1>1 DEF Places, Clients
  <1>4. Books'
    BY <1>1 DEF Books, LedgerConserved, InHand
  <1> QED BY <1>2, <1>3, <1>4

LEMMA WriterBooks ==
  ASSUME BooksInv, UNCHANGED smoke, WriterStep
  PROVE  BooksInv'
  BY WalkBooks, TakeBooks, BuildBooks, SendBooks, PublishedBooks, RaisedBooks DEF WriterStep

LEMMA BooksKept ==
  ASSUME BooksInv, [MCNext]_all_vars
  PROVE  BooksInv'
  <1>1. CASE UNCHANGED all_vars
    BY <1>1, UnchangedBooks DEF all_vars, sink_vars, smoke_vars
  <1>2. CASE Publishes /\ Next
    <2>1. smoke = "off" /\ smoke' = "off"
      BY <1>2 DEF Publishes, smoke_vars
    <2>2. CASE MainStep
      BY <2>1, <2>2, OnEventBooks, SubmitBooks DEF MainStep
    <2>3. CASE WriterStep
      BY <2>1, <2>3, WriterBooks
    <2>4. CASE Interrupt \/ Join
      BY <2>1, <2>4, InterruptBooks
    <2>5. CASE Die
      BY <2>1, <2>5, DieBooks
    <2>6. CASE Relaunch
      BY <2>1, <2>6, RelaunchBooks
    <2>7. CASE Expire
      BY <2>1, <2>7, ExpireBooks
    <2>8. CASE \E c \in DOMAIN late : LateRun(c)
      BY <2>1, <2>8, LateBooks
    <2> QED BY <1>2, <2>2, <2>3, <2>4, <2>5, <2>6, <2>7, <2>8 DEF Next
  <1>3. CASE SmokeNext
    <2>1. smoke # "off"
      BY <1>3 DEF SmokeNext
    <2>2. CASE Going
      BY <2>2, GoingBooks
    <2>3. CASE Submit
      BY <2>3, SmokeSubmitBooks
    <2>4. CASE StopSink \/ Delete
      BY <2>4, DeleteBooks
    <2>5. CASE SmokeWriter
      BY <2>5, WriterBooks DEF SmokeWriter, smoke_vars
    <2>6. CASE SmokeEnds
      BY <2>1, <2>6, DieBooks DEF SmokeEnds
    <2>7. CASE SmokeAgain
      BY <2>7, RelaunchBooks DEF SmokeAgain
    <2>8. CASE \E c \in DOMAIN late : LateRun(c) /\ UNCHANGED smoke_vars
      BY <2>8, LateBooks DEF smoke_vars
    <2> QED BY <1>3, <2>2, <2>3, <2>4, <2>5, <2>6, <2>7, <2>8 DEF SmokeNext, Going
  <1> QED BY <1>1, <1>2, <1>3 DEF MCNext

-----------------------------------------------------------------------------
(***************************************************************************)
(* The order: what a step issues, and what it moves.                       *)
(***************************************************************************)
LEMMA MadeOf ==
  ASSUME NEW cmds, NEW k
  PROVE  \A x : x \in Made(cmds, k) <=> \E w \in cmds : k \in KeysOf(w.rec.code) /\ x = Entry(w, k)
  BY DEF Made

LEMMA IssuedTyped ==
  ASSUME BooksInv
  PROVE  /\ Piped \subseteq Command /\ Abandoned \subseteq Command
         /\ \A k \in Key : Issued(k) \subseteq EntryType /\ Stored(k) \subseteq EntryType
  <1> USE DEF BooksInv, TypeOK
  <1>1. Piped \subseteq Command
    BY SeqLen DEF Piped, WriterTyped
  <1>2. Abandoned \subseteq Command
    <2>1. ASSUME NEW c \in 1..Len(late), NEW i \in 1..Len(late[c])
          PROVE  late[c][i] \in Command
      <3>1. late[c] \in Seq(Command)
        BY SeqLen DEF RedisTyped, Connection
      <3> QED BY <3>1, SeqLen
    <2> QED BY <2>1 DEF Abandoned
  <1>3. ASSUME NEW k \in Key PROVE Stored(k) \subseteq EntryType
    <2>1. stream[k] \in Seq(EntryType)
      BY DEF RedisTyped
    <2> QED BY <2>1, SeqLen DEF Stored
  <1>4. ASSUME NEW k \in Key, NEW cmds, cmds \subseteq Command
        PROVE  Made(cmds, k) \subseteq EntryType
    BY <1>4, EntryTyped DEF Made
  <1> QED BY <1>1, <1>2, <1>3, <1>4 DEF Issued

\* A step that issues nothing, and lets nothing wait anew.
LEMMA IssuedShrinks ==
  ASSUME OrderInv, \A k \in Key : Issued(k)' \subseteq Issued(k), Waiting' \subseteq Waiting,
         UNCHANGED <<runs, arrived>>,
         wpc' # "dead" => wpc # "dead" /\ UNCHANGED last_ratime
  PROVE  AllAgree' /\ Covered' /\ IssuedBefore'
  <1>1. AllAgree'
    <2>1. ASSUME NEW k \in Key, NEW x \in Issued(k)', NEW y \in Issued(k)'
          PROVE  Agree(x, y)
      BY DEF OrderInv, AllAgree
    <2> QED BY <2>1 DEF AllAgree, Agree
  <1>2. Covered'
    <2>1. ASSUME NEW k \in Key, NEW x \in Issued(k)'
          PROVE  /\ x.run <= runs' /\ x.n <= arrived'
                 /\ x.run = runs' /\ wpc' # "dead" => x.id <= last_ratime'[k]
      BY DEF OrderInv, Covered
    <2> QED BY <2>1 DEF Covered
  <1>3. IssuedBefore'
    <2>1. ASSUME NEW k \in Key, NEW x \in Issued(k)', NEW n \in Waiting'
          PROVE  x.n < n
      BY DEF OrderInv, InTurn, IssuedBefore
    <2> QED BY <2>1 DEF IssuedBefore
  <1> QED BY <1>1, <1>2, <1>3

\* A step that leaves the server and the pipeline alone.
LEMMA NothingIssued ==
  ASSUME OrderInv, InLine', Waiting' \subseteq Waiting,
         UNCHANGED <<stream, late, pipe, runs, arrived, last_ratime, rejected>>,
         wpc' = "dead" <=> wpc = "dead"
  PROVE  OrderInv'
  <1>1. \A k \in Key : Issued(k)' = Issued(k) /\ Stored(k)' = Stored(k)
    BY DEF Issued, Stored, Piped, Abandoned, Made
  <1>2. AllAgree' /\ Covered' /\ IssuedBefore'
    BY <1>1, IssuedShrinks
  <1>3. PipeInOrder' /\ PipeLast' /\ Rising' /\ Unrefused'
    <2>1. Abandoned' = Abandoned
      BY DEF Abandoned
    <2> QED BY <1>1, <2>1 DEF OrderInv, InTurn, PipeInOrder, PipeLast, Rising, Unrefused, Made
  <1> QED BY <1>2, <1>3 DEF OrderInv, InTurn

LEMMA OrderInit == MCInit => OrderInv
  <1> SUFFICES ASSUME MCInit PROVE OrderInv
    OBVIOUS
  <1>1. Init
    BY DEF MCInit, NoSmoke, SmokeInit
  <1>2. /\ queue = <<>> /\ batch = <<>> /\ pipe = <<>> /\ late = <<>> /\ dpc = "drain"
        /\ \A k \in Key : stream[k] = <<>>
        /\ ~rejected /\ Len(<<>>) = 0
    BY <1>1, NoSeq DEF Init
  <1>3. InLine
    BY <1>2 DEF InLine, Submitting
  <1>4. Piped = {} /\ Abandoned = {} /\ \A k \in Key : Stored(k) = {}
    BY <1>2 DEF Piped, Abandoned, Stored
  <1>5. \A k \in Key : Issued(k) = {}
    BY <1>4 DEF Issued, Made
  <1>6. AllAgree /\ Covered /\ IssuedBefore
    BY <1>5 DEF AllAgree, Covered, IssuedBefore
  <1>7. PipeInOrder /\ PipeLast /\ Rising /\ Unrefused
    BY <1>2 DEF PipeInOrder, PipeLast, Rising, Unrefused
  <1> QED BY <1>3, <1>6, <1>7 DEF OrderInv, InTurn

\* A new record is younger than all that is there.
LEMMA OnEventOrder ==
  ASSUME BooksInv, OrderInv, NEW ra \in 0..MaxRa, NEW code \in Codes, OnEvent(ra, code)
  PROVE  OrderInv'
  <1> USE DEF BooksInv, TypeOK
  <1>1. /\ dpc = "drain" /\ arrived' = arrived + 1 /\ arrived \in Nat
        /\ UNCHANGED <<queue, stop, writer, stats, redis, runs, uncounted, acked, rejected>>
    BY DEF OnEvent, CountersTyped
  <1>2. dpc' \in Submitting => rec'.n = arrived + 1
    BY <1>1 DEF OnEvent, Submitting
  <1>3. /\ \A i \in 1..Len(batch) : batch[i].n \in Nat /\ batch[i].n <= arrived
        /\ \A j \in 1..Len(queue) : queue[j].n \in Nat /\ queue[j].n <= arrived
    <2>1. /\ \A i \in 1..Len(batch) : batch[i] \in Record
          /\ \A j \in 1..Len(queue) : queue[j] \in Record
      BY SeqLen DEF MainTyped, WriterTyped
    <2> QED BY <2>1 DEF OrderInv, InLine, Record
  <1>4. InLine'
    BY SMTT(30), <1>1, <1>2, <1>3 DEF OrderInv, InLine, writer
  <1>5. \A k \in Key : Issued(k)' = Issued(k)
    BY <1>1 DEF Issued, Stored, Piped, Abandoned, Made, writer, redis
  <1>6. AllAgree' /\ Covered'
    <2>1. AllAgree'
      BY <1>5 DEF OrderInv, AllAgree, Agree
    <2>2. Covered'
      <3>1. ASSUME NEW k \in Key, NEW x \in Issued(k)
            PROVE  /\ x.run <= runs' /\ x.n <= arrived'
                   /\ x.run = runs' /\ wpc' # "dead" => x.id <= last_ratime'[k]
        <4>1. x.n \in Nat /\ x.run <= runs /\ x.n <= arrived
          BY IssuedTyped DEF EntryType, OrderInv, Covered
        <4>2. x.run = runs /\ wpc # "dead" => x.id <= last_ratime[k]
          BY DEF OrderInv, Covered
        <4> QED BY <1>1, <4>1, <4>2 DEF writer
      <3> QED BY <1>5, <3>1 DEF Covered
    <2> QED BY <2>1, <2>2
  <1>7. IssuedBefore'
    <2>1. Waiting' \subseteq Waiting \cup {arrived + 1}
      BY <1>1, <1>2 DEF Waiting, writer
    <2>2. ASSUME NEW k \in Key, NEW x \in Issued(k) PROVE x.n < arrived + 1
      BY <1>1, IssuedTyped DEF EntryType, OrderInv, Covered
    <2> QED BY <1>5, <2>1, <2>2 DEF OrderInv, InTurn, IssuedBefore
  <1>8. PipeInOrder' /\ PipeLast' /\ Rising' /\ Unrefused'
    BY <1>1 DEF OrderInv, InTurn, PipeInOrder, PipeLast, Rising, Unrefused, Made, Stored, Abandoned, writer, redis
  <1> QED BY <1>4, <1>6, <1>7, <1>8 DEF OrderInv, InTurn
LEMMA RecordsTyped ==
  ASSUME BooksInv
  PROVE  /\ \A i \in 1..Len(batch) : batch[i] \in Record /\ batch[i].n \in Nat
         /\ \A j \in 1..Len(queue) : queue[j] \in Record /\ queue[j].n \in Nat
         /\ Len(batch) \in Nat /\ Len(queue) \in Nat /\ Len(pipe) \in Nat /\ arrived \in Nat
  <1>1. /\ \A i \in 1..Len(batch) : batch[i] \in Record
        /\ \A j \in 1..Len(queue) : queue[j] \in Record
        /\ Len(batch) \in Nat /\ Len(queue) \in Nat /\ Len(pipe) \in Nat /\ arrived \in Nat
    BY SeqLen DEF BooksInv, TypeOK, MainTyped, WriterTyped, CountersTyped
  <1> QED BY <1>1 DEF Record

\* A record that joins the end of the queue is younger than all of it.
LEMMA LineGrows ==
  ASSUME BooksInv, InLine, NEW r \in Record, queue' = Append(queue, r),
         \A i \in 1..Len(batch) : batch[i].n < r.n, \A j \in 1..Len(queue) : queue[j].n < r.n,
         r.n <= arrived', arrived <= arrived', arrived' \in Nat,
         batch' = batch, dpc' \notin Submitting
  PROVE  InLine' /\ {queue'[j].n : j \in 1..Len(queue')} = {queue[j].n : j \in 1..Len(queue)} \cup {r.n}
  <1>1. /\ Len(queue) \in Nat /\ Len(queue') = Len(queue) + 1
        /\ \A j \in 1..Len(queue) + 1 : queue'[j] = IF j <= Len(queue) THEN queue[j] ELSE r
    BY AppendSeq DEF BooksInv, TypeOK, MainTyped
  <1>2. /\ \A i \in 1..Len(batch) : batch[i].n \in Nat
        /\ \A j \in 1..Len(queue) : queue[j].n \in Nat
        /\ r.n \in Nat /\ arrived \in Nat
    BY RecordsTyped DEF Record
  <1>3. \A j \in 1..Len(queue) : j \in 1..Len(queue) + 1 /\ queue'[j] = queue[j]
    BY <1>1
  <1>4. Len(queue) + 1 \in 1..Len(queue) + 1 /\ queue'[Len(queue) + 1] = r
    BY <1>1
  <1>5. \A j \in 1..Len(queue) + 1 : j \in 1..Len(queue) \/ j = Len(queue) + 1
    BY <1>1
  <1>6. ASSUME NEW i \in 1..Len(queue) + 1, NEW j \in 1..Len(queue) + 1, i < j
        PROVE  queue'[i].n < queue'[j].n
    <2>1. i \in 1..Len(queue)
      BY <1>1, <1>6
    <2>2. CASE j \in 1..Len(queue)
      BY <1>3, <1>6, <2>1, <2>2 DEF InLine
    <2>3. CASE j = Len(queue) + 1
      BY <1>3, <1>4, <2>1, <2>3
    <2> QED BY <1>5, <2>2, <2>3
  <1>7. InLine'
    <2>1. \A i \in 1..Len(batch), j \in 1..Len(queue) + 1 : batch[i].n < queue'[j].n
      BY <1>3, <1>4, <1>5 DEF InLine
    <2>2. \A j \in 1..Len(queue) + 1 : queue'[j].n <= arrived'
      BY <1>2, <1>3, <1>4, <1>5 DEF InLine
    <2>3. \A i \in 1..Len(batch) : batch[i].n <= arrived'
      BY <1>2 DEF InLine
    <2> QED BY <1>1, <1>6, <2>1, <2>2, <2>3 DEF InLine
  <1>8. {queue'[j].n : j \in 1..Len(queue')} = {queue[j].n : j \in 1..Len(queue)} \cup {r.n}
    BY <1>1, <1>3, <1>4, <1>5
  <1> QED BY <1>7, <1>8

LEMMA LineShrinks ==
  ASSUME BooksInv, InLine, queue # <<>>, queue' = Tail(queue)
  PROVE  /\ Len(queue') \in Nat /\ \A j \in 1..Len(queue') : j + 1 \in 1..Len(queue) /\ queue'[j] = queue[j + 1]
         /\ \A i, j \in 1..Len(queue') : i < j => queue'[i].n < queue'[j].n
  <1>1. /\ Len(queue') = Len(queue) - 1 /\ Len(queue) \in Nat \ {0}
        /\ \A j \in 1..Len(queue) - 1 : queue'[j] = queue[j + 1]
    BY TailSeq DEF BooksInv, TypeOK, MainTyped
  <1>2. /\ Len(queue') \in Nat
        /\ \A j \in 1..Len(queue') : j + 1 \in 1..Len(queue) /\ queue'[j] = queue[j + 1]
    BY <1>1
  <1>3. ASSUME NEW i \in 1..Len(queue'), NEW j \in 1..Len(queue'), i < j
        PROVE  queue'[i].n < queue'[j].n
    <2>1. i + 1 < j + 1
      BY <1>2, <1>3
    <2> QED BY <1>2, <2>1 DEF InLine
  <1> QED BY <1>2, <1>3

LEMMA MainOrder ==
  ASSUME BooksInv, OrderInv, Put \/ Evict \/ CountDrop \/ Reput
  PROVE  OrderInv'
  <1> USE DEF OrderInv
  <1>1. /\ UNCHANGED <<rec, drained, counts, stop, writer, published, redis_dropped, redis, history>>
        /\ dpc \in Submitting /\ rec \in Record /\ wpc # "dead"
    BY SubmitChanges
  <1>2. /\ \A i \in 1..Len(batch) : batch[i].n < rec.n
        /\ \A j \in 1..Len(queue) : queue[j].n < rec.n /\ rec.n <= arrived
        /\ rec.n <= arrived /\ arrived \in Nat
    BY <1>1 DEF InLine, BooksInv, TypeOK, CountersTyped
  <1>3. CASE queue' = Append(queue, rec) /\ dpc' = "drain"
    <2>1. InLine' /\ {queue'[j].n : j \in 1..Len(queue')} = {queue[j].n : j \in 1..Len(queue)} \cup {rec.n}
      BY <1>1, <1>2, <1>3, LineGrows DEF writer, history, Submitting
    <2>2. Waiting' \subseteq Waiting
      BY <1>1, <1>3, <2>1 DEF Waiting, writer, Submitting
    <2> QED BY <1>1, <2>1, <2>2, NothingIssued DEF writer, redis, history
  <1>4. CASE queue # <<>> /\ queue' = Tail(queue) /\ dpc' = "count"
    <2>1. /\ \A j \in 1..Len(queue') : j + 1 \in 1..Len(queue) /\ queue'[j] = queue[j + 1]
          /\ \A i, j \in 1..Len(queue') : i < j => queue'[i].n < queue'[j].n
      BY <1>4, LineShrinks
    <2>2. InLine'
      BY <1>1, <2>1 DEF InLine, writer, history
    <2>3. Waiting' \subseteq Waiting
      BY <1>1, <2>1 DEF Waiting, writer
    <2> QED BY <1>1, <2>2, <2>3, NothingIssued DEF writer, redis, history
  <1>5. CASE queue' = queue
    <2>1. InLine' /\ Waiting' \subseteq Waiting
      BY <1>1, <1>5 DEF InLine, Waiting, writer, history
    <2> QED BY <1>1, <2>1, NothingIssued DEF writer, redis, history
  <1> QED BY <1>3, <1>4, <1>5 DEF Put, Evict, CountDrop, Reput

LEMMA InterruptOrder ==
  ASSUME BooksInv, OrderInv, Interrupt \/ Join
  PROVE  OrderInv'
  <1>1. /\ UNCHANGED <<rec, queue, writer, stats, redis, runs, arrived, rejected>>
        /\ dpc' \notin Submitting
    BY DEF Interrupt, Join, history, Submitting
  <1>2. InLine' /\ Waiting' \subseteq Waiting
    BY <1>1 DEF OrderInv, InLine, Waiting, writer
  <1> QED BY <1>1, <1>2, NothingIssued DEF writer, redis

LEMMA WalkOrder ==
  ASSUME BooksInv, OrderInv, NEW ok \in BOOLEAN,
         Top \/ Connect(ok) \/ Ready(ok) \/ Hset(ok) \/ Hexpire(ok) \/ Idle
  PROVE  OrderInv'
  <1>1. /\ UNCHANGED <<main, queue, stop, batch, pipe, last_ratime, failed, stream, late, history>>
        /\ batch = <<>> /\ wpc # "dead" /\ wpc' # "dead"
    BY WalkChanges
  <1>2. InLine'
    BY <1>1 DEF OrderInv, InLine, main, history
  <1>3. Waiting' \subseteq Waiting
    BY <1>1, NoSeq DEF Waiting, main
  <1> QED BY <1>1, <1>2, <1>3, NothingIssued DEF history
\* The head of the queue joins the end of the batch.
LEMMA TakeOrder ==
  ASSUME BooksInv, OrderInv, Take
  PROVE  OrderInv'
  <1>1. /\ wpc = "take" /\ wpc' # "dead"
        /\ UNCHANGED <<main, stop, pipe, last_ratime, failed, redis, runs, arrived, rejected>>
    BY DEF Take
  <1>2. Len(pipe) = 0
    BY <1>1, NoSeq DEF BooksInv, Places
  <1>3. CASE queue # <<>> /\ Len(batch) < BatchSize
    <2>1. batch' = Append(batch, Head(queue)) /\ queue' = Tail(queue) /\ wpc' = wpc
      BY <1>3 DEF Take
    <2>2. /\ Len(batch) \in Nat /\ Len(queue) \in Nat \ {0}
          /\ Head(queue) = queue[1] /\ Head(queue) \in Record /\ Len(queue') = Len(queue) - 1
          /\ Len(batch') = Len(batch) + 1
          /\ \A i \in 1..Len(batch) + 1 : batch'[i] = IF i <= Len(batch) THEN batch[i] ELSE queue[1]
      BY <1>3, <2>1, TailSeq, AppendSeq DEF BooksInv, TypeOK, MainTyped, WriterTyped
    <2>3. /\ \A j \in 1..Len(queue') : j + 1 \in 1..Len(queue) /\ queue'[j] = queue[j + 1] /\ 1 < j + 1
          /\ \A i, j \in 1..Len(queue') : i < j => queue'[i].n < queue'[j].n
      BY <1>3, <2>1, OrderInv, LineShrinks DEF OrderInv
    <2>4. /\ \A i \in 1..Len(batch) : i \in 1..Len(batch') /\ batch'[i] = batch[i]
          /\ batch'[Len(batch) + 1] = queue[1] /\ 1 \in 1..Len(queue)
          /\ \A i \in 1..Len(batch') : i \in 1..Len(batch) \/ i = Len(batch) + 1
      BY <2>2
    <2>5. InLine'
      <3>1. ASSUME NEW i \in 1..Len(batch'), NEW j \in 1..Len(batch'), i < j
            PROVE  batch'[i].n < batch'[j].n
        <4>1. i \in 1..Len(batch)
          BY <2>2, <3>1
        <4>2. CASE j \in 1..Len(batch)
          BY <2>4, <3>1, <4>1, <4>2 DEF OrderInv, InLine
        <4>3. CASE j = Len(batch) + 1
          BY <2>4, <4>1, <4>3 DEF OrderInv, InLine
        <4> QED BY <2>4, <4>2, <4>3
      <3>2. \A i \in 1..Len(batch'), j \in 1..Len(queue') : batch'[i].n < queue'[j].n
        BY <2>3, <2>4 DEF OrderInv, InLine
      <3>3. dpc \in Submitting => \A i \in 1..Len(batch') : batch'[i].n < rec.n
        BY <2>4 DEF OrderInv, InLine
      <3>4. \A i \in 1..Len(batch') : batch'[i].n <= arrived
        BY <2>4 DEF OrderInv, InLine
      <3> QED BY <1>1, <2>3, <3>1, <3>2, <3>3, <3>4 DEF OrderInv, InLine, main
    <2>6. Waiting' \subseteq Waiting
      <3>1. ASSUME NEW i \in 1..Len(batch') PROVE batch'[i].n \in Waiting
        <4>1. CASE i \in 1..Len(batch)
          <5>1. i > Len(pipe)
            BY <1>2, <4>1
          <5> QED BY <1>1, <2>4, <4>1, <5>1 DEF Waiting
        <4>2. CASE i = Len(batch) + 1
          BY <2>4, <4>2 DEF Waiting
        <4> QED BY <2>4, <4>1, <4>2
      <3>2. \A j \in 1..Len(queue') : queue'[j].n \in Waiting
        BY <2>3 DEF Waiting
      <3> QED BY SMTT(30), <1>1, <3>1, <3>2 DEF Waiting, main
    <2> QED BY <1>1, <2>5, <2>6, NothingIssued DEF redis
  <1>4. CASE ~(queue # <<>> /\ Len(batch) < BatchSize)
    <2>1. UNCHANGED <<batch, queue>>
      BY <1>4 DEF Take
    <2>2. InLine' /\ Waiting' \subseteq Waiting
      BY <1>1, <2>1 DEF OrderInv, InLine, Waiting, main
    <2> QED BY <1>1, <2>2, NothingIssued DEF redis
  <1> QED BY <1>3, <1>4

LEMMA PublishedOrder ==
  ASSUME BooksInv, OrderInv, Published
  PROVE  OrderInv'
  <1>1. /\ wpc = "execute" /\ wpc' = "top" /\ batch' = <<>>
        /\ UNCHANGED <<main, queue, pipe, last_ratime, redis, runs, arrived, rejected>>
    BY DEF Published
  <1>2. InLine' /\ Waiting' \subseteq Waiting
    BY <1>1, NoSeq DEF OrderInv, InLine, Waiting, main
  <1> QED BY <1>1, <1>2, NothingIssued DEF redis

LEMMA SmokeSubmitOrder ==
  ASSUME BooksInv, OrderInv, Submit
  PROVE  OrderInv'
  <1>1. /\ dpc = "drain" /\ dpc' = dpc /\ arrived' = arrived + 1
        /\ UNCHANGED <<rec, stop, writer, stats, redis, runs, uncounted, acked, rejected>>
    BY SmokeSubmitChanges
  <1>2. PICK r \in Record : r.n = arrived + 1 /\ queue' = Append(queue, r)
    BY SmokeSubmitChanges
  <1>3. /\ \A i \in 1..Len(batch) : batch[i].n \in Nat /\ batch[i].n <= arrived
        /\ \A j \in 1..Len(queue) : queue[j].n \in Nat /\ queue[j].n <= arrived
        /\ arrived \in Nat
    BY RecordsTyped DEF OrderInv, InLine
  <1>4. /\ \A i \in 1..Len(batch) : batch[i].n < r.n
        /\ \A j \in 1..Len(queue) : queue[j].n < r.n
        /\ r.n <= arrived' /\ arrived <= arrived' /\ arrived' \in Nat
    BY <1>1, <1>2, <1>3
  <1>5. InLine' /\ {queue'[j].n : j \in 1..Len(queue')} = {queue[j].n : j \in 1..Len(queue)} \cup {r.n}
    BY <1>1, <1>2, <1>4, LineGrows DEF OrderInv, writer, Submitting
  <1>6. \A k \in Key : Issued(k)' = Issued(k)
    BY <1>1 DEF Issued, Stored, Piped, Abandoned, Made, writer, redis
  <1>7. AllAgree' /\ Covered'
    <2>1. AllAgree'
      BY <1>6 DEF OrderInv, AllAgree, Agree
    <2>2. ASSUME NEW k \in Key, NEW x \in Issued(k)
          PROVE  /\ x.run <= runs' /\ x.n <= arrived'
                 /\ x.run = runs' /\ wpc' # "dead" => x.id <= last_ratime'[k]
      <3>1. x.n \in Nat /\ x.run <= runs /\ x.n <= arrived
        BY IssuedTyped DEF EntryType, OrderInv, Covered
      <3>2. x.run = runs /\ wpc # "dead" => x.id <= last_ratime[k]
        BY DEF OrderInv, Covered
      <3> QED BY <1>1, <1>3, <3>1, <3>2 DEF writer
    <2> QED BY <1>6, <2>1, <2>2 DEF Covered
  <1>8. IssuedBefore'
    <2>1. Waiting' \subseteq Waiting \cup {arrived + 1}
      BY <1>1, <1>2, <1>5 DEF Waiting, writer, Submitting
    <2>2. ASSUME NEW k \in Key, NEW x \in Issued(k) PROVE x.n < arrived + 1
      BY <1>3, IssuedTyped DEF EntryType, OrderInv, Covered
    <2> QED BY <1>6, <2>1, <2>2 DEF OrderInv, InTurn, IssuedBefore
  <1>9. PipeInOrder' /\ PipeLast' /\ Rising' /\ Unrefused'
    BY <1>1 DEF OrderInv, InTurn, PipeInOrder, PipeLast, Rising, Unrefused, Made, Stored, Abandoned, writer, redis
  <1> QED BY <1>5, <1>7, <1>8, <1>9 DEF OrderInv, InTurn

\* The steps that the order does not see.
LEMMA UnseenOrder ==
  ASSUME BooksInv, OrderInv, UNCHANGED <<main, queue, writer, stream, late, runs, arrived, rejected>>
  PROVE  OrderInv'
  <1>1. InLine' /\ Waiting' \subseteq Waiting
    BY DEF OrderInv, InLine, Waiting, main, writer
  <1> QED BY <1>1, NothingIssued DEF writer
-----------------------------------------------------------------------------
\* A command is issued: it is younger than all that was, and its IDs are above the
\* guard's memory.
LEMMA BuildIssues ==
  ASSUME BooksInv, OrderInv, Build, Len(pipe) < Len(batch)
  PROVE  \E w \in Command :
           /\ w.rec = batch[Len(pipe) + 1] /\ w.run = runs /\ w.rec.n <= arrived
           /\ \A k \in KeysOf(w.rec.code) : w.id[k] > last_ratime[k] /\ last_ratime'[k] = w.id[k]
           /\ \A k \in Key : last_ratime'[k] >= last_ratime[k]
           /\ \A k \in Key : \A x \in Issued(k) : x.n < w.rec.n
           /\ \A k \in Key : Issued(k)' \subseteq Issued(k) \cup Made({w}, k)
           /\ Len(pipe') = Len(pipe) + 1
           /\ \A i \in 1..Len(pipe) : pipe'[i] = pipe[i]
           /\ pipe'[Len(pipe) + 1] = w /\ wpc' = wpc
  <1>1. PICK w \in Command :
           /\ w.rec = batch[Len(pipe) + 1] /\ w.run = runs
           /\ \A k \in KeysOf(w.rec.code) : w.id[k] > last_ratime[k] /\ last_ratime'[k] = w.id[k]
           /\ \A k \in Key : k \notin KeysOf(w.rec.code) => last_ratime'[k] = last_ratime[k]
           /\ last_ratime' \in [Key -> Nat]
           /\ pipe' = Append(pipe, w) /\ wpc' = wpc
    BY BuildChanges
  <1>2. Len(pipe) \in Nat /\ Len(batch) \in Nat /\ wpc = "build"
    BY RecordsTyped DEF Build
  <1>3. Len(pipe) + 1 \in 1..Len(batch) /\ Len(pipe) + 1 > Len(pipe)
    BY <1>2
  <1>4. w.rec.n \in Waiting /\ w.rec.n <= arrived
    BY <1>1, <1>2, <1>3 DEF Waiting, OrderInv, InLine
  <1>5. \A k \in Key : \A x \in Issued(k) : x.n < w.rec.n
    BY <1>4 DEF OrderInv, InTurn, IssuedBefore
  <1>6. /\ Len(pipe') = Len(pipe) + 1
        /\ \A i \in 1..Len(pipe) + 1 : pipe'[i] = IF i <= Len(pipe) THEN pipe[i] ELSE w
    BY <1>1, AppendSeq DEF BooksInv, TypeOK, WriterTyped
  <1>7. /\ \A i \in 1..Len(pipe) : pipe'[i] = pipe[i]
        /\ pipe'[Len(pipe) + 1] = w
        /\ \A i \in 1..Len(pipe') : i \in 1..Len(pipe) \/ i = Len(pipe) + 1
    BY <1>2, <1>6
  <1>8. Piped' \subseteq Piped \cup {w}
    BY <1>7 DEF Piped
  <1>9. stream' = stream /\ late' = late
    BY DEF Build, redis
  <1>10. \A k \in Key : Issued(k)' \subseteq Issued(k) \cup Made({w}, k)
    BY <1>8, <1>9 DEF Issued, Made, Stored, Abandoned
  <1>11. ASSUME NEW k \in Key PROVE last_ratime'[k] >= last_ratime[k]
    <2>1. last_ratime[k] \in Nat /\ last_ratime'[k] \in Nat
      BY <1>1 DEF BooksInv, TypeOK, WriterTyped
    <2> QED BY <1>1, <2>1
  <1> QED BY <1>1, <1>4, <1>5, <1>6, <1>7, <1>10, <1>11

LEMMA BuildOrder ==
  ASSUME BooksInv, OrderInv, Build
  PROVE  OrderInv'
  <1>1. /\ wpc = "build" /\ UNCHANGED <<main, queue, stop, batch, redis, runs, arrived, rejected>>
    BY DEF Build, WriterRest
  <1>2. InLine'
    BY <1>1 DEF OrderInv, InLine, main
  <1>3. CASE Len(pipe) < Len(batch)
    <2>1. PICK w \in Command :
             /\ w.rec = batch[Len(pipe) + 1] /\ w.run = runs /\ w.rec.n <= arrived
             /\ \A k \in KeysOf(w.rec.code) : w.id[k] > last_ratime[k] /\ last_ratime'[k] = w.id[k]
             /\ \A k \in Key : last_ratime'[k] >= last_ratime[k]
             /\ \A k \in Key : \A x \in Issued(k) : x.n < w.rec.n
             /\ \A k \in Key : Issued(k)' \subseteq Issued(k) \cup Made({w}, k)
             /\ Len(pipe') = Len(pipe) + 1
             /\ \A i \in 1..Len(pipe) : pipe'[i] = pipe[i]
             /\ pipe'[Len(pipe) + 1] = w /\ wpc' = wpc
      BY <1>3, BuildIssues
    <2>2. /\ w.rec.n \in Nat \ {0} /\ runs \in Nat \ {0} /\ wpc # "dead"
          /\ Len(pipe) \in Nat /\ Len(batch) \in Nat
          /\ last_ratime \in [Key -> Nat]
      BY <1>1, RecordsTyped, CommandTyped DEF Record, BooksInv, TypeOK, CountersTyped, WriterTyped
    <2>3. ASSUME NEW k \in Key, NEW x \in Made({w}, k)
          PROVE  /\ x.n = w.rec.n /\ x.run = runs /\ x.id \in Nat \ {0}
                 /\ x.id > last_ratime[k] /\ last_ratime'[k] = x.id
      BY <2>1, CommandTyped, EntryTyped DEF Made
    <2>4. ASSUME NEW k \in Key, NEW x \in Issued(k)
          PROVE  /\ x.n \in Nat \ {0} /\ x.id \in Nat \ {0} /\ x.run \in Nat \ {0}
                 /\ x.run <= runs /\ x.n <= arrived /\ x.n < w.rec.n
                 /\ x.run = runs => x.id <= last_ratime[k]
      BY <2>1, <2>2, IssuedTyped DEF EntryType, OrderInv, Covered
    <2>5. AllAgree'
      <3>1. ASSUME NEW k \in Key, NEW x \in Issued(k) \cup Made({w}, k),
                   NEW y \in Issued(k) \cup Made({w}, k)
            PROVE  Agree(x, y)
        <4>1. CASE x \in Issued(k) /\ y \in Issued(k)
          BY <4>1 DEF OrderInv, AllAgree
        <4>2. CASE x \in Issued(k) /\ y \in Made({w}, k)
          <5>1. y.n = w.rec.n /\ y.run = runs /\ y.id \in Nat /\ y.id > last_ratime[k]
            BY <2>3, <4>2
          <5>2. /\ x.n \in Nat /\ x.id \in Nat /\ x.n < w.rec.n
                /\ x.run = runs => x.id <= last_ratime[k]
            BY <2>4, <4>2
          <5>3. last_ratime[k] \in Nat
            BY <2>2
          <5> QED BY <2>2, <5>1, <5>2, <5>3 DEF Agree
        <4>3. CASE x \in Made({w}, k) /\ y \in Issued(k)
          <5>1. x.n = w.rec.n
            BY <2>3, <4>3
          <5>2. y.n \in Nat /\ y.n < w.rec.n
            BY <2>4, <4>3
          <5> QED BY <2>2, <5>1, <5>2 DEF Agree
        <4>4. CASE x \in Made({w}, k) /\ y \in Made({w}, k)
          <5>1. x = y
            BY <4>4 DEF Made
          <5>2. x.n = w.rec.n
            BY <2>3, <4>4
          <5> QED BY <2>2, <5>1, <5>2 DEF Agree
        <4> QED BY <4>1, <4>2, <4>3, <4>4
      <3> QED BY <2>1, <3>1 DEF AllAgree, Agree
    <2>6. Covered'
      <3>1. ASSUME NEW k \in Key, NEW x \in Issued(k) \cup Made({w}, k)
            PROVE  /\ x.run <= runs' /\ x.n <= arrived'
                   /\ x.run = runs' /\ wpc' # "dead" => x.id <= last_ratime'[k]
        <4>1. CASE x \in Made({w}, k)
          <5>1. x.run = runs /\ x.n = w.rec.n /\ x.id = last_ratime'[k] /\ x.id \in Nat
            BY <2>3, <4>1
          <5>2. x.id <= last_ratime'[k]
            BY <5>1
          <5> QED BY <1>1, <2>1, <2>2, <5>1, <5>2
        <4>2. CASE x \in Issued(k)
          <5>1. last_ratime'[k] \in Nat /\ last_ratime[k] \in Nat
            BY <1>3, <2>2, BuildChanges
          <5> QED BY <1>1, <2>1, <2>2, <2>4, <4>2, <5>1
        <4> QED BY <4>1, <4>2
      <3> QED BY <2>1, <3>1 DEF Covered
    <2>7. Waiting' \subseteq Waiting /\ \A n \in Waiting' : w.rec.n < n
      <3>1. Waiting' \subseteq Waiting
        <4>1. \A i \in 1..Len(batch) : i > Len(pipe') => i > Len(pipe)
          BY <2>1, <2>2
        <4> QED BY <1>1, <2>1, <4>1 DEF Waiting, main
      <3>2. Len(pipe) + 1 \in 1..Len(batch)
        BY <1>3, <2>2
      <3>3. \A j \in 1..Len(queue) : w.rec.n < queue[j].n
        BY <2>1, <3>2 DEF OrderInv, InLine
      <3>4. dpc \in Submitting => w.rec.n < rec.n
        BY <2>1, <3>2 DEF OrderInv, InLine
      <3>5. \A j \in 1..Len(batch) : j > Len(pipe') => w.rec.n < batch[j].n
        <4>1. \A j \in 1..Len(batch) : j > Len(pipe') => Len(pipe) + 1 < j
          BY <2>1, <2>2
        <4> QED BY <2>1, <3>2, <4>1 DEF OrderInv, InLine
      <3>6. \A n \in Waiting' : w.rec.n < n
        BY <1>1, <3>3, <3>4, <3>5 DEF Waiting, main
      <3> QED BY <3>1, <3>6
    <2>8. IssuedBefore'
      <3>1. ASSUME NEW k \in Key, NEW x \in Issued(k) \cup Made({w}, k), NEW n \in Waiting'
            PROVE  x.n < n
        BY <2>3, <2>7 DEF OrderInv, InTurn, IssuedBefore
      <3> QED BY <2>1, <3>1 DEF IssuedBefore
    <2>9. \A i \in 1..Len(pipe') : i \in 1..Len(pipe) \/ i = Len(pipe) + 1
      BY <2>1, <2>2
    <2>10. \A i \in 1..Len(pipe) : pipe[i].rec.n < w.rec.n
      <3>1. ASSUME NEW i \in 1..Len(pipe) PROVE pipe[i].rec.n < w.rec.n
        <4>1. pipe[i] \in Piped /\ pipe[i] \in Command
          BY IssuedTyped DEF Piped
        <4>2. StreamKey \in KeysOf(pipe[i].rec.code) /\ StreamKey \in Key
          BY <4>1, KeysTyped, CommandTyped DEF Record
        <4>3. Entry(pipe[i], StreamKey) \in Issued(StreamKey)
          BY <4>1, <4>2, MadeOf DEF Issued
        <4> QED BY <2>1, <4>1, <4>2, <4>3, EntryTyped
      <3> QED BY <3>1
    <2>11. PipeInOrder'
      <3>1. ASSUME NEW i \in 1..Len(pipe'), NEW j \in 1..Len(pipe'), i < j
            PROVE  pipe'[i].rec.n < pipe'[j].rec.n
        <4>1. i \in 1..Len(pipe)
          BY <2>1, <2>2, <3>1
        <4>2. CASE j \in 1..Len(pipe)
          BY <2>1, <3>1, <4>1, <4>2 DEF OrderInv, InTurn, PipeInOrder
        <4>3. CASE j = Len(pipe) + 1
          BY <2>1, <2>10, <4>1, <4>3
        <4> QED BY <2>9, <4>2, <4>3
      <3> QED BY <3>1 DEF PipeInOrder
    <2>12. PipeLast'
      <3>1. \A k \in Key : (Stored(k) \cup Made(Abandoned, k))' = Stored(k) \cup Made(Abandoned, k)
        BY <1>1 DEF Stored, Made, Abandoned, redis
      <3>2. ASSUME NEW k \in Key, NEW i \in 1..Len(pipe'), NEW x \in Stored(k) \cup Made(Abandoned, k)
            PROVE  x.n < pipe'[i].rec.n
        <4>1. CASE i \in 1..Len(pipe)
          BY <2>1, <4>1 DEF OrderInv, InTurn, PipeLast
        <4>2. CASE i = Len(pipe) + 1
          BY <2>1, <4>2 DEF Issued
        <4> QED BY <2>9, <4>1, <4>2
      <3> QED BY <3>1, <3>2 DEF PipeLast
    <2>13. Rising' /\ Unrefused'
      BY <1>1 DEF OrderInv, Rising, Unrefused, redis
    <2> QED BY <1>2, <2>5, <2>6, <2>8, <2>11, <2>12, <2>13 DEF OrderInv, InTurn
  <1>4. CASE ~(Len(pipe) < Len(batch))
    <2>1. wpc' = "execute" /\ UNCHANGED <<pipe, last_ratime>>
      BY <1>4 DEF Build
    <2>2. Waiting' \subseteq Waiting
      BY <1>1, <2>1 DEF Waiting, main
    <2> QED BY <1>1, <1>2, <2>1, <2>2, NothingIssued DEF redis
  <1> QED BY <1>3, <1>4
-----------------------------------------------------------------------------
\* What the server stores is above all it had stored.
LEMMA LastIdLast ==
  ASSUME BooksInv, Rising, NEW k \in Key
  PROVE  /\ LastId(k) \in Nat
         /\ \A i \in 1..Len(stream[k]) : stream[k][i].id \in Nat /\ stream[k][i].id <= LastId(k)
         /\ LastId(k) > 0 => \E e \in Stored(k) : e.id = LastId(k)
  <1>1. stream[k] \in Seq(EntryType)
    BY DEF BooksInv, TypeOK, RedisTyped
  <1>2. /\ Len(stream[k]) \in Nat /\ (stream[k] # <<>> <=> Len(stream[k]) > 0)
        /\ \A i \in 1..Len(stream[k]) : stream[k][i] \in EntryType
    BY <1>1, SeqLen
  <1>3. \A i \in 1..Len(stream[k]) : stream[k][i].id \in Nat
    BY <1>2 DEF EntryType
  <1>4. CASE stream[k] = <<>>
    <2>1. Len(stream[k]) = 0
      BY <1>2, <1>4
    <2> QED BY <1>4, <2>1 DEF LastId
  <1>5. CASE stream[k] # <<>>
    <2>1. Len(stream[k]) \in 1..Len(stream[k]) /\ LastId(k) = stream[k][Len(stream[k])].id
      BY <1>2, <1>5 DEF LastId
    <2>2. ASSUME NEW i \in 1..Len(stream[k]) PROVE stream[k][i].id <= LastId(k)
      <3>1. CASE i = Len(stream[k])
        BY <1>3, <2>1, <3>1
      <3>2. CASE i < Len(stream[k])
        <4>1. stream[k][i].id < stream[k][Len(stream[k])].id
          BY <2>1, <3>2 DEF Rising
        <4> QED BY <1>3, <2>1, <4>1
      <3> QED BY <1>2, <3>1, <3>2
    <2> QED BY <1>3, <2>1, <2>2 DEF Stored
  <1> QED BY <1>4, <1>5

LEMMA AddedRises ==
  ASSUME BooksInv, Rising, NEW w \in Command, NEW keys \in SUBSET KeysOf(w.rec.code),
         stream' = Added(w, keys)
  PROVE  Rising' /\ \A k \in Key : Stored(k)' \subseteq Stored(k) \cup Made({w}, k)
  <1>1. stream \in [Key -> Seq(EntryType)]
    BY DEF BooksInv, TypeOK, RedisTyped
  <1>2. ASSUME NEW k \in Key
        PROVE  /\ \A i, j \in 1..Len(stream'[k]) : i < j => stream'[k][i].id < stream'[k][j].id
               /\ Stored(k)' \subseteq Stored(k) \cup Made({w}, k)
    <2>1. CASE stream'[k] = stream[k]
      BY <2>1 DEF Rising, Stored
    <2>2. CASE k \in keys /\ ~Refuses(w, k) /\ stream'[k] = Append(stream[k], Entry(w, k))
      <3>1. Entry(w, k) \in EntryType /\ Entry(w, k).id = w.id[k] /\ w.id[k] \in Nat
        BY <2>2, EntryTyped, CommandTyped
      <3>2. /\ Len(stream[k]) \in Nat /\ Len(stream'[k]) = Len(stream[k]) + 1
            /\ \A i \in 1..Len(stream[k]) + 1 :
                 stream'[k][i] = IF i <= Len(stream[k]) THEN stream[k][i] ELSE Entry(w, k)
        BY <1>1, <2>2, <3>1, AppendSeq
      <3>3. /\ \A i \in 1..Len(stream[k]) : stream'[k][i] = stream[k][i]
            /\ stream'[k][Len(stream[k]) + 1] = Entry(w, k)
            /\ \A i \in 1..Len(stream'[k]) : i \in 1..Len(stream[k]) \/ i = Len(stream[k]) + 1
        BY <3>2
      <3>4. LastId(k) < w.id[k] /\ LastId(k) \in Nat
        BY <2>2, <3>1, LastIdLast DEF Refuses
      <3>5. ASSUME NEW i \in 1..Len(stream'[k]), NEW j \in 1..Len(stream'[k]), i < j
            PROVE  stream'[k][i].id < stream'[k][j].id
        <4>1. i \in 1..Len(stream[k])
          BY <3>2, <3>5
        <4>2. CASE j \in 1..Len(stream[k])
          BY <3>3, <3>5, <4>1, <4>2 DEF Rising
        <4>3. CASE j = Len(stream[k]) + 1
          <5>1. stream[k][i].id \in Nat /\ stream[k][i].id <= LastId(k)
            BY <4>1, LastIdLast
          <5>2. stream'[k][i].id = stream[k][i].id /\ stream'[k][j].id = w.id[k]
            BY <3>1, <3>3, <4>1, <4>3
          <5> QED BY <3>1, <3>4, <5>1, <5>2
        <4> QED BY <3>3, <4>2, <4>3
      <3>6. Entry(w, k) \in Made({w}, k)
        BY <2>2 DEF Made
      <3>7. \A i \in 1..Len(stream'[k]) : stream'[k][i] \in Stored(k) \cup Made({w}, k)
        BY <3>3, <3>6 DEF Stored
      <3> QED BY <3>5, <3>7 DEF Stored
    <2>3. \/ Added(w, keys)[k] = stream[k]
          \/ k \in keys /\ ~Refuses(w, k) /\ Added(w, keys)[k] = Append(stream[k], Entry(w, k))
      BY <1>1, AddedTyped
    <2> QED BY <2>1, <2>2, <2>3
  <1> QED BY <1>2 DEF Rising

\* In the first run the server refuses nothing of the pipeline.
LEMMA NoneRefused ==
  ASSUME BooksInv, OrderInv, pipe # <<>>, runs = 1, NEW k \in KeysOf(pipe[1].rec.code),
         pipe[1] \in Piped, pipe[1] \in Command, 1 \in 1..Len(pipe)
  PROVE  ~Refuses(pipe[1], k)
  <1>1. k \in Key /\ pipe[1].id[k] \in Nat \ {0}
    BY CommandTyped, KeysTyped DEF Record
  <1>2. SUFFICES ASSUME Refuses(pipe[1], k) PROVE FALSE
    OBVIOUS
  <1>3. LastId(k) \in Nat /\ pipe[1].id[k] <= LastId(k) /\ LastId(k) > 0
    BY <1>1, <1>2, LastIdLast DEF Refuses, OrderInv
  <1>4. PICK e \in Stored(k) : e.id = LastId(k)
    BY <1>1, <1>3, LastIdLast DEF OrderInv
  <1>5. /\ Entry(pipe[1], k) \in Issued(k) /\ e \in Issued(k)
        /\ Entry(pipe[1], k).n = pipe[1].rec.n /\ Entry(pipe[1], k).id = pipe[1].id[k]
    BY <1>1, EntryTyped, MadeOf DEF Issued
  <1>6. /\ e.run \in Nat \ {0} /\ Entry(pipe[1], k).run \in Nat \ {0}
        /\ e.run <= 1 /\ Entry(pipe[1], k).run <= 1
    BY <1>1, <1>5, IssuedTyped DEF EntryType, OrderInv, Covered
  <1>7. e.run = Entry(pipe[1], k).run
    BY <1>6
  <1>8. e.n < Entry(pipe[1], k).n
    BY <1>1, <1>5 DEF OrderInv, InTurn, PipeLast
  <1>9. e.id < pipe[1].id[k]
    BY <1>1, <1>5, <1>7, <1>8 DEF OrderInv, AllAgree, Agree
  <1> QED BY <1>1, <1>3, <1>4, <1>9

LEMMA SendMoves ==
  ASSUME BooksInv, Rising, Send
  PROVE  /\ Rising' /\ Abandoned' = Abandoned
         /\ 1 \in 1..Len(pipe) /\ pipe[1] \in Piped /\ pipe[1] \in Command
         /\ \A i \in 1..Len(pipe') : i + 1 \in 1..Len(pipe) /\ 1 < i + 1 /\ pipe'[i] = pipe[i + 1]
         /\ \A k \in Key : /\ Stored(k)' \subseteq Stored(k) \cup Made({pipe[1]}, k)
                           /\ Issued(k)' \subseteq Issued(k)
  <1>1. /\ Head(pipe) \in Command /\ Head(pipe) = pipe[1] /\ Len(pipe) \in Nat \ {0}
        /\ Len(pipe') = Len(pipe) - 1
        /\ \A i \in 1..Len(pipe') : pipe'[i] = pipe[i + 1]
        /\ stream' = Added(Head(pipe), KeysOf(Head(pipe).rec.code))
        /\ UNCHANGED late
    BY SendChanges
  <1>2. /\ 1 \in 1..Len(pipe) /\ pipe[1] \in Piped /\ pipe[1] \in Command
        /\ \A i \in 1..Len(pipe') : i + 1 \in 1..Len(pipe) /\ 1 < i + 1
    BY <1>1 DEF Piped
  <1>3. Rising' /\ \A k \in Key : Stored(k)' \subseteq Stored(k) \cup Made({pipe[1]}, k)
    BY <1>1, AddedRises
  <1>4. Piped' \subseteq Piped /\ Abandoned' = Abandoned
    BY <1>1, <1>2 DEF Piped, Abandoned
  <1>5. \A k \in Key : Made({pipe[1]}, k) \subseteq Made(Piped, k) /\ Made(Piped', k) \subseteq Made(Piped, k)
    BY <1>2, <1>4 DEF Made
  <1>6. ASSUME NEW k \in Key PROVE Issued(k)' \subseteq Issued(k)
    <2>1. Made(Piped, k)' = Made(Piped', k) /\ Made(Abandoned, k)' = Made(Abandoned, k)
      BY <1>4 DEF Made
    <2> QED BY <1>3, <1>5, <2>1 DEF Issued
  <1> QED BY <1>1, <1>2, <1>3, <1>4, <1>6

LEMMA SendOrder ==
  ASSUME BooksInv, OrderInv, Send
  PROVE  OrderInv'
  <1>1. /\ wpc = "execute" /\ wpc' = "execute" /\ pipe # <<>>
        /\ Head(pipe) = pipe[1] /\ Len(pipe) \in Nat \ {0} /\ Len(pipe') = Len(pipe) - 1
        /\ (failed' # failed \/ rejected' # rejected)
             => \E k \in KeysOf(Head(pipe).rec.code) : Refuses(Head(pipe), k)
        /\ UNCHANGED <<main, queue, stop, batch, last_ratime, late, runs, arrived>>
    BY SendChanges
  <1>2. /\ Rising' /\ Abandoned' = Abandoned
        /\ 1 \in 1..Len(pipe) /\ pipe[1] \in Piped /\ pipe[1] \in Command
        /\ \A i \in 1..Len(pipe') : i + 1 \in 1..Len(pipe) /\ 1 < i + 1 /\ pipe'[i] = pipe[i + 1]
        /\ \A k \in Key : /\ Stored(k)' \subseteq Stored(k) \cup Made({pipe[1]}, k)
                          /\ Issued(k)' \subseteq Issued(k)
    BY SendMoves DEF OrderInv
  <1>3. InLine' /\ Waiting' \subseteq Waiting
    BY <1>1 DEF OrderInv, InLine, Waiting, main
  <1>4. AllAgree' /\ Covered' /\ IssuedBefore'
    BY <1>1, <1>2, <1>3, IssuedShrinks
  <1>5. PipeInOrder'
    <2>1. ASSUME NEW i \in 1..Len(pipe'), NEW j \in 1..Len(pipe'), i < j
          PROVE  pipe'[i].rec.n < pipe'[j].rec.n
      <3>1. i + 1 < j + 1
        BY <1>1, <2>1
      <3> QED BY <1>1, <1>2, <3>1 DEF OrderInv, InTurn, PipeInOrder
    <2> QED BY <2>1 DEF PipeInOrder
  <1>6. PipeLast'
    <2>1. ASSUME NEW k \in Key, NEW i \in 1..Len(pipe'),
                 NEW x \in Stored(k) \cup Made(Abandoned, k) \cup Made({pipe[1]}, k)
          PROVE  x.n < pipe'[i].rec.n
      <3>1. i + 1 \in 1..Len(pipe) /\ pipe'[i] = pipe[i + 1] /\ 1 < i + 1
        BY <1>1, <1>2
      <3>2. CASE x \in Stored(k) \cup Made(Abandoned, k)
        BY <3>1, <3>2 DEF OrderInv, InTurn, PipeLast
      <3>3. CASE x \in Made({pipe[1]}, k)
        <4>1. x.n = pipe[1].rec.n
          BY <1>2, <3>3, EntryTyped DEF Made
        <4> QED BY <1>2, <3>1, <4>1 DEF OrderInv, InTurn, PipeInOrder
      <3> QED BY <3>2, <3>3
    <2>2. \A k \in Key : (Stored(k) \cup Made(Abandoned, k))'
                           \subseteq Stored(k) \cup Made(Abandoned, k) \cup Made({pipe[1]}, k)
      BY <1>2 DEF Made
    <2> QED BY <2>1, <2>2 DEF PipeLast
  <1>7. Unrefused'
    <2>1. SUFFICES ASSUME runs' = 1 PROVE ~rejected'
      BY DEF Unrefused
    <2>2. runs = 1 /\ ~rejected
      BY <1>1, <2>1 DEF OrderInv, Unrefused
    <2>3. \A k \in KeysOf(pipe[1].rec.code) : ~Refuses(pipe[1], k)
      BY <1>1, <1>2, <2>2, NoneRefused
    <2> QED BY <1>1, <2>2, <2>3
  <1> QED BY <1>2, <1>3, <1>4, <1>5, <1>6, <1>7 DEF OrderInv, InTurn
\* A connection is given up: its commands are no longer the pipeline's.
LEMMA AbandonMoves ==
  ASSUME BooksInv, late' = Abandon(pipe) \/ late' = late
  PROVE  Abandoned' \subseteq Abandoned \cup Piped
  <1>1. CASE late' = late
    BY <1>1 DEF Abandoned
  <1>2. CASE late' = Abandon(pipe)
    <2>1. /\ Len(late) \in Nat /\ Len(late') \in {Len(late), Len(late) + 1}
          /\ \A c \in 1..Len(late') : IF c <= Len(late) THEN late'[c] = late[c] ELSE late'[c] = pipe
      BY <1>2, AbandonTyped DEF BooksInv, TypeOK, RedisTyped, WriterTyped
    <2>2. ASSUME NEW c \in 1..Len(late'), NEW i \in 1..Len(late'[c])
          PROVE  late'[c][i] \in Abandoned \cup Piped
      <3>1. CASE c <= Len(late)
        <4>1. c \in 1..Len(late) /\ late'[c] = late[c]
          BY <2>1, <3>1
        <4> QED BY <4>1 DEF Abandoned
      <3>2. CASE ~(c <= Len(late))
        BY <2>1, <3>2 DEF Piped
      <3> QED BY <3>1, <3>2
    <2>3. \A x \in Abandoned' : \E c \in 1..Len(late') : \E i \in 1..Len(late'[c]) : x = late'[c][i]
      BY DEF Abandoned
    <2> QED BY <2>2, <2>3
  <1> QED BY <1>1, <1>2

LEMMA AbandonIssued ==
  ASSUME BooksInv, pipe' = <<>>, late' = Abandon(pipe) \/ late' = late, UNCHANGED stream
  PROVE  Piped' = {} /\ Len(pipe') = 0 /\ \A k \in Key : Issued(k)' \subseteq Issued(k)
  <1>1. Piped' = {} /\ Len(pipe') = 0
    BY NoSeq DEF Piped
  <1>2. Abandoned' \subseteq Abandoned \cup Piped
    BY AbandonMoves
  <1>3. ASSUME NEW k \in Key PROVE Issued(k)' \subseteq Issued(k)
    <2>1. Stored(k)' = Stored(k) /\ Made(Piped, k)' = {}
      BY <1>1 DEF Stored, Made
    <2>2. Made(Abandoned, k)' \subseteq Made(Abandoned, k) \cup Made(Piped, k)
      BY <1>2 DEF Made
    <2> QED BY <2>1, <2>2 DEF Issued
  <1> QED BY <1>1, <1>3

LEMMA AbandonOrder ==
  ASSUME BooksInv, OrderInv, InLine', Waiting' \subseteq Waiting, pipe' = <<>>,
         late' = Abandon(pipe) \/ late' = late,
         UNCHANGED <<stream, runs, arrived, rejected>>,
         wpc' # "dead" => wpc # "dead" /\ UNCHANGED last_ratime
  PROVE  OrderInv'
  <1>1. Piped' = {} /\ Len(pipe') = 0 /\ \A k \in Key : Issued(k)' \subseteq Issued(k)
    BY AbandonIssued
  <1>2. AllAgree' /\ Covered' /\ IssuedBefore'
    BY <1>1, IssuedShrinks
  <1>3. PipeInOrder' /\ PipeLast' /\ Rising' /\ Unrefused'
    BY <1>1 DEF OrderInv, PipeInOrder, PipeLast, Rising, Unrefused
  <1> QED BY <1>2, <1>3 DEF OrderInv, InTurn

LEMMA RaisedOrder ==
  ASSUME BooksInv, OrderInv, Raised
  PROVE  OrderInv'
  <1>1. /\ wpc = "execute" /\ wpc' = "top" /\ batch' = <<>> /\ pipe' = <<>>
        /\ late' = Abandon(pipe)
        /\ UNCHANGED <<main, queue, stream, last_ratime, runs, arrived, rejected>>
    BY DEF Raised
  <1>2. InLine' /\ Waiting' \subseteq Waiting
    BY <1>1, NoSeq DEF OrderInv, InLine, Waiting, main
  <1> QED BY <1>1, <1>2, AbandonOrder

LEMMA DieOrder ==
  ASSUME BooksInv, OrderInv, Die
  PROVE  OrderInv'
  <1>1. /\ dpc' = "dead" /\ wpc' = "dead" /\ batch' = <<>> /\ pipe' = <<>> /\ queue' = <<>>
        /\ late' = Abandon(pipe) \/ late' = late
        /\ UNCHANGED <<stream, runs, arrived, rejected>>
    BY DEF Die
  <1>2. InLine' /\ Waiting' \subseteq Waiting
    BY <1>1, NoSeq DEF InLine, Waiting, Submitting
  <1> QED BY <1>1, <1>2, AbandonOrder

\* A late command is stored, or not.
LEMMA LateMoves ==
  ASSUME BooksInv, Rising, NEW c \in DOMAIN late, LateRun(c)
  PROVE  /\ Rising'
         /\ \A k \in Key : /\ (Stored(k) \cup Made(Abandoned, k))' \subseteq Stored(k) \cup Made(Abandoned, k)
                           /\ Issued(k)' \subseteq Issued(k)
  <1>1. /\ Abandoned' \subseteq Abandoned
        /\ UNCHANGED <<main, queue, stop, writer, stats, history>>
    BY LateChanges
  <1>2. PICK w \in Abandoned \cap Command :
          \E keys \in SUBSET KeysOf(w.rec.code) : stream' = Added(w, keys)
    BY LateChanges
  <1>3. Rising' /\ \A k \in Key : Stored(k)' \subseteq Stored(k) \cup Made({w}, k)
    BY <1>2, AddedRises
  <1>4. ASSUME NEW k \in Key
        PROVE  /\ (Stored(k) \cup Made(Abandoned, k))' \subseteq Stored(k) \cup Made(Abandoned, k)
               /\ Issued(k)' \subseteq Issued(k)
    <2>1. Made(Abandoned, k)' \subseteq Made(Abandoned, k) /\ Made({w}, k) \subseteq Made(Abandoned, k)
      BY <1>1, <1>2 DEF Made
    <2>2. Made(Piped, k)' = Made(Piped, k)
      BY <1>1 DEF Made, Piped, writer
    <2> QED BY <1>3, <2>1, <2>2 DEF Issued
  <1> QED BY <1>3, <1>4

LEMMA LateOrder ==
  ASSUME BooksInv, OrderInv, NEW c \in DOMAIN late, LateRun(c)
  PROVE  OrderInv'
  <1>1. UNCHANGED <<main, queue, stop, writer, stats, history>>
    BY LateChanges
  <1>2. /\ Rising'
        /\ \A k \in Key : /\ (Stored(k) \cup Made(Abandoned, k))' \subseteq Stored(k) \cup Made(Abandoned, k)
                          /\ Issued(k)' \subseteq Issued(k)
    BY LateMoves DEF OrderInv
  <1>3. InLine' /\ Waiting' \subseteq Waiting
    BY <1>1 DEF OrderInv, InLine, Waiting, main, writer, history
  <1>4. AllAgree' /\ Covered' /\ IssuedBefore'
    BY <1>1, <1>2, <1>3, IssuedShrinks DEF writer, history
  <1>5. PipeInOrder' /\ PipeLast' /\ Unrefused'
    BY <1>1, <1>2 DEF OrderInv, InTurn, PipeInOrder, PipeLast, Unrefused, writer, history
  <1> QED BY <1>2, <1>3, <1>4, <1>5 DEF OrderInv, InTurn

LEMMA DeleteMoves ==
  ASSUME BooksInv, Rising, Delete
  PROVE  /\ Rising' /\ \A k \in Key : Stored(k)' \subseteq Stored(k) /\ Issued(k)' \subseteq Issued(k)
  <1>1. UNCHANGED <<main, queue, stop, writer, stats, late, history>>
    BY DEF Delete
  <1>2. ASSUME NEW k \in Key
        PROVE  stream'[k] = stream[k] \/ stream'[k] = <<>>
    BY DEF Delete
  <1>3. ASSUME NEW k \in Key
        PROVE  /\ Stored(k)' \subseteq Stored(k)
               /\ \A i, j \in 1..Len(stream'[k]) : i < j => stream'[k][i].id < stream'[k][j].id
    BY <1>2, NoSeq DEF Stored, Rising
  <1>4. \A k \in Key : Made(Abandoned, k)' = Made(Abandoned, k) /\ Made(Piped, k)' = Made(Piped, k)
    BY <1>1 DEF Made, Abandoned, Piped, writer
  <1>5. \A k \in Key : Issued(k)' \subseteq Issued(k)
    BY <1>3, <1>4 DEF Issued
  <1> QED BY <1>3, <1>5 DEF Rising

LEMMA DeleteOrder ==
  ASSUME BooksInv, OrderInv, Delete
  PROVE  OrderInv'
  <1>1. UNCHANGED <<main, queue, stop, writer, stats, late, history>>
    BY DEF Delete
  <1>2. /\ Rising' /\ \A k \in Key : Stored(k)' \subseteq Stored(k) /\ Issued(k)' \subseteq Issued(k)
    BY DeleteMoves DEF OrderInv
  <1>3. \A k \in Key : Made(Abandoned, k)' = Made(Abandoned, k)
    BY <1>1 DEF Made, Abandoned
  <1>4. InLine' /\ Waiting' \subseteq Waiting
    BY <1>1 DEF OrderInv, InLine, Waiting, main, writer, history
  <1>5. AllAgree' /\ Covered' /\ IssuedBefore'
    BY <1>1, <1>2, <1>4, IssuedShrinks DEF writer, history
  <1>6. PipeInOrder' /\ PipeLast' /\ Unrefused'
    BY <1>1, <1>2, <1>3 DEF OrderInv, InTurn, PipeInOrder, PipeLast, Unrefused, writer, history
  <1> QED BY <1>2, <1>4, <1>5, <1>6 DEF OrderInv, InTurn

\* The next run issues under its own number.
LEMMA RelaunchOrder ==
  ASSUME BooksInv, OrderInv, Relaunch
  PROVE  OrderInv'
  <1>1. /\ dpc = "dead" /\ wpc = "dead" /\ dpc' = "drain" /\ wpc' = "top" /\ runs' = runs + 1
        /\ runs \in Nat \ {0} /\ batch = <<>>
        /\ UNCHANGED <<rec, queue, batch, pipe, last_ratime, redis, arrived, rejected>>
    BY DEF Relaunch, BooksInv, TypeOK, CountersTyped, Places
  <1>2. InLine' /\ Waiting' \subseteq Waiting
    BY <1>1, NoSeq DEF OrderInv, InLine, Waiting, Submitting
  <1>3. \A k \in Key : Issued(k)' = Issued(k) /\ Stored(k)' = Stored(k)
    BY <1>1 DEF Issued, Stored, Piped, Abandoned, Made, redis
  <1>4. AllAgree'
    BY <1>3 DEF OrderInv, AllAgree, Agree
  <1>5. Covered'
    <2>1. ASSUME NEW k \in Key, NEW x \in Issued(k)
          PROVE  x.run <= runs + 1 /\ x.run # runs + 1 /\ x.n <= arrived
      <3>1. x.run \in Nat /\ x.run <= runs /\ x.n <= arrived
        BY IssuedTyped DEF EntryType, OrderInv, Covered
      <3> QED BY <1>1, <3>1
    <2> QED BY <1>1, <1>3, <2>1 DEF Covered
  <1>6. IssuedBefore'
    BY <1>2, <1>3 DEF OrderInv, InTurn, IssuedBefore
  <1>7. PipeInOrder' /\ PipeLast' /\ Rising' /\ Unrefused'
    <2>1. Abandoned' = Abandoned /\ runs' # 1
      BY <1>1 DEF Abandoned, redis
    <2> QED BY <1>1, <1>3, <2>1 DEF OrderInv, InTurn, PipeInOrder, PipeLast, Rising, Unrefused, Made, redis
  <1> QED BY <1>2, <1>4, <1>5, <1>6, <1>7 DEF OrderInv, InTurn

LEMMA WriterOrder ==
  ASSUME BooksInv, OrderInv, WriterStep
  PROVE  OrderInv'
  BY WalkOrder, TakeOrder, BuildOrder, SendOrder, PublishedOrder, RaisedOrder DEF WriterStep

LEMMA OrderKept ==
  ASSUME BooksInv, OrderInv, [MCNext]_all_vars
  PROVE  OrderInv'
  <1>1. CASE UNCHANGED all_vars
    BY <1>1, UnseenOrder DEF all_vars, sink_vars, vars, redis, history
  <1>2. CASE Publishes /\ Next
    <2>1. CASE MainStep
      BY <2>1, OnEventOrder, MainOrder DEF MainStep
    <2>2. CASE WriterStep
      BY <2>2, WriterOrder
    <2>3. CASE Interrupt \/ Join
      BY <2>3, InterruptOrder
    <2>4. CASE Die \/ Relaunch
      BY <2>4, DieOrder, RelaunchOrder
    <2>5. CASE Expire
      BY <2>5, UnseenOrder DEF Expire, history
    <2>6. CASE \E c \in DOMAIN late : LateRun(c)
      BY <2>6, LateOrder
    <2> QED BY <1>2, <2>1, <2>2, <2>3, <2>4, <2>5, <2>6 DEF Next
  <1>3. CASE SmokeNext
    <2>1. CASE Going
      BY <2>1, GoingChanges, UnseenOrder DEF sink_vars, vars, redis, history
    <2>2. CASE Submit
      BY <2>2, SmokeSubmitOrder
    <2>3. CASE StopSink
      BY <2>3, UnseenOrder DEF StopSink, redis, history
    <2>4. CASE Delete
      BY <2>4, DeleteOrder
    <2>5. CASE SmokeWriter
      BY <2>5, WriterOrder DEF SmokeWriter
    <2>6. CASE SmokeEnds
      BY <2>6, DieOrder DEF SmokeEnds
    <2>7. CASE SmokeAgain
      BY <2>7, RelaunchOrder DEF SmokeAgain
    <2>8. CASE \E c \in DOMAIN late : LateRun(c) /\ UNCHANGED smoke_vars
      BY <2>8, LateOrder
    <2> QED BY <1>3, <2>1, <2>2, <2>3, <2>4, <2>5, <2>6, <2>7, <2>8 DEF SmokeNext, Going
  <1> QED BY <1>1, <1>2, <1>3 DEF MCNext
-----------------------------------------------------------------------------
(***************************************************************************)
(* What is published is stored.                                            *)
(***************************************************************************)
\* The streams only grow, at their ends.
Extends ==
  \A k \in Key : \A i \in 1..Len(stream[k]) : i \in 1..Len(stream'[k]) /\ stream'[k][i] = stream[k][i]

LEMMA SomeKey == StreamKey \in Key
  <1>1. PICK c \in Codes : TRUE
    <2>1. SmokeEvents \in Seq([code : Codes, ra : Nat \ {0}]) /\ SmokeEvents # <<>>
      BY SmokeAssumption
    <2>2. 1 \in 1..Len(SmokeEvents)
      BY <2>1, SeqLen
    <2>3. SmokeEvents[1] \in [code : Codes, ra : Nat \ {0}]
      BY <2>1, <2>2, SeqLen
    <2> QED BY <2>3
  <1> QED BY <1>1, KeysTyped

LEMMA StoredTyped ==
  ASSUME BooksInv, NEW k \in Key, NEW i \in 1..Len(stream[k])
  PROVE  stream[k][i] \in EntryType /\ stream[k][i].code \in Codes
  <1>1. stream[k] \in Seq(EntryType)
    BY DEF BooksInv, TypeOK, RedisTyped
  <1>2. stream[k][i] \in EntryType
    BY <1>1, SeqLen
  <1> QED BY <1>2 DEF EntryType

LEMMA IsInStays ==
  ASSUME BooksInv, Extends, NEW n, IsIn(n)
  PROVE  IsIn(n)'
  <1>1. PICK i \in 1..Len(stream[StreamKey]) :
          /\ stream[StreamKey][i].n = n
          /\ \A k \in KeysOf(stream[StreamKey][i].code) :
               \E j \in 1..Len(stream[k]) : stream[k][j].n = n
    BY DEF IsIn
  <1>2. StreamKey \in Key
    BY SomeKey
  <1>3. stream[StreamKey][i].code \in Codes
    BY <1>2, StoredTyped
  <1>4. KeysOf(stream[StreamKey][i].code) \subseteq Key
    BY <1>3, KeysTyped
  <1>5. i \in 1..Len(stream'[StreamKey]) /\ stream'[StreamKey][i] = stream[StreamKey][i]
    BY <1>2 DEF Extends
  <1>6. ASSUME NEW k \in KeysOf(stream[StreamKey][i].code)
        PROVE  \E j \in 1..Len(stream'[k]) : stream'[k][j].n = n
    <2>1. PICK j \in 1..Len(stream[k]) : stream[k][j].n = n
      BY <1>1
    <2>2. j \in 1..Len(stream'[k]) /\ stream'[k][j] = stream[k][j]
      BY <1>4 DEF Extends
    <2> QED BY <2>1, <2>2
  <1> QED BY <1>1, <1>5, <1>6 DEF IsIn

LEMMA AddedExtends ==
  ASSUME BooksInv, NEW w \in Command, NEW keys \in SUBSET KeysOf(w.rec.code), stream' = Added(w, keys)
  PROVE  /\ Extends
         /\ \A k \in keys : ~Refuses(w, k) =>
              \E j \in 1..Len(stream'[k]) : stream'[k][j] = Entry(w, k)
  <1>1. stream \in [Key -> Seq(EntryType)]
    BY DEF BooksInv, TypeOK, RedisTyped
  <1>2. ASSUME NEW k \in Key
        PROVE  /\ \A i \in 1..Len(stream[k]) : i \in 1..Len(stream'[k]) /\ stream'[k][i] = stream[k][i]
               /\ k \in keys /\ ~Refuses(w, k) =>
                    \E j \in 1..Len(stream'[k]) : stream'[k][j] = Entry(w, k)
    <2>1. CASE stream'[k] = stream[k] /\ (k \in keys => Refuses(w, k))
      BY <2>1
    <2>2. CASE k \in keys /\ ~Refuses(w, k) /\ stream'[k] = Append(stream[k], Entry(w, k))
      <3>1. /\ Len(stream[k]) \in Nat /\ Len(stream'[k]) = Len(stream[k]) + 1
            /\ \A i \in 1..Len(stream[k]) + 1 :
                 stream'[k][i] = IF i <= Len(stream[k]) THEN stream[k][i] ELSE Entry(w, k)
        BY <1>1, <2>2, EntryTyped, AppendSeq
      <3>2. /\ \A i \in 1..Len(stream[k]) : i \in 1..Len(stream'[k]) /\ stream'[k][i] = stream[k][i]
            /\ Len(stream[k]) + 1 \in 1..Len(stream'[k])
            /\ stream'[k][Len(stream[k]) + 1] = Entry(w, k)
        BY <3>1
      <3> QED BY <3>2
    <2>3. \/ Added(w, keys)[k] = stream[k] /\ (k \in keys => Refuses(w, k))
          \/ k \in keys /\ ~Refuses(w, k) /\ Added(w, keys)[k] = Append(stream[k], Entry(w, k))
      BY <1>1, AddedTyped
    <2> QED BY <2>1, <2>2, <2>3
  <1>3. keys \subseteq Key
    BY CommandTyped, KeysTyped DEF Record
  <1> QED BY <1>2, <1>3 DEF Extends

LEMMA IsInSame ==
  ASSUME stream' = stream, NEW n
  PROVE  IsIn(n)' <=> IsIn(n)
  BY DEF IsIn

\* The steps that send nothing.
LEMMA NothingSent ==
  ASSUME BooksInv, SentIsIn, UNCHANGED <<batch, pipe, acked>>,
         (wpc' = wpc /\ failed' = failed) \/ wpc' \notin {"build", "execute"} \/ (wpc' = "build" /\ pipe = <<>>),
         smoke' = "off" => smoke = "off" /\ Extends
  PROVE  SentIsIn'
  <1>1. wpc' = "build" => \A i \in 1..Len(pipe') : pipe'[i].rec = batch'[i]
    BY NoSeq DEF SentIsIn
  <1>2. wpc' = "execute" =>
          /\ Len(pipe') <= Len(batch')
          /\ \A i \in 1..Len(pipe') : pipe'[i].rec = batch'[Len(batch') - Len(pipe') + i]
    BY DEF SentIsIn
  <1>3. ASSUME smoke' = "off", wpc' = "execute", ~failed', NEW i \in 1..Len(batch') - Len(pipe')
        PROVE  IsIn(batch[i].n)'
    <2>1. i \in 1..Len(batch) - Len(pipe)
      BY <1>3
    <2>2. IsIn(batch[i].n) /\ Extends /\ batch'[i] = batch[i]
      BY <1>3, <2>1 DEF SentIsIn
    <2>3. \A m : IsIn(m) => IsIn(m)'
      BY <2>2, IsInStays
    <2> QED BY <2>2, <2>3 DEF IsIn
  <1>4. ASSUME smoke' = "off", NEW n \in acked' PROVE IsIn(n)'
    BY <1>4, IsInStays DEF SentIsIn
  <1> QED BY <1>1, <1>2, <1>3, <1>4 DEF SentIsIn
LEMMA SendSent ==
  ASSUME BooksInv, SentIsIn, Send, UNCHANGED smoke
  PROVE  SentIsIn'
  <1>1. /\ wpc = "execute" /\ wpc' = "execute"
        /\ Head(pipe) \in Command /\ Head(pipe) = pipe[1] /\ Len(pipe) \in Nat \ {0}
        /\ Len(pipe') = Len(pipe) - 1
        /\ \A i \in 1..Len(pipe') : pipe'[i] = pipe[i + 1]
        /\ stream' = Added(Head(pipe), KeysOf(Head(pipe).rec.code))
        /\ (\E k \in KeysOf(Head(pipe).rec.code) : Refuses(Head(pipe), k)) => failed'
        /\ failed => failed'
        /\ UNCHANGED <<batch, acked>>
    BY SendChanges
  <1>2. Len(batch) \in Nat /\ Len(pipe) <= Len(batch)
    BY <1>1, RecordsTyped DEF SentIsIn
  <1>3. Extends
    BY <1>1, AddedExtends
  <1>4. \A n : IsIn(n) => IsIn(n)'
    BY <1>3, IsInStays
  <1>5. ASSUME NEW i \in 1..Len(pipe')
        PROVE  pipe'[i].rec = batch[Len(batch) - Len(pipe') + i]
    <2>1. i + 1 \in 1..Len(pipe) /\ Len(batch) - Len(pipe) + (i + 1) = Len(batch) - Len(pipe') + i
      BY <1>1, <1>2
    <2>2. pipe[i + 1].rec = batch[Len(batch) - Len(pipe) + (i + 1)]
      BY <1>1, <2>1 DEF SentIsIn
    <2> QED BY <1>1, <2>1, <2>2
  <1>6. pipe[1].rec = batch[Len(batch) - Len(pipe) + 1]
    BY <1>1 DEF SentIsIn
  <1>7. ASSUME ~failed', NEW n, n = pipe[1].rec.n PROVE IsIn(n)'
    <2>1. \A k \in KeysOf(pipe[1].rec.code) : \E j \in 1..Len(stream'[k]) : stream'[k][j] = Entry(pipe[1], k)
      BY <1>1, <1>7, AddedExtends
    <2>2. StreamKey \in KeysOf(pipe[1].rec.code)
      BY <1>1, CommandTyped, KeysTyped DEF Record
    <2>3. PICK j \in 1..Len(stream'[StreamKey]) : stream'[StreamKey][j] = Entry(pipe[1], StreamKey)
      BY <2>1, <2>2
    <2>4. stream'[StreamKey][j].n = pipe[1].rec.n /\ stream'[StreamKey][j].code = pipe[1].rec.code
      BY <1>1, <2>2, <2>3, EntryTyped
    <2>5. \A k \in KeysOf(pipe[1].rec.code) : \E i \in 1..Len(stream'[k]) : stream'[k][i].n = pipe[1].rec.n
      <3>1. pipe[1] \in Command
        BY <1>1
      <3>2. \A k \in KeysOf(pipe[1].rec.code) : Entry(pipe[1], k).n = pipe[1].rec.n
        BY <3>1, EntryTyped
      <3> QED BY SMTT(30), <2>1, <3>2
    <2>6. \E i \in 1..Len(stream'[StreamKey]) :
            /\ stream'[StreamKey][i].n = n
            /\ \A k \in KeysOf(stream'[StreamKey][i].code) :
                 \E l \in 1..Len(stream'[k]) : stream'[k][l].n = n
      BY <1>7, <2>4, <2>5
    <2> QED BY <2>6 DEF IsIn
  <1>8. ASSUME smoke' = "off", ~failed', NEW i \in 1..Len(batch') - Len(pipe'), NEW n, n = batch[i].n
        PROVE  IsIn(n)'
    <2>1. i \in 1..Len(batch) - Len(pipe) \/ i = Len(batch) - Len(pipe) + 1
      BY <1>1, <1>2, <1>8
    <2>2. CASE i \in 1..Len(batch) - Len(pipe)
      BY <1>1, <1>4, <1>8, <2>2 DEF SentIsIn
    <2>3. CASE i = Len(batch) - Len(pipe) + 1
      BY <1>6, <1>7, <1>8, <2>3
    <2> QED BY <2>1, <2>2, <2>3
  <1>9. smoke' = "off" => \A n \in acked' : IsIn(n)'
    BY <1>1, <1>4 DEF SentIsIn
  <1>10. ASSUME smoke' = "off", ~failed', NEW i \in 1..Len(batch') - Len(pipe')
         PROVE  IsIn(batch[i].n)'
    <2>1. \A n : n = batch[i].n => IsIn(n)'
      BY <1>8, <1>10
    <2> QED BY <1>1, <2>1 DEF IsIn
  <1> QED BY <1>1, <1>2, <1>5, <1>9, <1>10 DEF SentIsIn
LEMMA TakeSent ==
  ASSUME BooksInv, SentIsIn, Take, UNCHANGED smoke
  PROVE  SentIsIn'
  <1>1. wpc = "take" /\ pipe = <<>> /\ wpc' # "execute" /\ UNCHANGED <<pipe, acked, stream>>
    BY DEF Take, redis, BooksInv, Places
  <1>2. Len(pipe') = 0
    BY <1>1, NoSeq
  <1>3. smoke' = "off" => \A n \in acked' : IsIn(n)'
    BY <1>1, IsInSame DEF SentIsIn
  <1> QED BY <1>1, <1>2, <1>3 DEF SentIsIn

LEMMA BuildSent ==
  ASSUME BooksInv, SentIsIn, Build, UNCHANGED smoke
  PROVE  SentIsIn'
  <1>1. wpc = "build" /\ ~failed /\ UNCHANGED <<batch, acked, failed, stream>>
    BY DEF Build, WriterRest, redis, BooksInv, Places
  <1>2. Len(pipe) \in Nat /\ Len(batch) \in Nat /\ Len(pipe) <= Len(batch)
    BY <1>1, RecordsTyped DEF BooksInv, Places
  <1>3. \A i \in 1..Len(pipe) : pipe[i].rec = batch[i]
    BY <1>1 DEF SentIsIn
  <1>4. smoke' = "off" => \A n \in acked' : IsIn(n)'
    BY <1>1, IsInSame DEF SentIsIn
  <1>5. CASE Len(pipe) < Len(batch)
    <2>1. PICK w \in Command : w.rec = batch[Len(pipe) + 1] /\ pipe' = Append(pipe, w) /\ wpc' = wpc
      BY <1>5, BuildChanges
    <2>2. /\ Len(pipe') = Len(pipe) + 1
          /\ \A i \in 1..Len(pipe) + 1 : pipe'[i] = IF i <= Len(pipe) THEN pipe[i] ELSE w
      BY <2>1, AppendSeq DEF BooksInv, TypeOK, WriterTyped
    <2>3. ASSUME NEW i \in 1..Len(pipe') PROVE pipe'[i].rec = batch[i]
      <3>1. CASE i <= Len(pipe)
        BY <1>2, <1>3, <2>2, <3>1
      <3>2. CASE i > Len(pipe)
        <4>1. i = Len(pipe) + 1
          BY <1>2, <2>2, <3>2
        <4> QED BY <1>2, <2>1, <2>2, <4>1
      <3> QED BY <1>2, <3>1, <3>2
    <2> QED BY <1>1, <1>4, <2>1, <2>3 DEF SentIsIn
  <1>6. CASE ~(Len(pipe) < Len(batch))
    <2>1. wpc' = "execute" /\ pipe' = pipe /\ Len(pipe) = Len(batch)
      BY <1>2, <1>6 DEF Build
    <2>2. \A i \in 1..Len(pipe') : Len(batch) - Len(pipe') + i = i
      BY <1>2, <2>1
    <2>3. \A i \in 1..Len(batch) - Len(pipe') : FALSE
      BY <1>2, <2>1
    <2> QED BY <1>1, <1>2, <1>3, <1>4, <2>1, <2>2, <2>3 DEF SentIsIn
  <1> QED BY <1>5, <1>6

LEMMA PublishedSent ==
  ASSUME BooksInv, SentIsIn, Published, UNCHANGED smoke
  PROVE  SentIsIn'
  <1>1. /\ wpc = "execute" /\ pipe = <<>> /\ ~failed /\ wpc' = "top" /\ stream' = stream
        /\ acked' = acked \cup {batch[i].n : i \in DOMAIN batch}
    BY DEF Published, redis
  <1>2. Len(pipe) = 0 /\ DOMAIN batch = 1..Len(batch) /\ Len(batch) - 0 = Len(batch)
    BY <1>1, NoSeq, SeqLen DEF BooksInv, TypeOK, WriterTyped
  <1>3. ASSUME smoke' = "off", NEW n \in acked' PROVE IsIn(n)
    <2>1. CASE n \in acked
      BY <1>3, <2>1 DEF SentIsIn
    <2>2. CASE n \notin acked
      <3>1. PICK i \in 1..Len(batch) : n = batch[i].n
        BY <1>1, <1>2, <1>3, <2>2
      <3> QED BY <1>1, <1>2, <1>3, <3>1 DEF SentIsIn
    <2> QED BY <2>1, <2>2
  <1> QED BY <1>1, <1>3 DEF SentIsIn, IsIn

\* A step after which the writer holds no pipeline.
LEMMA OutsideSent ==
  ASSUME BooksInv, SentIsIn, wpc' \notin {"build", "execute"}, acked' = acked,
         smoke' = "off" => smoke = "off" /\ stream' = stream
  PROVE  SentIsIn'
  BY DEF SentIsIn, IsIn

LEMMA WriterSent ==
  ASSUME BooksInv, SentIsIn, WriterStep, UNCHANGED smoke
  PROVE  SentIsIn'
  <1>1. CASE \E ok \in BOOLEAN : Top \/ Connect(ok) \/ Ready(ok) \/ Hset(ok) \/ Hexpire(ok) \/ Idle
    BY <1>1, WalkChanges, OutsideSent DEF history
  <1>2. CASE Raised
    BY <1>2, OutsideSent DEF Raised
  <1> QED BY <1>1, <1>2, TakeSent, BuildSent, SendSent, PublishedSent DEF WriterStep

LEMMA LateSent ==
  ASSUME BooksInv, SentIsIn, UNCHANGED smoke, NEW c \in DOMAIN late, LateRun(c)
  PROVE  SentIsIn'
  <1>1. PICK w \in Abandoned \cap Command :
          \E keys \in SUBSET KeysOf(w.rec.code) : stream' = Added(w, keys)
    BY LateChanges
  <1>2. Extends
    BY <1>1, AddedExtends
  <1> QED BY <1>2, LateChanges, NothingSent DEF writer, history

\* The steps that leave the writer and the streams alone.
LEMMA AsideSent ==
  ASSUME BooksInv, SentIsIn, UNCHANGED <<writer, acked, stream>>, smoke' = "off" => smoke = "off"
  PROVE  SentIsIn'
  BY NothingSent DEF Extends, writer

LEMMA SentKept ==
  ASSUME BooksInv, SentIsIn, [MCNext]_all_vars
  PROVE  SentIsIn'
  <1>1. CASE UNCHANGED all_vars
    BY <1>1, AsideSent DEF all_vars, sink_vars, smoke_vars, vars, redis, history
  <1>2. CASE Publishes /\ Next
    <2>1. smoke = "off" /\ smoke' = smoke
      BY <1>2 DEF Publishes, smoke_vars
    <2>2. CASE MainStep
      BY <2>1, <2>2, AsideSent DEF MainStep, OnEvent, Put, Evict, CountDrop, Reput, redis, history
    <2>3. CASE WriterStep
      BY <2>1, <2>3, WriterSent
    <2>4. CASE Interrupt \/ Join \/ Expire
      BY <2>1, <2>4, AsideSent DEF Interrupt, Join, Expire, redis, history
    <2>5. CASE Die \/ Relaunch
      BY <2>1, <2>5, OutsideSent DEF Die, Relaunch, redis
    <2>6. CASE \E c \in DOMAIN late : LateRun(c)
      BY <2>1, <2>6, LateSent
    <2> QED BY <1>2, <2>2, <2>3, <2>4, <2>5, <2>6 DEF Next
  <1>3. CASE SmokeNext
    <2>1. smoke # "off"
      BY <1>3 DEF SmokeNext
    <2>2. CASE Going
      BY <2>2, GoingChanges, AsideSent DEF sink_vars, vars, redis, history
    <2>3. CASE Submit
      BY <2>1, <2>3, SmokeSubmitChanges, AsideSent DEF redis
    <2>4. CASE StopSink
      BY <2>1, <2>4, AsideSent DEF StopSink, redis, history
    <2>5. CASE Delete
      BY <2>1, <2>5, NothingSent DEF Delete, writer, history
    <2>6. CASE SmokeWriter
      BY <2>6, WriterSent DEF SmokeWriter, smoke_vars
    <2>7. CASE SmokeEnds \/ SmokeAgain
      BY <2>1, <2>7, OutsideSent DEF SmokeEnds, SmokeAgain, Die, Relaunch, redis
    <2>8. CASE \E c \in DOMAIN late : LateRun(c) /\ UNCHANGED smoke_vars
      BY <2>8, LateSent DEF smoke_vars
    <2> QED BY <1>3, <2>2, <2>3, <2>4, <2>5, <2>6, <2>7, <2>8 DEF SmokeNext, Going
  <1> QED BY <1>1, <1>2, <1>3 DEF MCNext
-----------------------------------------------------------------------------
(***************************************************************************)
(* The smoke test writes its own keys only, and cleans them.               *)
(***************************************************************************)
LEMMA OwnCommandKeys ==
  ASSUME NEW w \in Command, w.rec.code \in SmokeCodes
  PROVE  KeysOf(w.rec.code) \subseteq SmokeKeys
  BY DEF SmokeCodes, SmokeKeys

LEMMA OwnAdded ==
  ASSUME BooksInv, NEW w \in Command, NEW keys \in SUBSET KeysOf(w.rec.code),
         stream' = Added(w, keys), w.rec.code \in SmokeCodes,
         \A k \in Key \ SmokeKeys : stream[k] = <<>>
  PROVE  \A k \in Key \ SmokeKeys : stream'[k] = <<>>
  <1>1. keys \subseteq SmokeKeys
    BY OwnCommandKeys
  <1> QED BY <1>1 DEF Added

LEMMA TakeOwned ==
  ASSUME BooksInv, OwnKeys, Take, UNCHANGED smoke
  PROVE  OwnKeys'
  <1>1. /\ pipe' = pipe /\ stream' = stream /\ late' = late
        /\ Piped' = Piped /\ Abandoned' = Abandoned
    BY DEF Take, redis, Piped, Abandoned
  <1>2. CASE queue # <<>> /\ Len(batch) < BatchSize
    <2>1. batch' = Append(batch, Head(queue)) /\ queue' = Tail(queue)
      BY <1>2 DEF Take
    <2>2. /\ Len(queue) \in Nat \ {0} /\ Head(queue) = queue[1] /\ Len(queue') = Len(queue) - 1
          /\ \A j \in 1..Len(queue) - 1 : queue'[j] = queue[j + 1]
          /\ Len(batch) \in Nat /\ Len(batch') = Len(batch) + 1
          /\ \A i \in 1..Len(batch) + 1 : batch'[i] = IF i <= Len(batch) THEN batch[i] ELSE Head(queue)
      BY <1>2, <2>1, TailSeq, AppendSeq DEF BooksInv, TypeOK, MainTyped, WriterTyped
    <2>3. \A j \in 1..Len(queue') : j + 1 \in 1..Len(queue) /\ queue'[j] = queue[j + 1]
      BY <2>2
    <2>4. ASSUME smoke # "off", NEW i \in 1..Len(batch') PROVE batch'[i].code \in SmokeCodes
      <3>1. CASE i <= Len(batch)
        <4>1. i \in 1..Len(batch) /\ batch'[i] = batch[i]
          BY <2>2, <3>1
        <4> QED BY <2>4, <4>1 DEF OwnKeys
      <3>2. CASE ~(i <= Len(batch))
        <4>1. batch'[i] = queue[1] /\ 1 \in 1..Len(queue)
          BY <2>2, <3>2
        <4> QED BY <2>4, <4>1 DEF OwnKeys
      <3> QED BY <3>1, <3>2
    <2> QED BY <1>1, <2>3, <2>4 DEF OwnKeys
  <1>3. CASE ~(queue # <<>> /\ Len(batch) < BatchSize)
    <2>1. UNCHANGED <<batch, queue>>
      BY <1>3 DEF Take
    <2> QED BY <1>1, <2>1 DEF OwnKeys
  <1> QED BY <1>2, <1>3

LEMMA BuildOwned ==
  ASSUME BooksInv, OwnKeys, Build, UNCHANGED smoke
  PROVE  OwnKeys'
  <1>1. UNCHANGED <<queue, batch, stream, late>> /\ Abandoned' = Abandoned
    BY DEF Build, WriterRest, redis, Abandoned
  <1>2. CASE Len(pipe) < Len(batch)
    <2>1. PICK w \in Command : w.rec = batch[Len(pipe) + 1] /\ pipe' = Append(pipe, w)
      BY <1>2, BuildChanges
    <2>2. /\ Len(pipe') = Len(pipe) + 1 /\ Len(pipe) \in Nat /\ Len(batch) \in Nat
          /\ \A i \in 1..Len(pipe) + 1 : pipe'[i] = IF i <= Len(pipe) THEN pipe[i] ELSE w
      BY <2>1, AppendSeq, RecordsTyped DEF BooksInv, TypeOK, WriterTyped
    <2>3. Len(pipe) + 1 \in 1..Len(batch)
      BY <1>2, <2>2
    <2>4. Piped' \subseteq Piped \cup {w}
      <3>1. \A i \in 1..Len(pipe') : pipe'[i] \in Piped \cup {w}
        BY <2>2 DEF Piped
      <3> QED BY <3>1 DEF Piped
    <2>5. smoke # "off" => w.rec.code \in SmokeCodes
      BY <2>1, <2>3 DEF OwnKeys
    <2> QED BY <1>1, <2>4, <2>5 DEF OwnKeys
  <1>3. CASE ~(Len(pipe) < Len(batch))
    <2>1. Piped' = Piped
      BY <1>3 DEF Build, Piped
    <2> QED BY <1>1, <2>1 DEF OwnKeys
  <1> QED BY <1>2, <1>3

LEMMA SendOwned ==
  ASSUME BooksInv, OwnKeys, Send, UNCHANGED smoke
  PROVE  OwnKeys'
  <1>1. /\ Head(pipe) \in Command /\ Head(pipe) = pipe[1] /\ Len(pipe) \in Nat \ {0}
        /\ Len(pipe') = Len(pipe) - 1
        /\ \A i \in 1..Len(pipe') : pipe'[i] = pipe[i + 1]
        /\ stream' = Added(Head(pipe), KeysOf(Head(pipe).rec.code))
        /\ UNCHANGED <<queue, batch, late>>
    BY SendChanges
  <1>2. 1 \in 1..Len(pipe) /\ Head(pipe) \in Piped /\ \A i \in 1..Len(pipe') : i + 1 \in 1..Len(pipe)
    BY <1>1 DEF Piped
  <1>3. Piped' \subseteq Piped /\ Abandoned' = Abandoned
    BY <1>1, <1>2 DEF Piped, Abandoned
  <1>4. smoke # "off" => \A k \in Key \ SmokeKeys : stream'[k] = <<>>
    <2>1. smoke # "off" => Head(pipe).rec.code \in SmokeCodes /\ \A k \in Key \ SmokeKeys : stream[k] = <<>>
      BY <1>2 DEF OwnKeys
    <2> QED BY <1>1, <2>1, OwnAdded
  <1> QED BY <1>1, <1>3, <1>4 DEF OwnKeys

LEMMA LateOwned ==
  ASSUME BooksInv, OwnKeys, UNCHANGED smoke, NEW c \in DOMAIN late, LateRun(c)
  PROVE  OwnKeys'
  <1>1. /\ Abandoned' \subseteq Abandoned /\ UNCHANGED <<main, queue, stop, writer, stats, history>>
    BY LateChanges
  <1>2. PICK w \in Abandoned \cap Command :
          \E keys \in SUBSET KeysOf(w.rec.code) : stream' = Added(w, keys)
    BY LateChanges
  <1>3. Piped' = Piped /\ batch' = batch /\ queue' = queue
    BY <1>1 DEF Piped, writer
  <1>4. smoke # "off" => \A k \in Key \ SmokeKeys : stream'[k] = <<>>
    BY <1>2, OwnAdded DEF OwnKeys
  <1> QED BY <1>1, <1>3, <1>4 DEF OwnKeys

LEMMA EmptyOwned ==
  ASSUME BooksInv, OwnKeys, smoke' = "off" <=> smoke = "off",
         queue' = queue \/ queue' = <<>>, batch' = <<>>, pipe' = <<>>, stream' = stream,
         late' = Abandon(pipe) \/ late' = late
  PROVE  OwnKeys'
  <1>1. Abandoned' \subseteq Abandoned \cup Piped
    BY AbandonMoves
  <1>2. Piped' = {} /\ Len(<<>>) = 0
    BY NoSeq DEF Piped
  <1> QED BY <1>1, <1>2 DEF OwnKeys

LEMMA SameOwned ==
  ASSUME OwnKeys, smoke' = "off" <=> smoke = "off", UNCHANGED <<queue, batch, pipe, late, stream>>
  PROVE  OwnKeys'
  <1>1. Piped' = Piped /\ Abandoned' = Abandoned
    BY DEF Piped, Abandoned
  <1> QED BY <1>1 DEF OwnKeys

LEMMA WriterOwned ==
  ASSUME BooksInv, OwnKeys, WriterStep, UNCHANGED smoke
  PROVE  OwnKeys'
  <1>1. CASE \E ok \in BOOLEAN : Top \/ Connect(ok) \/ Ready(ok) \/ Hset(ok) \/ Hexpire(ok) \/ Idle
    BY <1>1, WalkChanges, SameOwned
  <1>2. CASE Raised
    BY <1>2, EmptyOwned DEF Raised
  <1>3. CASE Published
    BY <1>3, EmptyOwned DEF Published, redis
  <1> QED BY <1>1, <1>2, <1>3, TakeOwned, BuildOwned, SendOwned DEF WriterStep

LEMMA SubmitOwned ==
  ASSUME BooksInv, OwnKeys, Submit
  PROVE  OwnKeys'
  <1>1. /\ smoke = "submit" /\ smoke' # "off" /\ UNCHANGED <<writer, redis>>
    BY SmokeSubmitChanges
  <1>2. PICK r \in Record : queue' = Append(queue, r) /\ r.code \in SmokeCodes
    BY SmokeSubmitChanges DEF SmokeCodes
  <1>3. /\ Len(queue) \in Nat /\ Len(queue') = Len(queue) + 1
        /\ \A j \in 1..Len(queue) + 1 : queue'[j] = IF j <= Len(queue) THEN queue[j] ELSE r
    BY <1>2, AppendSeq DEF BooksInv, TypeOK, MainTyped
  <1>4. \A j \in 1..Len(queue') : queue'[j].code \in SmokeCodes
    BY <1>1, <1>2, <1>3 DEF OwnKeys
  <1>5. Piped' = Piped /\ Abandoned' = Abandoned
    BY <1>1 DEF Piped, Abandoned, writer, redis
  <1> QED BY <1>1, <1>4, <1>5 DEF OwnKeys, writer, redis

LEMMA OwnKept ==
  ASSUME BooksInv, OwnKeys, [MCNext]_all_vars
  PROVE  OwnKeys'
  <1>1. CASE UNCHANGED all_vars
    BY <1>1, SameOwned DEF all_vars, sink_vars, smoke_vars, vars, writer, redis
  <1>2. CASE Publishes /\ Next
    BY <1>2 DEF Publishes, smoke_vars, OwnKeys
  <1>3. CASE SmokeNext
    <2>1. smoke # "off"
      BY <1>3 DEF SmokeNext
    <2>2. CASE Going
      BY <2>2, GoingChanges, SameOwned DEF sink_vars, vars, writer, redis
    <2>3. CASE Submit
      BY <2>3, SubmitOwned
    <2>4. CASE StopSink
      BY <2>1, <2>4, SameOwned DEF StopSink, writer, redis
    <2>5. CASE Delete
      <3>1. /\ UNCHANGED <<queue, batch, pipe, late>> /\ smoke' # "off"
            /\ \A k \in Key \ SmokeKeys : stream'[k] = stream[k]
        BY <2>5 DEF Delete, writer
      <3>2. Piped' = Piped /\ Abandoned' = Abandoned
        BY <3>1 DEF Piped, Abandoned
      <3> QED BY <2>1, <3>1, <3>2 DEF OwnKeys
    <2>6. CASE SmokeWriter
      BY <2>6, WriterOwned DEF SmokeWriter, smoke_vars
    <2>7. CASE SmokeEnds
      BY <2>1, <2>7, EmptyOwned DEF SmokeEnds, Die
    <2>8. CASE SmokeAgain
      BY <2>1, <2>8, SameOwned DEF SmokeAgain, Relaunch, redis
    <2>9. CASE \E c \in DOMAIN late : LateRun(c) /\ UNCHANGED smoke_vars
      BY <2>9, LateOwned DEF smoke_vars
    <2> QED BY <1>3, <2>2, <2>3, <2>4, <2>5, <2>6, <2>7, <2>8, <2>9 DEF SmokeNext, Going
  <1> QED BY <1>1, <1>2, <1>3 DEF MCNext
LEMMA NothingComes ==
  ASSUME BooksInv, OwnKeys, NothingToCome, [MCNext]_all_vars
  PROVE  NothingToCome'
  <1>1. SUFFICES ASSUME gone'
                 PROVE  /\ smoke' \in {"done", "exited"} /\ wpc' \in {"ended", "dead"} /\ late' = <<>>
                        /\ \A k \in Key : stream'[k] = <<>>
                        /\ watchdog' = "absent"
    BY DEF NothingToCome, SmokeLeavesNothing
  <1>2. CASE UNCHANGED all_vars
    BY <1>1, <1>2 DEF all_vars, sink_vars, smoke_vars, vars, writer, redis, NothingToCome, SmokeLeavesNothing
  <1>3. CASE Publishes /\ Next
    BY <1>1, <1>3 DEF Publishes, smoke_vars, NothingToCome
  <1>4. CASE Going
    BY <1>1, <1>4, GoingChanges DEF NothingToCome
  <1>5. CASE Submit \/ StopSink
    BY <1>1, <1>5 DEF Submit, StopSink, NothingToCome
  <1>6. CASE Delete
    <2>1. /\ smoke = "delete" /\ smoke' = "done" /\ UNCHANGED <<writer, late>>
      BY <1>6 DEF Delete
    <2>2. ~gone
      BY <2>1 DEF NothingToCome
    <2>3. /\ stream' = [k \in Key |-> IF k \in SmokeKeys THEN <<>> ELSE stream[k]]
          /\ watchdog' = "absent" /\ Quiet
      BY <1>1, <1>6, <2>2 DEF Delete
    <2>4. \A k \in Key \ SmokeKeys : stream[k] = <<>>
      BY <2>1 DEF OwnKeys
    <2> QED BY <2>1, <2>3, <2>4 DEF Quiet, writer
  <1>7. CASE SmokeWriter
    <2>1. wpc \notin {"ended", "dead"}
      BY <1>7, WalkChanges
      DEF SmokeWriter, WriterStep, Take, Build, Send, Published, Raised, Top, Idle, Connect, Ready, Hset, Hexpire
    <2> QED BY <1>1, <1>7, <2>1 DEF SmokeWriter, smoke_vars, NothingToCome
  <1>8. CASE SmokeEnds
    BY <1>1, <1>8 DEF SmokeEnds, Die, NothingToCome, SmokeLeavesNothing
  <1>9. CASE SmokeAgain
    BY <1>1, <1>9 DEF SmokeAgain
  <1>10. CASE \E c \in DOMAIN late : LateRun(c) /\ UNCHANGED smoke_vars
    <2>1. late # <<>>
      BY <1>10, NoSeq, SeqLen DEF BooksInv, TypeOK, RedisTyped
    <2> QED BY <1>1, <1>10, <2>1 DEF smoke_vars, NothingToCome
  <1> QED BY <1>2, <1>3, <1>4, <1>5, <1>6, <1>7, <1>8, <1>9, <1>10 DEF MCNext, SmokeNext, Going

-----------------------------------------------------------------------------
(***************************************************************************)
(* The smoke test finds what there is.                                     *)
(***************************************************************************)
\* In the test's process nothing is evicted, so the ledger is shorter.
LEMMA TestLedger ==
  ASSUME BooksInv, Consecutive, smoke # "off"
  PROVE  /\ drained \in Nat /\ arrived \in Nat /\ published \in Nat /\ redis_dropped \in Nat
         /\ Len(batch) \in Nat /\ Len(queue) \in Nat /\ Handled \in Nat /\ FirstEvent \in Int
         /\ dpc \in {"drain", "dead"} /\ InHand = 0 /\ uncounted = 0
         /\ drained = Handled + queue_dropped + Len(queue) + Len(batch)
         /\ queue_dropped \in Nat
         /\ dpc # "dead" => /\ queue_dropped = 0 /\ FirstEvent \in Nat
                            /\ drained = Handled + Len(queue) + Len(batch)
                            /\ arrived = FirstEvent + drained
         /\ dpc = "dead" => /\ published = 0 /\ redis_dropped = 0 /\ queue_dropped = 0 /\ drained = 0
                            /\ Len(queue) = 0 /\ Len(batch) = 0
  <1> USE DEF BooksInv, TypeOK
  <1>1. /\ drained \in Nat /\ arrived \in Nat /\ published \in Nat /\ redis_dropped \in Nat
        /\ Len(batch) \in Nat /\ Len(queue) \in Nat /\ queue_dropped \in Nat
    BY RecordsTyped DEF MainTyped, CountersTyped
  <1>2. dpc \in {"drain", "dead"} /\ InHand = 0 /\ uncounted = 0
    BY DEF Clients, InHand, Submitting, Books
  <1>3. drained = published + queue_dropped + redis_dropped + Len(queue) + Len(batch)
    BY <1>1, <1>2 DEF Books, LedgerConserved
  <1>4. /\ dpc # "dead" => queue_dropped = 0 /\ drained <= arrived
        /\ dpc = "dead" => drained = 0
    BY DEF Consecutive, Books
  <1> QED BY <1>1, <1>2, <1>3, <1>4 DEF Handled, FirstEvent

\* A step that moves no record, in a test.
LEMMA SameConsecutive ==
  ASSUME Consecutive, smoke' = "off" <=> smoke = "off",
         UNCHANGED <<main, queue, batch, published, queue_dropped, redis_dropped, runs, arrived>>,
         Issued(StreamKey)' \subseteq Issued(StreamKey),
         \A i \in 1..Len(pipe') : \E j \in 1..Len(pipe) : pipe'[i] = pipe[j]
  PROVE  Consecutive'
  <1>1. FirstEvent' = FirstEvent /\ Handled' = Handled
    BY DEF FirstEvent, Handled, main
  <1> QED BY <1>1 DEF Consecutive, main

LEMMA StillIssued ==
  ASSUME UNCHANGED <<stream, late, pipe>>
  PROVE  Issued(StreamKey)' = Issued(StreamKey)
  BY DEF Issued, Made, Piped, Abandoned, Stored

LEMMA SubmitConsecutive ==
  ASSUME BooksInv, Consecutive, Submit
  PROVE  Consecutive'
  <1>1. /\ smoke # "off" /\ dpc = "drain" /\ dpc' = dpc
        /\ arrived' = arrived + 1 /\ drained' = drained + 1 /\ drained < N /\ N \in Nat
        /\ UNCHANGED <<rec, writer, stats, redis, runs>>
    BY SmokeSubmitChanges
  <1>2. PICK r \in Record : r.n = arrived + 1 /\ queue' = Append(queue, r)
    BY SmokeSubmitChanges
  <1>3. /\ drained \in Nat /\ arrived \in Nat /\ Len(batch) \in Nat /\ Len(queue) \in Nat /\ Handled \in Nat
        /\ queue_dropped = 0 /\ FirstEvent \in Nat
        /\ drained = Handled + Len(queue) + Len(batch) /\ arrived = FirstEvent + drained
    BY <1>1, TestLedger
  <1>4. /\ Len(queue') = Len(queue) + 1
        /\ \A j \in 1..Len(queue) + 1 : queue'[j] = IF j <= Len(queue) THEN queue[j] ELSE r
    BY <1>2, AppendSeq DEF BooksInv, TypeOK, MainTyped
  <1>5. FirstEvent' = FirstEvent /\ Handled' = Handled /\ Issued(StreamKey)' = Issued(StreamKey)
    BY <1>1, <1>3, StillIssued DEF FirstEvent, Handled, stats, redis, writer
  <1>6. ASSUME NEW j \in 1..Len(queue')
        PROVE  queue'[j].n = FirstEvent + Handled + Len(batch) + j
    <2>1. CASE j <= Len(queue)
      <3>1. j \in 1..Len(queue) /\ queue'[j] = queue[j]
        BY <1>3, <1>4, <2>1
      <3> QED BY <1>1, <3>1 DEF Consecutive
    <2>2. CASE ~(j <= Len(queue))
      <3>1. j = Len(queue) + 1 /\ queue'[j].n = arrived + 1
        BY <1>2, <1>3, <1>4, <2>2
      <3> QED BY <1>3, <3>1
    <2> QED BY <2>1, <2>2
  <1>7. drained' <= arrived' /\ drained' <= N
    BY <1>1, <1>3
  <1> QED BY <1>1, <1>3, <1>5, <1>6, <1>7 DEF Consecutive, writer, stats

LEMMA TakeConsecutive ==
  ASSUME BooksInv, Consecutive, Take, UNCHANGED smoke
  PROVE  Consecutive'
  <1>1. /\ wpc = "take" /\ UNCHANGED <<main, pipe, redis, published, queue_dropped, redis_dropped, runs, arrived>>
    BY DEF Take
  <1>2. CASE queue # <<>> /\ Len(batch) < BatchSize
    <2>1. batch' = Append(batch, Head(queue)) /\ queue' = Tail(queue)
      BY <1>2 DEF Take
    <2>2. /\ Len(queue) \in Nat \ {0} /\ Head(queue) = queue[1] /\ Len(queue') = Len(queue) - 1
          /\ \A j \in 1..Len(queue) - 1 : queue'[j] = queue[j + 1]
          /\ Len(batch) \in Nat /\ Len(batch') = Len(batch) + 1
          /\ \A i \in 1..Len(batch) + 1 : batch'[i] = IF i <= Len(batch) THEN batch[i] ELSE Head(queue)
      BY <1>2, <2>1, TailSeq, AppendSeq DEF BooksInv, TypeOK, MainTyped, WriterTyped
    <2>3. SUFFICES ASSUME smoke # "off", dpc # "dead" PROVE Consecutive'
      BY <1>1 DEF Consecutive, main
    <2>4. Handled \in Nat /\ FirstEvent \in Nat
      BY <2>3, TestLedger
    <2>5. FirstEvent' = FirstEvent /\ Handled' = Handled /\ Issued(StreamKey)' = Issued(StreamKey)
      BY <1>1, StillIssued DEF FirstEvent, Handled, main, redis
    <2>6. ASSUME NEW i \in 1..Len(batch') PROVE batch'[i].n = FirstEvent + Handled + i
      <3>1. CASE i <= Len(batch)
        <4>1. i \in 1..Len(batch) /\ batch'[i] = batch[i]
          BY <2>2, <3>1
        <4> QED BY <2>3, <4>1 DEF Consecutive
      <3>2. CASE ~(i <= Len(batch))
        <4>1. i = Len(batch) + 1 /\ batch'[i] = queue[1] /\ 1 \in 1..Len(queue)
          BY <2>2, <3>2
        <4>2. queue[1].n = FirstEvent + Handled + Len(batch) + 1
          BY <2>3, <4>1 DEF Consecutive
        <4> QED BY <2>2, <2>4, <4>1, <4>2
      <3> QED BY <3>1, <3>2
    <2>7. ASSUME NEW j \in 1..Len(queue') PROVE queue'[j].n = FirstEvent + Handled + Len(batch') + j
      <3>1. j + 1 \in 1..Len(queue) /\ queue'[j] = queue[j + 1]
        BY <2>2
      <3>2. queue[j + 1].n = FirstEvent + Handled + Len(batch) + (j + 1)
        BY <2>3, <3>1 DEF Consecutive
      <3> QED BY <2>2, <2>4, <3>1, <3>2
    <2> QED BY <1>1, <2>3, <2>5, <2>6, <2>7 DEF Consecutive, main
  <1>3. CASE ~(queue # <<>> /\ Len(batch) < BatchSize)
    <2>1. UNCHANGED <<batch, queue>>
      BY <1>3 DEF Take
    <2> QED BY <1>1, <2>1, StillIssued, SameConsecutive DEF redis
  <1> QED BY <1>2, <1>3

LEMMA BuildConsecutive ==
  ASSUME BooksInv, OrderInv, Consecutive, Build, UNCHANGED smoke
  PROVE  Consecutive'
  <1>1. /\ wpc = "build"
        /\ UNCHANGED <<main, queue, batch, redis, published, queue_dropped, redis_dropped, runs, arrived>>
    BY DEF Build, WriterRest
  <1>2. CASE Len(pipe) < Len(batch)
    <2>1. PICK w \in Command :
            /\ w.rec = batch[Len(pipe) + 1] /\ w.run = runs
            /\ \A k \in Key : Issued(k)' \subseteq Issued(k) \cup Made({w}, k)
            /\ Len(pipe') = Len(pipe) + 1
            /\ \A i \in 1..Len(pipe) : pipe'[i] = pipe[i]
            /\ pipe'[Len(pipe) + 1] = w
      BY <1>2, BuildIssues
    <2>2. SUFFICES ASSUME smoke # "off", dpc # "dead" PROVE Consecutive'
      BY <1>1 DEF Consecutive, main
    <2>3. Handled \in Nat /\ FirstEvent \in Nat /\ Len(pipe) \in Nat /\ Len(batch) \in Nat
      BY <2>2, TestLedger, RecordsTyped
    <2>4. w.rec.n > FirstEvent
      <3>1. Len(pipe) + 1 \in 1..Len(batch)
        BY <1>2, <2>3
      <3>2. w.rec.n = FirstEvent + Handled + (Len(pipe) + 1)
        BY <2>1, <2>2, <3>1 DEF Consecutive
      <3> QED BY <2>3, <3>2
    <2>5. \A x \in Made({w}, StreamKey) : x.n > FirstEvent
      BY <2>4, EntryTyped DEF Made
    <2>6. \A x \in Issued(StreamKey)' : x.run = runs => x.n > FirstEvent
      BY <2>1, <2>2, <2>5, SomeKey DEF Consecutive
    <2>7. \A i \in 1..Len(pipe') : i \in 1..Len(pipe) \/ i = Len(pipe) + 1
      BY <2>1, <2>3
    <2>8. \A i \in 1..Len(pipe') : pipe'[i].run = runs
      BY <2>1, <2>2, <2>7 DEF Consecutive
    <2>9. FirstEvent' = FirstEvent /\ Handled' = Handled
      BY <1>1 DEF FirstEvent, Handled, main
    <2> QED BY <1>1, <2>2, <2>6, <2>8, <2>9 DEF Consecutive, main
  <1>3. CASE ~(Len(pipe) < Len(batch))
    <2>1. pipe' = pipe
      BY <1>3 DEF Build
    <2> QED BY <1>1, <2>1, StillIssued, SameConsecutive DEF redis
  <1> QED BY <1>2, <1>3

\* A batch ends, as published or as dropped.
LEMMA BatchEnds ==
  ASSUME BooksInv, Consecutive, UNCHANGED <<smoke, main, queue, queue_dropped, runs, arrived>>,
         batch' = <<>>, pipe' = <<>>, Handled' = Handled + Len(batch),
         Issued(StreamKey)' \subseteq Issued(StreamKey)
  PROVE  Consecutive'
  <1>1. SUFFICES ASSUME smoke # "off", dpc # "dead" PROVE Consecutive'
    BY DEF Consecutive, main
  <1>2. Handled \in Nat /\ FirstEvent \in Nat /\ Len(batch) \in Nat /\ Len(<<>>) = 0
    BY <1>1, TestLedger, NoSeq
  <1>3. FirstEvent' = FirstEvent
    BY DEF FirstEvent, main
  <1>4. ASSUME NEW j \in 1..Len(queue)
        PROVE  queue[j].n = FirstEvent + (Handled + Len(batch)) + 0 + j
    <2>1. queue[j].n = FirstEvent + Handled + Len(batch) + j
      BY <1>1 DEF Consecutive
    <2> QED BY <1>2, <2>1
  <1> QED BY <1>1, <1>2, <1>3, <1>4 DEF Consecutive, main

LEMMA WriterConsecutive ==
  ASSUME BooksInv, OrderInv, Consecutive, WriterStep, UNCHANGED smoke
  PROVE  Consecutive'
  <1>1. CASE \E ok \in BOOLEAN : Top \/ Connect(ok) \/ Ready(ok) \/ Hset(ok) \/ Hexpire(ok) \/ Idle
    <2>1. UNCHANGED <<main, queue, batch, pipe, published, queue_dropped, redis_dropped, stream, late, history>>
      BY <1>1, WalkChanges
    <2> QED BY <2>1, StillIssued, SameConsecutive DEF history
  <1>2. CASE Send
    <2>1. UNCHANGED <<main, queue, batch, published, queue_dropped, redis_dropped, runs, arrived>>
      BY <1>2, SendChanges
    <2>2. /\ \A i \in 1..Len(pipe') : i + 1 \in 1..Len(pipe) /\ pipe'[i] = pipe[i + 1]
          /\ Issued(StreamKey)' \subseteq Issued(StreamKey)
      BY <1>2, SendMoves, SomeKey DEF OrderInv
    <2> QED BY <2>1, <2>2, SameConsecutive
  <1>3. CASE Published
    <2>1. /\ UNCHANGED <<main, queue, pipe, redis, queue_dropped, redis_dropped, runs, arrived>>
          /\ batch' = <<>> /\ pipe = <<>> /\ published' = published + Len(batch)
      BY <1>3 DEF Published
    <2>2. Handled' = Handled + Len(batch)
      BY <2>1, RecordsTyped DEF Handled, BooksInv, TypeOK, CountersTyped
    <2> QED BY <2>1, <2>2, StillIssued, BatchEnds DEF redis
  <1>4. CASE Raised
    <2>1. /\ UNCHANGED <<main, queue, stream, queue_dropped, published, runs, arrived>>
          /\ batch' = <<>> /\ pipe' = <<>> /\ redis_dropped' = redis_dropped + Len(batch)
          /\ late' = Abandon(pipe)
      BY <1>4 DEF Raised
    <2>2. Handled' = Handled + Len(batch)
      BY <2>1, RecordsTyped DEF Handled, BooksInv, TypeOK, CountersTyped
    <2>3. Issued(StreamKey)' \subseteq Issued(StreamKey)
      BY <2>1, AbandonIssued, SomeKey
    <2> QED BY <2>1, <2>2, <2>3, BatchEnds
  <1> QED BY <1>1, <1>2, <1>3, <1>4, TakeConsecutive, BuildConsecutive DEF WriterStep

LEMMA ConsecutiveKept ==
  ASSUME BooksInv, OrderInv, Consecutive, [MCNext]_all_vars
  PROVE  Consecutive'
  <1>1. CASE UNCHANGED all_vars
    <2> USE DEF all_vars, sink_vars, smoke_vars, vars, writer, stats, redis, history
    <2>1. UNCHANGED <<smoke, main, queue, batch, pipe, stream, late, published, queue_dropped, redis_dropped,
                      runs, arrived>>
      BY <1>1
    <2> QED BY <2>1, StillIssued, SameConsecutive
  <1>2. CASE Publishes /\ Next
    BY <1>2 DEF Publishes, smoke_vars, Consecutive
  <1>3. CASE SmokeNext
    <2>1. smoke # "off"
      BY <1>3 DEF SmokeNext
    <2>2. CASE Going \/ StopSink
      <3>1. /\ UNCHANGED <<main, queue, batch, pipe, stream, late, published, queue_dropped, redis_dropped,
                          runs, arrived>>
            /\ smoke' # "off"
        BY <2>2, GoingChanges DEF StopSink, sink_vars, vars, writer, stats, redis, history
      <3> QED BY <2>1, <3>1, StillIssued, SameConsecutive
    <2>3. CASE Submit
      BY <2>3, SubmitConsecutive
    <2>4. CASE Delete
      <3>1. UNCHANGED <<main, queue, batch, pipe, published, queue_dropped, redis_dropped, runs, arrived>>
            /\ smoke' # "off"
        BY <2>4 DEF Delete, writer, stats, history
      <3>2. Issued(StreamKey)' \subseteq Issued(StreamKey)
        BY <2>4, DeleteMoves, SomeKey DEF OrderInv
      <3> QED BY <2>1, <3>1, <3>2, SameConsecutive
    <2>5. CASE SmokeWriter
      BY <2>5, WriterConsecutive DEF SmokeWriter, smoke_vars
    <2>6. CASE SmokeEnds
      BY <2>6 DEF SmokeEnds, Die, Consecutive
    <2>7. CASE SmokeAgain
      <3>1. /\ dpc = "dead" /\ runs' = runs + 1 /\ runs \in Nat
            /\ UNCHANGED <<drained, queue, batch, pipe, stats, redis, arrived>>
        BY <2>7 DEF SmokeAgain, Relaunch, BooksInv, TypeOK, CountersTyped
      <3>2. /\ queue_dropped = 0 /\ drained = 0 /\ Len(queue) = 0 /\ Len(batch) = 0 /\ arrived \in Nat /\ N \in Nat
            /\ pipe = <<>> /\ Len(<<>>) = 0
        BY <2>1, <3>1, TestLedger, NoSeq, SmokeAssumption, SeqLen DEF N, BooksInv, Places
      <3>3. \A x \in Issued(StreamKey)' : x.run # runs'
        <4>1. Issued(StreamKey)' = Issued(StreamKey)
          BY <3>1, StillIssued DEF redis
        <4>2. \A x \in Issued(StreamKey) : x.run <= runs /\ x.run \in Nat
          BY SomeKey, IssuedTyped DEF EntryType, OrderInv, Covered
        <4> QED BY <3>1, <4>1, <4>2
      <3> QED BY <3>1, <3>2, <3>3 DEF Consecutive, stats
    <2>8. CASE \E c \in DOMAIN late : LateRun(c) /\ UNCHANGED smoke_vars
      <3>1. UNCHANGED <<smoke, main, queue, writer, stats, history>>
        BY <2>8 DEF LateRun, smoke_vars
      <3>2. Issued(StreamKey)' \subseteq Issued(StreamKey)
        BY <2>8, LateMoves, SomeKey DEF OrderInv
      <3> QED BY <3>1, <3>2, SameConsecutive DEF writer, stats, history
    <2> QED BY <1>3, <2>2, <2>3, <2>4, <2>5, <2>6, <2>7, <2>8 DEF SmokeNext, Going
  <1> QED BY <1>1, <1>2, <1>3 DEF MCNext

-----------------------------------------------------------------------------
LEMMA InFeedStays ==
  ASSUME Extends, runs' = runs, NEW n, InFeed(n)
  PROVE  InFeed(n)'
  BY SomeKey DEF InFeed, Extends

\* A step that sends nothing, and counts nothing as published or dropped.
LEMMA SameArrives ==
  ASSUME Arrives, Testing' => Testing, Extends, FirstEvent' = FirstEvent,
         UNCHANGED <<batch, pipe, published, redis_dropped, runs>>,
         (wpc' = wpc /\ failed' = failed) \/ wpc' # "execute"
  PROVE  Arrives'
  <1>1. \A n : InFeed(n) => InFeed(n)'
    BY InFeedStays
  <1>2. ASSUME Testing', redis_dropped' = 0, NEW n \in FirstEvent' + 1..FirstEvent' + published'
        PROVE  InFeed(n)'
    BY <1>1, <1>2 DEF Arrives
  <1>3. ASSUME Testing', wpc' = "execute", ~failed', NEW i \in 1..Len(batch') - Len(pipe')
        PROVE  InFeed(batch[i].n)'
    <2>1. InFeed(batch[i].n)
      BY <1>3 DEF Arrives
    <2>2. \A n : n = batch[i].n => InFeed(n)'
      BY <1>1, <2>1
    <2> QED BY <2>2 DEF InFeed
  <1> QED BY <1>2, <1>3 DEF Arrives

LEMMA SameExtends ==
  ASSUME stream' = stream
  PROVE  Extends
  BY DEF Extends

\* The end of building: nothing is sent yet.
LEMMA BuildArrives ==
  ASSUME BooksInv, Arrives, Build, UNCHANGED smoke
  PROVE  Arrives'
  <1>1. /\ wpc = "build" /\ UNCHANGED <<main, batch, stream, published, redis_dropped, runs, arrived>>
    BY DEF Build, WriterRest, redis
  <1>2. FirstEvent' = FirstEvent /\ Extends
    BY <1>1, SameExtends DEF FirstEvent, main
  <1>3. \A n : InFeed(n) => InFeed(n)'
    BY <1>1, <1>2, InFeedStays
  <1>4. ASSUME Testing', redis_dropped' = 0, NEW n \in FirstEvent' + 1..FirstEvent' + published'
        PROVE  InFeed(n)'
    BY <1>1, <1>2, <1>3, <1>4 DEF Arrives, Testing
  <1>5. wpc' = "execute" => \A i \in 1..Len(batch') - Len(pipe') : FALSE
    <2>1. SUFFICES ASSUME wpc' = "execute" PROVE Len(batch') - Len(pipe') = 0
      OBVIOUS
    <2>2. ~(Len(pipe) < Len(batch))
      BY <1>1, <2>1, BuildChanges
    <2>3. pipe' = pipe /\ Len(pipe) <= Len(batch) /\ Len(pipe) \in Nat /\ Len(batch) \in Nat
      BY <1>1, <2>2, RecordsTyped DEF Build, BooksInv, Places
    <2> QED BY <1>1, <2>2, <2>3
  <1> QED BY <1>4, <1>5 DEF Arrives

LEMMA SendArrives ==
  ASSUME BooksInv, SentIsIn, Consecutive, Arrives, Send, UNCHANGED smoke
  PROVE  Arrives'
  <1>1. /\ wpc = "execute" /\ wpc' = "execute"
        /\ Head(pipe) \in Command /\ Head(pipe) = pipe[1] /\ Len(pipe) \in Nat \ {0}
        /\ Len(pipe') = Len(pipe) - 1
        /\ stream' = Added(Head(pipe), KeysOf(Head(pipe).rec.code))
        /\ (\E k \in KeysOf(Head(pipe).rec.code) : Refuses(Head(pipe), k)) => failed'
        /\ failed => failed'
        /\ UNCHANGED <<main, batch, published, redis_dropped, runs, arrived>>
    BY SendChanges
  <1>2. Len(batch) \in Nat /\ Len(pipe) <= Len(batch) /\ 1 \in 1..Len(pipe)
    BY <1>1, RecordsTyped DEF SentIsIn
  <1>3. Extends
    BY <1>1, AddedExtends
  <1>4. \A n : InFeed(n) => InFeed(n)'
    BY <1>1, <1>3, InFeedStays
  <1>5. FirstEvent' = FirstEvent
    BY <1>1 DEF FirstEvent, main
  <1>6. ASSUME Testing', redis_dropped' = 0, NEW n \in FirstEvent' + 1..FirstEvent' + published'
        PROVE  InFeed(n)'
    BY <1>1, <1>4, <1>5, <1>6 DEF Arrives, Testing
  <1>7. ASSUME Testing', ~failed', NEW n, n = pipe[1].rec.n PROVE InFeed(n)'
    <2>1. StreamKey \in KeysOf(pipe[1].rec.code)
      BY <1>1, CommandTyped, KeysTyped DEF Record
    <2>2. PICK j \in 1..Len(stream'[StreamKey]) : stream'[StreamKey][j] = Entry(pipe[1], StreamKey)
      BY <1>1, <1>7, <2>1, AddedExtends
    <2>3. smoke # "off" /\ dpc # "dead"
      BY <1>1, <1>7 DEF Testing, BooksInv, Places
    <2>4. pipe[1].run = runs
      BY <1>2, <2>3 DEF Consecutive
    <2>5. stream'[StreamKey][j].n = n /\ stream'[StreamKey][j].run = runs'
      <3>1. pipe[1] \in Command /\ runs' = runs
        BY <1>1
      <3>2. Entry(pipe[1], StreamKey).n = pipe[1].rec.n /\ Entry(pipe[1], StreamKey).run = pipe[1].run
        BY <2>1, <3>1, EntryTyped
      <3> QED BY <1>7, <2>2, <2>4, <3>1, <3>2
    <2> QED BY <2>5 DEF InFeed
  <1>8. ASSUME Testing', ~failed', NEW i \in 1..Len(batch') - Len(pipe'), NEW n, n = batch[i].n
        PROVE  InFeed(n)'
    <2>1. i \in 1..Len(batch) - Len(pipe) \/ i = Len(batch) - Len(pipe) + 1
      BY <1>1, <1>2, <1>8
    <2>2. CASE i \in 1..Len(batch) - Len(pipe)
      BY <1>1, <1>4, <1>8, <2>2 DEF Arrives, Testing
    <2>3. CASE i = Len(batch) - Len(pipe) + 1
      <3>1. pipe[1].rec = batch[Len(batch) - Len(pipe) + 1]
        BY <1>1, <1>2 DEF SentIsIn
      <3> QED BY <1>7, <1>8, <2>3, <3>1
    <2> QED BY <2>1, <2>2, <2>3
  <1>9. ASSUME Testing', ~failed', NEW i \in 1..Len(batch') - Len(pipe')
        PROVE  InFeed(batch[i].n)'
    <2>1. \A n : n = batch[i].n => InFeed(n)'
      BY <1>8, <1>9
    <2> QED BY <1>1, <2>1 DEF InFeed
  <1> QED BY <1>6, <1>9 DEF Arrives

LEMMA PublishedArrives ==
  ASSUME BooksInv, Consecutive, Arrives, Published, UNCHANGED smoke
  PROVE  Arrives'
  <1>1. /\ wpc = "execute" /\ pipe = <<>> /\ ~failed /\ wpc' = "top" /\ stream' = stream
        /\ published' = published + Len(batch)
        /\ UNCHANGED <<main, redis_dropped, runs, arrived>>
    BY DEF Published, redis
  <1>2. FirstEvent' = FirstEvent /\ Extends
    BY <1>1, SameExtends DEF FirstEvent, main
  <1>3. \A n : InFeed(n) => InFeed(n)'
    BY <1>1, <1>2, InFeedStays
  <1>4. ASSUME Testing', redis_dropped' = 0, NEW n \in FirstEvent' + 1..FirstEvent' + published'
        PROVE  InFeed(n)'
    <2>1. Testing /\ smoke # "off" /\ dpc # "dead"
      BY <1>1, <1>4 DEF Testing, BooksInv, Places
    <2>2. /\ FirstEvent \in Nat /\ published \in Nat /\ Len(batch) \in Nat /\ Handled = published
          /\ Len(pipe) = 0
      BY <1>1, <1>4, <2>1, TestLedger, NoSeq DEF Handled
    <2>3. n \in Nat /\ n >= FirstEvent + 1 /\ n <= FirstEvent + published + Len(batch)
      BY <1>1, <1>2, <1>4, <2>2
    <2>4. CASE n <= FirstEvent + published
      <3>1. n \in FirstEvent + 1..FirstEvent + published
        BY <2>2, <2>3, <2>4
      <3> QED BY <1>1, <1>3, <1>4, <2>1, <3>1 DEF Arrives
    <2>5. CASE ~(n <= FirstEvent + published)
      <3> DEFINE i == n - (FirstEvent + published)
      <3>1. i \in 1..Len(batch) /\ i \in 1..Len(batch) - Len(pipe) /\ FirstEvent + Handled + i = n
        BY <2>2, <2>3, <2>5
      <3>2. batch[i].n = n
        BY <2>1, <3>1 DEF Consecutive
      <3>3. InFeed(batch[i].n)
        BY <1>1, <2>1, <3>1 DEF Arrives
      <3> QED BY <1>3, <3>2, <3>3
    <2> QED BY <2>4, <2>5
  <1> QED BY <1>1, <1>4 DEF Arrives

LEMMA RaisedArrives ==
  ASSUME BooksInv, Arrives, Raised, UNCHANGED smoke
  PROVE  Arrives'
  <1>1. /\ wpc' = "top" /\ stream' = stream /\ redis_dropped' = redis_dropped + Len(batch)
        /\ UNCHANGED <<main, published, runs, arrived>>
    BY DEF Raised
  <1>2. FirstEvent' = FirstEvent /\ Extends
    BY <1>1, SameExtends DEF FirstEvent, main
  <1>3. \A n : InFeed(n) => InFeed(n)'
    BY <1>1, <1>2, InFeedStays
  <1>4. redis_dropped' = 0 => redis_dropped = 0
    BY <1>1, RecordsTyped DEF BooksInv, TypeOK, CountersTyped
  <1>5. ASSUME Testing', redis_dropped' = 0, NEW n \in FirstEvent' + 1..FirstEvent' + published'
        PROVE  InFeed(n)'
    BY <1>1, <1>2, <1>3, <1>4, <1>5 DEF Arrives, Testing
  <1> QED BY <1>1, <1>5 DEF Arrives

LEMMA WriterArrives ==
  ASSUME BooksInv, SentIsIn, Consecutive, Arrives, WriterStep, UNCHANGED smoke
  PROVE  Arrives'
  <1>1. CASE \E ok \in BOOLEAN : Top \/ Connect(ok) \/ Ready(ok) \/ Hset(ok) \/ Hexpire(ok) \/ Idle
    <2>1. /\ UNCHANGED <<main, batch, pipe, failed, published, redis_dropped, stream, history>>
          /\ wpc' # "execute"
      BY <1>1, WalkChanges
    <2> QED BY <2>1, SameExtends, SameArrives DEF FirstEvent, main, history, Testing
  <1>2. CASE Take
    <2>1. /\ UNCHANGED <<main, published, redis_dropped, stream, runs, arrived>> /\ wpc' # "execute"
      BY <1>2 DEF Take, redis
    <2>2. FirstEvent' = FirstEvent /\ \A n : InFeed(n) => InFeed(n)'
      BY <2>1, SameExtends, InFeedStays DEF FirstEvent, main
    <2>3. ASSUME Testing', redis_dropped' = 0, NEW n \in FirstEvent' + 1..FirstEvent' + published'
          PROVE  InFeed(n)'
      BY <2>1, <2>2, <2>3 DEF Arrives, Testing
    <2> QED BY <2>1, <2>3 DEF Arrives
  <1> QED BY <1>1, <1>2, BuildArrives, SendArrives, PublishedArrives, RaisedArrives DEF WriterStep

LEMMA ArrivesKept ==
  ASSUME BooksInv, SentIsIn, Consecutive, Arrives, [MCNext]_all_vars
  PROVE  Arrives'
  <1>1. CASE UNCHANGED all_vars
    <2>1. UNCHANGED <<smoke, arrived, drained, stream, batch, pipe, published, redis_dropped, runs, wpc, failed>>
      BY <1>1 DEF all_vars, sink_vars, smoke_vars, vars, main, writer, stats, redis, history
    <2> QED BY <2>1, SameExtends, SameArrives DEF FirstEvent, Testing
  <1>2. CASE Publishes /\ Next
    BY <1>2 DEF Publishes, smoke_vars, Arrives, Testing
  <1>3. CASE SmokeNext
    <2>1. smoke # "off"
      BY <1>3 DEF SmokeNext
    <2>2. CASE Going \/ StopSink
      <3>1. /\ UNCHANGED <<arrived, drained, stream, batch, pipe, published, redis_dropped, runs, wpc, failed>>
            /\ smoke \notin {"off", "done", "exited"}
        BY <2>2, GoingChanges DEF StopSink, sink_vars, vars, main, writer, stats, redis, history
      <3> QED BY <3>1, SameExtends, SameArrives DEF FirstEvent, Testing
    <2>3. CASE Submit
      <3>1. /\ smoke = "submit" /\ arrived' = arrived + 1 /\ drained' = drained + 1
            /\ UNCHANGED <<writer, stats, redis, runs>>
        BY <2>3, SmokeSubmitChanges
      <3>2. FirstEvent' = FirstEvent
        BY <3>1 DEF FirstEvent, BooksInv, TypeOK, MainTyped, CountersTyped
      <3> QED BY <3>1, <3>2, SameExtends, SameArrives DEF Testing, writer, stats, redis
    <2>4. CASE Delete \/ SmokeEnds
      BY <2>4 DEF Delete, SmokeEnds, Arrives, Testing
    <2>5. CASE SmokeWriter
      BY <2>5, WriterArrives DEF SmokeWriter, smoke_vars
    <2>6. CASE SmokeAgain
      <3>1. dpc = "dead" /\ wpc' = "top" /\ published' = published /\ arrived' = arrived /\ drained' = drained
        BY <2>6 DEF SmokeAgain, Relaunch, stats
      <3>2. published = 0 /\ FirstEvent \in Int
        BY <2>1, <3>1, TestLedger
      <3>3. FirstEvent' + 1..FirstEvent' + published' = {}
        BY <3>1, <3>2 DEF FirstEvent
      <3> QED BY <3>1, <3>3 DEF Arrives
    <2>7. CASE \E c \in DOMAIN late : LateRun(c) /\ UNCHANGED smoke_vars
      <3>1. UNCHANGED <<smoke, main, queue, writer, stats, history>>
        BY <2>7 DEF LateRun, smoke_vars
      <3>2. Extends
        <4>1. PICK w \in Command : \E keys \in SUBSET KeysOf(w.rec.code) : stream' = Added(w, keys)
          BY <2>7, LateChanges
        <4> QED BY <4>1, AddedExtends
      <3> QED BY <3>1, <3>2, SameArrives DEF main, writer, stats, history, FirstEvent, Testing
    <2> QED BY <1>3, <2>2, <2>3, <2>4, <2>5, <2>6, <2>7 DEF SmokeNext, Going
  <1> QED BY <1>1, <1>2, <1>3 DEF MCNext

-----------------------------------------------------------------------------
\* The test's own steps.
LEMMA GoingFinds ==
  ASSUME BooksInv, Findings, Going
  PROVE  Findings'
  <1>1. /\ UNCHANGED <<sink_vars, gone>>
        /\ smoke \notin {"off", "done", "exited"} /\ smoke' \notin {"off", "ping", "exited"}
    BY GoingChanges
  <1>2. UNCHANGED <<dpc, stop, wpc, published, watchdog, old>>
    BY <1>1 DEF Going, Ping, Waited, Judge, ReadWatchdog, Joined, ReadKeys, ReadBack, Goes,
                sink_vars, vars, main, writer, stats, redis
  <1>3. Field' /\ Written'
    BY <1>1, <1>2 DEF Findings, Field, Written, Testing
  <1>4. Phases'
    <2>1. smoke' \in Unstopped => smoke \in Unstopped
      BY DEF Going, Ping, Waited, Judge, ReadWatchdog, Joined, ReadKeys, ReadBack, Goes, Unstopped
    <2> QED BY <1>1, <1>2, <2>1 DEF Findings, Phases
  <1>5. N \in Nat \ {0}
    BY SmokeAssumption, EmptySeq DEF N
  <1>6. Found'
    <2> USE DEF Findings, Found, Judged
    <2>1. CASE Ping \/ Waited
      BY <1>2, <2>1 DEF Ping, Waited, Goes
    <2>2. CASE Judge
      BY <1>2, <2>2 DEF Judge, Goes
    <2>3. CASE ReadWatchdog
      <3>1. watchdog # "absent"
        BY <1>1, <1>5, <2>3 DEF ReadWatchdog, Goes, Phases, Unstopped, Written, Testing
      <3> QED BY <1>2, <2>3, <3>1 DEF ReadWatchdog, Goes, WatchdogVerdict, Field
    <2>4. CASE Joined
      BY <1>2, <2>4 DEF Joined, Goes
    <2>5. CASE ReadKeys
      BY <1>2, <2>5 DEF ReadKeys, ReadBack, Goes
    <2> QED BY <2>1, <2>2, <2>3, <2>4, <2>5 DEF Going
  <1> QED BY <1>3, <1>4, <1>6 DEF Findings

\* Steps that move nothing the findings are about.
LEMMA SameFinds ==
  ASSUME Findings, UNCHANGED <<smoke, dpc, stop, wpc, published, watchdog, old, verdict>>
  PROVE  Findings'
  BY DEF Findings, Field, Phases, Written, Found, Testing

LEMMA WriterFinds ==
  ASSUME BooksInv, Consecutive, Findings, SmokeWriter
  PROVE  Findings'
  <1>1. /\ smoke \notin {"off", "ping", "exited"} /\ UNCHANGED <<smoke, old, verdict>>
        /\ WriterStep
    BY DEF SmokeWriter, smoke_vars
  <1>2. UNCHANGED <<dpc, stop>>
    BY <1>1, WalkChanges, SendChanges
    DEF WriterStep, Take, Build, Published, Raised, WriterRest, main
  <1>3. Phases'
    BY <1>1, <1>2 DEF Findings, Phases
  <1>4. watchdog' = watchdog \/ wpc \in {"hset", "hexpire"}
    BY <1>1 DEF WriterStep, Take, Build, Published, Raised, Send, Top, Idle, Connect, Ready, Hset, Hexpire, redis
  <1>5. Field'
    <2>1. CASE watchdog' = watchdog
      BY <1>1, <2>1 DEF Findings, Field
    <2>2. CASE wpc = "hset"
      <3>1. watchdog' \in {watchdog, "alive"}
        BY <1>1, <2>2
        DEF WriterStep, Take, Build, Published, Raised, Send, Top, Idle, Connect, Ready, Hset, Hexpire
      <3> QED BY <1>1, <3>1 DEF Findings, Field
    <2>3. CASE wpc = "hexpire"
      <3>1. watchdog' \in {watchdog, "expiring"} /\ (old => watchdog' = watchdog)
        BY <1>1, <2>3
        DEF SmokeWriter, WriterStep, Take, Build, Published, Raised, Send, Top, Idle, Connect, Ready, Hset, Hexpire
      <3> QED BY <1>1, <3>1 DEF Findings, Field
    <2> QED BY <1>4, <2>1, <2>2, <2>3
  <1>6. published \in Nat /\ Len(batch) \in Nat
    BY RecordsTyped DEF BooksInv, TypeOK, CountersTyped
  <1>7. published' = published \/ (wpc = "execute" /\ published' = published + Len(batch))
    <2>1. CASE Published
      BY <2>1 DEF Published
    <2>2. CASE ~Published
      BY <1>1, <2>2, WalkChanges, SendChanges DEF WriterStep, Take, Build, Raised, WriterRest
    <2> QED BY <2>1, <2>2
  <1>8. Written'
    <2> SUFFICES ASSUME Testing', ~stop', published' > 0 \/ wpc' \in {"hexpire", "take", "build", "execute"}
                 PROVE  watchdog' # "absent"
      BY DEF Written
    <2>1. Testing /\ ~stop
      BY <1>1, <1>2 DEF Testing
    <2>2. CASE wpc = "hset"
      <3>1. /\ wpc' \in {"hexpire", "top"} /\ watchdog' \in {watchdog, "alive"}
            /\ published' = published
        BY <1>1, <2>2, <1>7
        DEF WriterStep, Take, Build, Published, Raised, Send, Top, Idle, Connect, Ready, Hset, Hexpire
      <3>2. wpc' = "hexpire" => watchdog' = "alive"
        BY <1>1, <2>2
        DEF WriterStep, Take, Build, Published, Raised, Send, Top, Idle, Connect, Ready, Hset, Hexpire
      <3>3. CASE wpc' = "hexpire"
        BY <3>2, <3>3
      <3>4. CASE wpc' = "top"
        <4>1. published > 0
          BY <3>1, <3>4
        <4>2. watchdog # "absent"
          BY <4>1, <2>1 DEF Findings, Written
        <4> QED BY <3>1, <4>2
      <3> QED BY <3>1, <3>3, <3>4
    <2>3. CASE wpc = "hexpire"
      <3>1. watchdog' \in {watchdog, "expiring"}
        BY <1>1, <2>3
        DEF WriterStep, Take, Build, Published, Raised, Send, Top, Idle, Connect, Ready, Hset, Hexpire
      <3> QED BY <2>1, <2>3, <3>1 DEF Findings, Written
    <2>4. CASE wpc \notin {"hset", "hexpire"}
      <3>1. watchdog' = watchdog
        BY <1>4, <2>4
      <3>2. CASE wpc \in {"take", "build", "execute"}
        BY <2>1, <3>1, <3>2 DEF Findings, Written
      <3>3. CASE wpc \notin {"take", "build", "execute"}
        <4>1. wpc' \notin {"hexpire", "take", "build", "execute"}
          BY <1>1, <2>1, <2>4, <3>3
          DEF SmokeWriter, WriterStep, Take, Build, Published, Raised, Send, Top, Idle, Connect, Ready, Hset, Hexpire
        <4> QED BY <1>7, <2>1, <3>1, <3>3, <4>1 DEF Findings, Written
      <3> QED BY <3>2, <3>3
    <2> QED BY <2>2, <2>3, <2>4
  <1>9. published = N => published' = N
    <2>1. SUFFICES ASSUME published = N, wpc = "execute" PROVE Len(batch) = 0
      BY <1>6, <1>7
    <2>2. dpc # "dead" /\ N \in Nat
      BY <1>6, <2>1 DEF BooksInv, Places
    <2>3. drained <= N
      BY <1>1, <2>2 DEF Consecutive
    <2> QED BY SMTT(30), <1>1, <2>1, <2>2, <2>3, TestLedger DEF Handled
  <1>10. Found'
    BY <1>1, <1>9 DEF Findings, Found, Judged
  <1> QED BY <1>3, <1>5, <1>8, <1>10 DEF Findings

LEMMA FindingsKept ==
  ASSUME BooksInv, Consecutive, Findings, [MCNext]_all_vars
  PROVE  Findings'
  <1>1. CASE UNCHANGED all_vars
    BY <1>1, SameFinds DEF all_vars, sink_vars, smoke_vars, vars, main, writer, stats, redis
  <1>2. CASE Publishes /\ Next
    <2>1. smoke = "off" /\ UNCHANGED <<smoke, old, verdict>> /\ ~old
      BY <1>2 DEF Publishes, smoke_vars, Findings, Field
    <2>2. watchdog' \in {"absent", "alive", "expiring"}
      <3>1. watchdog' \in {watchdog, "absent", "alive", "expiring"}
        BY <1>2 DEF Next, MainStep, OnEvent, Put, Evict, CountDrop, Reput, WriterStep, Take, Build, Published,
                    Raised, Send, Top, Idle, Connect, Ready, Hset, Hexpire, Interrupt, Join, Die, Relaunch,
                    Expire, LateRun, redis
      <3> QED BY <3>1 DEF Findings, Field
    <2> QED BY <2>1, <2>2 DEF Findings, Field, Phases, Written, Found, Testing, Judged
  <1>3. CASE SmokeNext
    <2>1. smoke # "off"
      BY <1>3 DEF SmokeNext
    <2>2. CASE Going
      BY <2>2, GoingFinds
    <2>3. CASE Submit
      <3>1. /\ smoke = "submit" /\ smoke' \in {"wait", "submit"}
            /\ UNCHANGED <<dpc, stop, wpc, published, watchdog, old, verdict>>
        BY <2>3 DEF Submit, writer, stats, redis
      <3> QED BY <3>1 DEF Findings, Field, Phases, Written, Found, Testing, Unstopped, Judged
    <2>4. CASE StopSink
      <3>1. /\ smoke \in {"stop", "give_up"} /\ stop'
            /\ smoke' = IF smoke = "stop" THEN "join" ELSE "join_give_up"
            /\ UNCHANGED <<dpc, wpc, published, watchdog, old, verdict>>
        BY <2>4 DEF StopSink, main, writer, stats, redis
      <3> QED BY <3>1 DEF Findings, Field, Phases, Written, Found, Testing, Unstopped, Judged
    <2>5. CASE Delete
      <3>1. /\ smoke = "delete" /\ smoke' = "done" /\ watchdog' \in {"absent", watchdog}
            /\ verdict' \in {verdict, "raised"} /\ UNCHANGED <<dpc, stop, old>>
        BY <2>5 DEF Delete, main
      <3> QED BY <3>1 DEF Findings, Field, Phases, Written, Found, Testing, Unstopped, Judged
    <2>6. CASE SmokeWriter
      BY <2>6, WriterFinds
    <2>7. CASE SmokeEnds
      <3>1. /\ smoke' = "exited" /\ dpc' = "dead" /\ ~stop' /\ UNCHANGED <<watchdog, old, verdict>>
        BY <2>7 DEF SmokeEnds, Die
      <3> QED BY <2>1, <3>1 DEF Findings, Field, Phases, Written, Found, Testing, Unstopped, Judged
    <2>8. CASE SmokeAgain
      <3>1. /\ smoke' = "ping" /\ dpc = "dead" /\ dpc' = "drain" /\ wpc' = "top" /\ verdict' = "none"
            /\ UNCHANGED <<stop, published, watchdog, old>>
        BY <2>8 DEF SmokeAgain, Relaunch, stats, redis
      <3>2. published = 0
        BY <2>1, <3>1, TestLedger
      <3> QED BY <2>1, <3>1, <3>2 DEF Findings, Field, Phases, Written, Found, Testing, Unstopped, Judged
    <2>9. CASE \E c \in DOMAIN late : LateRun(c) /\ UNCHANGED smoke_vars
      BY <2>9, SameFinds DEF LateRun, smoke_vars, main, writer, stats
    <2> QED BY <1>3, <2>2, <2>3, <2>4, <2>5, <2>6, <2>7, <2>8, <2>9 DEF SmokeNext, Going
  <1> QED BY <1>1, <1>2, <1>3 DEF MCNext

-----------------------------------------------------------------------------
\* Whoever submits, and whatever fails: the books, the order of what is issued, what is
\* sent, and what the smoke test has left, at every moment.
THEOREM Invariance == MCSpec => []IInv
  <1>1. MCInit => IInv
    <2>1. ASSUME MCInit PROVE SentIsIn /\ OwnKeys /\ NothingToCome /\ TestInv
      <3>1. /\ wpc = "top" /\ acked = {} /\ ~gone /\ queue = <<>> /\ batch = <<>> /\ pipe = <<>>
            /\ late = <<>> /\ \A k \in Key : stream[k] = <<>>
            /\ dpc = "drain" /\ ~stop /\ smoke \in {"off", "ping"} /\ (smoke = "off" => ~old)
            /\ watchdog = "absent" /\ verdict = "none"
            /\ arrived = 0 /\ drained = 0 /\ queue_dropped = 0 /\ redis_dropped = 0 /\ published = 0
        BY <2>1 DEF MCInit, NoSmoke, SmokeInit, Init
      <3>2. Len(<<>>) = 0 /\ Piped = {} /\ Abandoned = {} /\ N \in Nat
        BY <3>1, NoSeq, SmokeAssumption, SeqLen DEF Piped, Abandoned, N
      <3>3. SentIsIn /\ OwnKeys /\ NothingToCome
        BY <3>1, <3>2 DEF SentIsIn, OwnKeys, NothingToCome
      <3>4. Consecutive
        <4>1. Issued(StreamKey) = {}
          BY <3>1, <3>2, SomeKey DEF Issued, Stored, Made
        <4> QED BY <3>1, <3>2, <4>1 DEF Consecutive
      <3>5. Arrives
        <4>1. FirstEvent + 1..FirstEvent + published = {}
          BY <3>1 DEF FirstEvent
        <4> QED BY <3>1, <4>1 DEF Arrives
      <3>6. Findings
        BY <3>1 DEF Findings, Field, Phases, Written, Found, Judged, Unstopped
      <3> QED BY <3>3, <3>4, <3>5, <3>6 DEF TestInv
    <2> QED BY <2>1, BooksInit, OrderInit DEF IInv
  <1>2. IInv /\ [MCNext]_all_vars => IInv'
    BY BooksKept, OrderKept, SentKept, OwnKept, NothingComes, ConsecutiveKept, ArrivesKept, FindingsKept
    DEF IInv, TestInv
  <1> QED BY <1>1, <1>2, PTL DEF MCSpec

\* Every drained event is published, dropped by the queue or by Redis, queued, in the
\* writer's batch, or cut out of a submit by a Ctrl-C; and what counts as published is in
\* its streams (redis_sink.py:83-101, 141-148, 202-214).
THEOREM LedgerCloses == MCSpec => []SinkKeepsItsLedger
  <1>1. IInv => SinkKeepsItsLedger
    <2> SUFFICES ASSUME IInv, smoke = "off" PROVE PublishedIsStored
      BY DEF IInv, BooksInv, Books, SinkKeepsItsLedger
    <2>1. ASSUME NEW n \in acked
          PROVE  \E i \in DOMAIN stream[StreamKey] :
                   /\ stream[StreamKey][i].n = n
                   /\ \A k \in KeysOf(stream[StreamKey][i].code) :
                        \E j \in DOMAIN stream[k] : stream[k][j].n = n
      <3>1. PICK i \in 1..Len(stream[StreamKey]) :
              /\ stream[StreamKey][i].n = n
              /\ \A k \in KeysOf(stream[StreamKey][i].code) :
                   \E j \in 1..Len(stream[k]) : stream[k][j].n = n
        BY DEF IInv, SentIsIn, IsIn
      <3>2. StreamKey \in Key
        BY SomeKey
      <3>3. \A k \in Key : DOMAIN stream[k] = 1..Len(stream[k])
        BY SeqLen DEF IInv, BooksInv, TypeOK, RedisTyped
      <3>4. stream[StreamKey][i].code \in Codes
        BY <3>2, StoredTyped DEF IInv
      <3>5. KeysOf(stream[StreamKey][i].code) \subseteq Key
        BY <3>4, KeysTyped
      <3> QED BY <3>1, <3>2, <3>3, <3>5
    <2> QED BY <2>1 DEF PublishedIsStored
  <1> QED BY <1>1, Invariance, PTL

\* An event enters a stream at most once, and the events of one run in the order in which
\* they were drained (redis_sink.py:202-214).
THEOREM AtMostOnce == MCSpec => []AtMostOnceInOrder
  <1>1. IInv => AtMostOnceInOrder
    <2> SUFFICES ASSUME IInv, NEW k \in Key, NEW i \in DOMAIN stream[k], NEW j \in DOMAIN stream[k], i < j
                 PROVE  /\ stream[k][i].n # stream[k][j].n
                        /\ stream[k][i].run = stream[k][j].run => stream[k][i].n < stream[k][j].n
      BY DEF AtMostOnceInOrder
    <2>1. i \in 1..Len(stream[k]) /\ j \in 1..Len(stream[k])
      BY SeqLen DEF IInv, BooksInv, TypeOK, RedisTyped
    <2>2. stream[k][i] \in EntryType /\ stream[k][j] \in EntryType
      BY <2>1, StoredTyped DEF IInv
    <2>3. stream[k][i].id < stream[k][j].id
      BY <2>1 DEF IInv, OrderInv, Rising
    <2>4. Agree(stream[k][i], stream[k][j]) /\ Agree(stream[k][j], stream[k][i])
      BY <2>1 DEF IInv, OrderInv, AllAgree, Issued, Stored
    <2> QED BY <2>2, <2>3, <2>4 DEF Agree, EntryType
  <1> QED BY <1>1, Invariance, PTL

\* While one process has written it all, the guard's memory is never behind the server's
\* last ID, and XADD refuses nothing (redis_sink.py:132-139).
THEOREM GuardCovers == MCSpec => []GuardCoversServer
  <1>1. IInv => GuardCoversServer
    <2> SUFFICES ASSUME IInv, runs = 1
                 PROVE  ~rejected /\ (dpc # "dead" => \A k \in Key : LastId(k) <= last_ratime[k])
      BY DEF GuardCoversServer
    <2>1. ~rejected
      BY DEF IInv, OrderInv, Unrefused
    <2>2. ASSUME dpc # "dead", NEW k \in Key PROVE LastId(k) <= last_ratime[k]
      <3>1. wpc # "dead" /\ last_ratime[k] \in Nat
        BY <2>2 DEF IInv, BooksInv, TypeOK, WriterTyped, Places
      <3>2. LastId(k) \in Nat /\ (LastId(k) > 0 => \E e \in Stored(k) : e.id = LastId(k))
        BY LastIdLast DEF IInv, OrderInv
      <3>3. CASE LastId(k) > 0
        <4>1. PICK e \in Stored(k) : e.id = LastId(k)
          BY <3>2, <3>3
        <4>2. e \in Issued(k) /\ e.run \in Nat \ {0}
          BY <4>1, IssuedTyped DEF Issued, EntryType, IInv
        <4>3. e.run = 1
          BY <4>2 DEF IInv, OrderInv, Covered
        <4> QED BY <3>1, <4>1, <4>2, <4>3 DEF IInv, OrderInv, Covered
      <3> QED BY <3>1, <3>2, <3>3
    <2> QED BY <2>1, <2>2
  <1> QED BY <1>1, Invariance, PTL

\* Once the smoke test has deleted its keys, with nothing still to come, none of them comes
\* back, however the test ended (redis_smoketest.py:84-98, 155-196).
THEOREM LeavesNothing == MCSpec => []SmokeLeavesNothing
  <1>1. IInv => SmokeLeavesNothing
    BY DEF IInv, NothingToCome, SmokeLeavesNothing
  <1> QED BY <1>1, Invariance, PTL

\* The smoke test's verdict is true: a pass means that the server expires fields, and that
\* this run's events went into the feed, all of them, each once, and none was dropped
\* (redis_smoketest.py:150-190).
THEOREM ToldTrue == MCSpec => []SmokeToldTrue
  <1>1. IInv => SmokeToldTrue
    <2> SUFFICES ASSUME IInv, verdict = "pass", smoke = "delete"
                 PROVE  /\ ~old
                        /\ published = N /\ queue_dropped + redis_dropped = 0
                        /\ Cardinality({i \in DOMAIN stream[StreamKey] : stream[StreamKey][i].run = runs}) = N
      BY DEF SmokeToldTrue, IInv, TestInv, Findings, Found
    <2> DEFINE feed == stream[StreamKey]
               mine == {i \in DOMAIN feed : feed[i].run = runs}
               events == FirstEvent + 1..FirstEvent + N
               f == [i \in mine |-> feed[i].n]
    <2>1. ~old /\ published = N /\ dpc # "dead" /\ Testing
      BY DEF IInv, TestInv, Findings, Phases, Found, Testing
    <2>2. /\ drained = N /\ N \in Nat /\ queue_dropped = 0 /\ redis_dropped = 0
          /\ arrived \in Nat /\ FirstEvent \in Int
      <3>1. /\ N \in Nat /\ drained \in Nat /\ arrived \in Nat /\ published \in Nat /\ redis_dropped \in Nat
            /\ Len(queue) \in Nat /\ Len(batch) \in Nat
        BY RecordsTyped, SmokeAssumption, SeqLen
        DEF N, IInv, BooksInv, TypeOK, MainTyped, CountersTyped
      <3>2. drained <= N /\ queue_dropped = 0
        BY <2>1 DEF IInv, TestInv, Consecutive
      <3>3. drained = Handled + Len(queue) + Len(batch)
        BY <2>1, TestLedger DEF IInv, TestInv, Testing
      <3> QED BY <2>1, <3>1, <3>2, <3>3 DEF FirstEvent, Handled
    <2>3. feed \in Seq(EntryType) /\ DOMAIN feed = 1..Len(feed) /\ Len(feed) \in Nat
      BY SomeKey, SeqLen DEF IInv, BooksInv, TypeOK, RedisTyped
    <2>4. ASSUME NEW i \in mine
          PROVE  feed[i] \in EntryType /\ feed[i] \in Issued(StreamKey) /\ feed[i].n \in events
      <3>1. i \in 1..Len(feed) /\ feed[i].run = runs
        BY <2>3
      <3>2. feed[i] \in Issued(StreamKey)
        BY <3>1 DEF Issued, Stored
      <3>3. feed[i] \in EntryType
        BY <2>3, <3>1, SeqLen
      <3>4. feed[i].n > FirstEvent
        BY <2>1, <3>1, <3>2 DEF IInv, TestInv, Consecutive
      <3>5. feed[i].n <= arrived
        BY <3>2, SomeKey DEF IInv, OrderInv, Covered
      <3>6. feed[i].n \in Nat
        BY <3>3 DEF EntryType
      <3> QED BY <2>2, <3>2, <3>3, <3>4, <3>5, <3>6 DEF FirstEvent
    <2>5. ASSUME NEW i \in mine, NEW j \in mine, i < j PROVE feed[i].n # feed[j].n
      <3>1. feed[i].id < feed[j].id
        BY <2>3, <2>5, SomeKey DEF IInv, OrderInv, Rising
      <3>2. Agree(feed[i], feed[j])
        BY <2>4, SomeKey DEF IInv, OrderInv, AllAgree
      <3>3. feed[i].id \in Nat /\ feed[j].id \in Nat
        BY <2>4 DEF EntryType
      <3> QED BY <3>1, <3>2, <3>3 DEF Agree
    <2>6. \A n \in events : \E i \in mine : feed[i].n = n
      BY <2>1, <2>2, <2>3 DEF IInv, TestInv, Arrives, InFeed
    <2>7. f \in Injection(mine, events)
      <3>1. f \in [mine -> events]
        BY <2>4
      <3>2. \A i, j \in mine : i = j \/ i < j \/ j < i
        BY <2>3
      <3>3. \A i, j \in mine : f[i] = f[j] => i = j
        BY <2>5, <3>2
      <3> QED BY <3>1, <3>3 DEF Injection, IsInjective
    <2>8. f \in Surjection(mine, events)
      BY <2>6, <2>7 DEF Injection, Surjection
    <2>9. IsFiniteSet(events) /\ Cardinality(events) = N
      BY <2>2, FS_Interval
    <2>10. Cardinality(mine) = N
      <3> HIDE DEF f, mine, events
      <3> QED BY <2>7, <2>8, <2>9, FS_Injection
    <2> QED BY <2>1, <2>2, <2>10
  <1> QED BY <1>1, Invariance, PTL
=============================================================================
