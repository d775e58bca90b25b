------------------------------ MODULE RedisSink ------------------------------
(***************************************************************************)
(* The publisher process (deploy/redis_publish.py) and its background      *)
(* Redis writer (deploy/redis_sink.py).                                    *)
(*                                                                         *)
(* The main thread drains the readout and submits one record per event to  *)
(* a bounded queue; when the queue is full it drops the OLDEST record. The *)
(* writer thread takes records in batches and sends each batch as one      *)
(* pipeline of XADDs. The threads interleave at every operation on the     *)
(* queue and on the stop flag. Redis may refuse a connection, drop it      *)
(* after any command, or stall past the socket timeout and run the         *)
(* commands of a connection that was given up beside those of the next;    *)
(* Ctrl-C may hit the main thread at any point of a submit; the process    *)
(* may be killed, and the launcher starts it again (run_pipeline.sh) on    *)
(* the same Redis.                                                         *)
(***************************************************************************)
EXTENDS Integers, Sequences, SequencesExt

CONSTANTS
  Codes,      \* event codes
  MaxRa,      \* RA_Times of events are 1 .. MaxRa, in any order; 0 is UNSYNC
  QueueSize,  \* the bound of the queue
  BatchSize,  \* records per pipeline, at most
  MaxEvents,  \* bound: events drained in a behaviour
  MaxRuns     \* bound: times the process is started

ASSUME SinkAssumption ==
  /\ QueueSize \in Nat \ {0}
  /\ BatchSize \in Nat \ {0}
  /\ {MaxRa, MaxEvents, MaxRuns} \subseteq Nat

VARIABLES
  \* main thread
  dpc, rec, drained, unsync, counts,
  \* shared by the threads
  queue, stop,
  \* writer thread
  wpc, client, batch, pipe, last_ratime, failed,
  \* statistics
  published, queue_dropped, redis_dropped, last_error,
  \* the Redis server
  stream, watchdog,
  late,       \* the records still in the sockets of abandoned connections
  \* history
  runs, arrived, uncounted, acked, rejected

main == <<dpc, rec, drained, unsync, counts>>
writer == <<wpc, client, batch, pipe, last_ratime, failed>>
stats == <<published, queue_dropped, redis_dropped, last_error>>
redis == <<stream, watchdog, late>>
history == <<runs, arrived, uncounted, acked, rejected>>
vars == <<main, queue, stop, writer, stats, redis, history>>

\* The keys of the streams: per code the times and the counts, and one feed.
StreamKey == <<"STREAM">>
KeysOf(code) == {<<"ts", code>>, <<"count", code>>, StreamKey}
Key == UNION {KeysOf(c) : c \in Codes}

\* The order in which a record's keys are written.
WritesOf(code) == <<<<"ts", code>>, <<"count", code>>, StreamKey>>

NoRecord == [n |-> 0, ra |-> 0, code |-> CHOOSE c \in Codes : TRUE, count |-> 0]

NoIds == [k \in Key |-> 0]
NoCounts == [c \in Codes |-> 0]

\* The process as it starts: RedisSink(), RecordBuilder(), PublisherState().
Init ==
  /\ dpc = "drain" /\ rec = NoRecord /\ drained = 0 /\ unsync = 0 /\ counts = NoCounts
  /\ queue = <<>> /\ stop = FALSE
  /\ wpc = "top" /\ client = FALSE /\ batch = <<>> /\ pipe = <<>>
  /\ last_ratime = NoIds /\ failed = FALSE
  /\ published = 0 /\ queue_dropped = 0 /\ redis_dropped = 0 /\ last_error = FALSE
  /\ stream = [k \in Key |-> <<>>] /\ watchdog = "absent"
  /\ late = <<>>
  /\ runs = 1 /\ arrived = 0 /\ uncounted = 0 /\ acked = {} /\ rejected = FALSE

-----------------------------------------------------------------------------
(***************************************************************************)
(* The main thread: on_event and RedisSink.submit.                         *)
(***************************************************************************)
\* An event drained with timestamp ra and this code: UNSYNC events are only
\* counted, a real one gets its occurrence number.
OnEvent(ra, code) ==
  /\ dpc = "drain" /\ arrived < MaxEvents
  /\ arrived' = arrived + 1
  /\ IF ra = 0
       THEN /\ unsync' = unsync + 1
            /\ UNCHANGED <<dpc, rec, drained, counts>>
       ELSE /\ drained' = drained + 1
            /\ counts' = [counts EXCEPT ![code] = @ + 1]
            /\ rec' = [n |-> arrived', ra |-> ra, code |-> code, count |-> counts'[code]]
            /\ dpc' = "put"
            /\ UNCHANGED unsync
  /\ UNCHANGED <<queue, stop, writer, stats, redis, runs, uncounted, acked, rejected>>

\* A variant with a defect: an eviction that is not counted.
EvictUncounted ==
  /\ dpc = "evict"
  /\ dpc' = "reput"
  /\ queue' = IF queue = <<>> THEN queue ELSE Tail(queue)
  /\ UNCHANGED <<rec, drained, unsync, counts, stop, writer, stats, redis, history>>

\* put_nowait of the record in hand.
Put ==
  /\ dpc = "put"
  /\ IF Len(queue) < QueueSize
       THEN queue' = Append(queue, rec) /\ dpc' = "drain"
       ELSE dpc' = "evict" /\ UNCHANGED queue
  /\ UNCHANGED <<rec, drained, unsync, counts, stop, writer, stats, redis, history>>

\* get_nowait: drop the oldest, unless the writer has emptied the queue.
Evict ==
  /\ dpc = "evict"
  /\ IF queue = <<>>
       THEN dpc' = "reput" /\ UNCHANGED queue
       ELSE dpc' = "count" /\ queue' = Tail(queue)
  /\ UNCHANGED <<rec, drained, unsync, counts, stop, writer, stats, redis, history>>

CountDrop ==
  /\ dpc = "count"
  /\ queue_dropped' = queue_dropped + 1
  /\ dpc' = "reput"
  /\ UNCHANGED <<rec, drained, unsync, counts, queue, stop, writer>>
  /\ UNCHANGED <<published, redis_dropped, last_error, redis, history>>

\* The second put_nowait; when it fails too, this record is dropped.
Reput ==
  /\ dpc = "reput"
  /\ dpc' = "drain"
  /\ IF Len(queue) < QueueSize
       THEN queue' = Append(queue, rec) /\ UNCHANGED queue_dropped
       ELSE queue_dropped' = queue_dropped + 1 /\ UNCHANGED queue
  /\ UNCHANGED <<rec, drained, unsync, counts, stop, writer>>
  /\ UNCHANGED <<published, redis_dropped, last_error, redis, history>>

Submitting == {"put", "evict", "count", "reput"}

\* The records that left the counters' sight while submit is at work: the one
\* in hand, and the one it has evicted but not counted.
InHand == IF dpc = "count" THEN 2 ELSE IF dpc \in Submitting THEN 1 ELSE 0

\* Ctrl-C: the drain loop ends where it is, and main's finally sets stop.
Interrupt ==
  /\ dpc = "drain" \/ dpc \in Submitting
  /\ dpc' = "join" /\ stop' = TRUE
  /\ uncounted' = InHand
  /\ UNCHANGED <<rec, drained, unsync, counts, queue, writer, stats, redis>>
  /\ UNCHANGED <<runs, arrived, acked, rejected>>

\* join(timeout) returns: the writer has ended, or the time is up. The final
\* snapshot of the statistics is what the variables then hold.
Join ==
  /\ dpc = "join"
  /\ dpc' = "snapshot"
  /\ UNCHANGED <<rec, drained, unsync, counts, queue, stop, writer, stats, redis, history>>

-----------------------------------------------------------------------------
(***************************************************************************)
(* The writer thread: RedisSink._run.                                      *)
(***************************************************************************)
WriterRest == <<main, queue, stop, published, queue_dropped, redis_dropped, runs,
                arrived, uncounted, acked>>

\* The head of the loop.
Top ==
  /\ wpc = "top"
  /\ wpc' = IF stop /\ queue = <<>> THEN "ended"
            ELSE IF client THEN "ready" ELSE "connect"
  /\ UNCHANGED <<client, batch, pipe, last_ratime, failed, last_error, redis, rejected>>
  /\ UNCHANGED WriterRest

\* A variant with a defect: a stopping writer tries to connect for ever.
ConnectForEver(ok) ==
  /\ wpc = "connect"
  /\ client' = ok
  /\ last_error' = (last_error \/ ~ok)
  /\ wpc' = IF ok THEN "ready" ELSE "top"
  /\ UNCHANGED <<batch, pipe, last_ratime, failed, redis, rejected>>
  /\ UNCHANGED WriterRest

\* A client that cannot be had ends a stopping writer, else it backs off.
Connect(ok) ==
  /\ wpc = "connect"
  /\ client' = ok
  /\ last_error' = (last_error \/ ~ok)
  /\ wpc' = IF ok THEN "ready" ELSE IF stop THEN "ended" ELSE "top"
  /\ UNCHANGED <<batch, pipe, last_ratime, failed, redis, rejected>>
  /\ UNCHANGED WriterRest

\* The watchdog is refreshed when it is due, but not while stopping.
Ready(due) ==
  /\ wpc = "ready"
  /\ wpc' = IF ~stop /\ due THEN "hset" ELSE "take"
  /\ UNCHANGED <<client, batch, pipe, last_ratime, failed, last_error, redis, rejected>>
  /\ UNCHANGED WriterRest

\* HSET of the watchdog field (which clears its expiry), then HEXPIRE.
Hset(ok) ==
  /\ wpc = "hset"
  /\ watchdog' \in IF ok THEN {"alive"} ELSE {watchdog, "alive"}
  /\ wpc' = IF ok THEN "hexpire" ELSE "top"
  /\ client' = ok
  /\ last_error' = (last_error \/ ~ok)
  /\ UNCHANGED <<batch, pipe, last_ratime, failed, stream, late, rejected>>
  /\ UNCHANGED WriterRest

Hexpire(ok) ==
  /\ wpc = "hexpire"
  /\ watchdog' \in IF ok THEN {"expiring"} ELSE {watchdog, "expiring"}
  /\ wpc' = IF ok THEN "take" ELSE "top"
  /\ client' = ok
  /\ last_error' = (last_error \/ ~ok)
  /\ UNCHANGED <<batch, pipe, last_ratime, failed, stream, late, rejected>>
  /\ UNCHANGED WriterRest

\* _drain_batch: one get_nowait after another.
Take ==
  /\ wpc = "take"
  /\ IF queue # <<>> /\ Len(batch) < BatchSize
       THEN /\ batch' = Append(batch, Head(queue))
            /\ queue' = Tail(queue)
            /\ UNCHANGED wpc
       ELSE /\ wpc' = IF batch = <<>> THEN "idle" ELSE "build"
            /\ UNCHANGED <<batch, queue>>
  /\ UNCHANGED <<client, pipe, last_ratime, failed, last_error, redis, rejected>>
  /\ UNCHANGED <<main, stop, published, queue_dropped, redis_dropped, runs, arrived,
                 uncounted, acked>>

\* Nothing to write: end when stopping, else sleep.
Idle ==
  /\ wpc = "idle"
  /\ wpc' = IF stop THEN "ended" ELSE "top"
  /\ UNCHANGED <<client, batch, pipe, last_ratime, failed, last_error, redis, rejected>>
  /\ UNCHANGED WriterRest

\* A variant with a defect: a tie is not bumped.
GuardedIdTie(key, ra) == IF ra < last_ratime[key] THEN last_ratime[key] + 1 ELSE ra

\* _guarded_id: the time, or one more than this key's last.
GuardedId(key, ra) == IF ra <= last_ratime[key] THEN last_ratime[key] + 1 ELSE ra

\* _write_batch, its loop: queue the three XADDs of the next record.
Build ==
  /\ wpc = "build"
  /\ IF Len(pipe) < Len(batch)
       THEN LET r == batch[Len(pipe) + 1]
                ids == [k \in KeysOf(r.code) |-> GuardedId(k, r.ra)]
            IN  /\ pipe' = Append(pipe, [rec |-> r, id |-> ids, run |-> runs])
                /\ last_ratime' = [k \in Key |-> IF k \in KeysOf(r.code)
                                                  THEN ids[k] ELSE last_ratime[k]]
                /\ UNCHANGED wpc
       ELSE wpc' = "execute" /\ UNCHANGED <<pipe, last_ratime>>
  /\ UNCHANGED <<client, batch, failed, last_error, redis, rejected>>
  /\ UNCHANGED WriterRest

-----------------------------------------------------------------------------
(***************************************************************************)
(* pipe.execute(), and what the server does with it. XADD refuses an ID    *)
(* that is not above the key's last one; the commands after it still run.  *)
(***************************************************************************)
LastId(key) == IF stream[key] = <<>> THEN 0 ELSE stream[key][Len(stream[key])].id

Refuses(w, key) == w.id[key] <= LastId(key)

Entry(w, key) == [id |-> w.id[key], n |-> w.rec.n, code |-> w.rec.code,
                  count |-> w.rec.count, run |-> w.run]

\* The streams when the server has run the XADDs of w to these keys.
Added(w, keys) ==
  [k \in Key |-> IF k \in keys /\ ~Refuses(w, k)
                   THEN Append(stream[k], Entry(w, k)) ELSE stream[k]]

\* The next record's commands run; their replies may hold an error.
Send ==
  /\ wpc = "execute" /\ pipe # <<>>
  /\ LET keys == KeysOf(Head(pipe).rec.code)
         refused == \E key \in keys : Refuses(Head(pipe), key)
     IN  /\ stream' = Added(Head(pipe), keys)
         /\ failed' = (failed \/ refused)
         /\ rejected' = (rejected \/ refused)
  /\ pipe' = Tail(pipe)
  /\ UNCHANGED <<wpc, client, batch, last_ratime, watchdog, late, last_error>>
  /\ UNCHANGED WriterRest

\* All replies are in and none is an error.
Published ==
  /\ wpc = "execute" /\ pipe = <<>> /\ ~failed
  /\ published' = published + Len(batch)
  /\ last_error' = FALSE
  /\ acked' = acked \cup {batch[i].n : i \in DOMAIN batch}
  /\ batch' = <<>> /\ wpc' = "top"
  /\ UNCHANGED <<client, pipe, last_ratime, failed, queue_dropped, redis_dropped>>
  /\ UNCHANGED <<main, queue, stop, redis, runs, arrived, uncounted, rejected>>

\* A connection is given up: what it was sent may be lost, or run later.
Abandon(sent) == IF sent = <<>> THEN late ELSE Append(late, sent)

\* A variant with a defect: a batch whose execute raised is sent again.
RaisedRetry ==
  /\ wpc = "execute"
  /\ late' = Abandon(pipe)
  /\ last_error' = TRUE /\ failed' = FALSE
  /\ pipe' = <<>> /\ wpc' = "build"
  /\ UNCHANGED <<batch, client, last_ratime, published, queue_dropped, redis_dropped, watchdog>>
  /\ UNCHANGED <<main, queue, stop, stream, runs, arrived, uncounted, acked, rejected>>

\* execute raises: a reply is an error, or the connection broke or timed out
\* before the last reply. The batch counts as dropped.
Raised ==
  /\ wpc = "execute"
  /\ late' = Abandon(pipe)
  /\ redis_dropped' = redis_dropped + Len(batch)
  /\ last_error' = TRUE
  /\ client' = FALSE /\ failed' = FALSE
  /\ batch' = <<>> /\ pipe' = <<>> /\ wpc' = "top"
  /\ UNCHANGED <<last_ratime, published, queue_dropped, watchdog>>
  /\ UNCHANGED <<main, queue, stop, stream, runs, arrived, uncounted, acked, rejected>>

\* The server meets the next record of an abandoned connection and runs all its
\* commands, or some and no more of that connection. Nobody reads the replies.
LateRun(c) ==
  /\ LET w == Head(late[c])
     IN  \E k \in 0 .. 3 :
           /\ stream' = Added(w, {WritesOf(w.rec.code)[i] : i \in 1 .. k})
           /\ late' = IF k = 3 /\ Len(late[c]) > 1
                        THEN [late EXCEPT ![c] = Tail(@)] ELSE RemoveAt(late, c)
  /\ UNCHANGED <<watchdog, main, queue, stop, writer, stats, history>>

\* The watchdog field's time to live runs out.
Expire ==
  /\ watchdog = "expiring"
  /\ watchdog' = "absent"
  /\ UNCHANGED <<main, queue, stop, writer, stats, stream, late, history>>

-----------------------------------------------------------------------------
\* The process ends: main returns (the writer is a daemon thread) or it is
\* killed. Its memory is gone; commands already sent still run.
Die ==
  /\ dpc # "dead"
  /\ late' = IF wpc = "execute" THEN Abandon(pipe) ELSE late
  /\ dpc' = "dead" /\ rec' = NoRecord /\ drained' = 0 /\ unsync' = 0 /\ counts' = NoCounts
  /\ queue' = <<>> /\ stop' = FALSE
  /\ wpc' = "dead" /\ client' = FALSE /\ batch' = <<>> /\ pipe' = <<>>
  /\ last_ratime' = NoIds /\ failed' = FALSE
  /\ published' = 0 /\ queue_dropped' = 0 /\ redis_dropped' = 0 /\ last_error' = FALSE
  /\ uncounted' = 0
  /\ UNCHANGED <<stream, watchdog, runs, arrived, acked, rejected>>

\* The launcher starts it again, on the same Redis.
Relaunch ==
  /\ dpc = "dead" /\ runs < MaxRuns
  /\ dpc' = "drain" /\ wpc' = "top"
  /\ runs' = runs + 1
  /\ UNCHANGED <<rec, drained, unsync, counts, queue, stop, client, batch, pipe, last_ratime>>
  /\ UNCHANGED <<failed, stats, redis, arrived, uncounted, acked, rejected>>

MainStep ==
  \/ \E ra \in 0 .. MaxRa, code \in Codes : OnEvent(ra, code)
  \/ Put \/ Evict \/ CountDrop \/ Reput

WriterStep ==
  \/ Top \/ Take \/ Idle \/ Build \/ Send \/ Published \/ Raised
  \/ \E ok \in BOOLEAN : Connect(ok) \/ Ready(ok) \/ Hset(ok) \/ Hexpire(ok)

Next ==
  \/ MainStep \/ WriterStep
  \/ Interrupt \/ Join \/ Die \/ Relaunch
  \/ Expire \/ \E c \in DOMAIN late : LateRun(c)

\* Both threads run. Redis owes nothing: it may refuse for ever.
Spec == Init /\ [][Next]_vars /\ WF_vars(WriterStep)

-----------------------------------------------------------------------------
\* The ledger of stats_report.py:80-84: every drained event is published,
\* dropped by the queue, dropped by Redis, still queued, or in the writer's
\* batch. Nothing else is lost but what a Ctrl-C cut out of a submit, at most
\* the record in hand and the one being evicted for it. (So the ledger need not
\* close "exactly" at a clean final snapshot, as the comment there says.) A full queue sheds the oldest record, never the
\* newest: when submit has dropped one there is room, whatever the writer does
\* meanwhile, and the "racing producers" branch is never taken (redis_sink.py:83-101).
LedgerConserved ==
  /\ dpc = "reput" => Len(queue) < QueueSize
  /\ uncounted <= 2
  /\ drained = published + queue_dropped + redis_dropped + Len(queue)
                + Len(batch) + InHand + uncounted

\* An event that counts as published is in all three of its streams
\* (redis_sink.py:141-148, 202-206).
PublishedIsStored ==
  \A n \in acked :
    \E i \in DOMAIN stream[StreamKey] :
      /\ stream[StreamKey][i].n = n
      /\ \A k \in KeysOf(stream[StreamKey][i].code) :
           \E j \in DOMAIN stream[k] : stream[k][j].n = n

\* An event enters a stream at most once, and the events of one run in the
\* order in which they were drained, whatever fails, stalls, reconnects or
\* overflows: a batch whose fate is unknown is not sent again, and its late
\* commands are refused where a younger event is in (redis_sink.py:202-214).
AtMostOnceInOrder ==
  \A k \in Key : \A i, j \in DOMAIN stream[k] :
    i < j => LET e == stream[k][i]
                 f == stream[k][j]
             IN  e.n # f.n /\ (e.run = f.run => e.n < f.n)

\* The guard's memory is never behind the server's last ID while one process
\* has written it all, so XADD accepts every ID it is given, although times
\* repeat and step back (redis_sink.py:132-139).
GuardCoversServer ==
  runs = 1 =>
    /\ ~rejected
    /\ dpc # "dead" => \A k \in Key : LastId(k) <= last_ratime[k]

\* A stop is never stuck: the writer ends, Redis up or down, and whether or
\* not it is connected (redis_sink.py:108-111, 170-214).
StopEnds == stop ~> wpc \in {"ended", "dead"}
=============================================================================
