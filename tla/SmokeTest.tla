------------------------------ MODULE SmokeTest ------------------------------
(***************************************************************************)
(* deploy/redis_smoketest.py: it runs the publisher's own sink against a   *)
(* Redis server with a few made-up events, reads back what arrived, and    *)
(* deletes the keys it wrote. It is a client of RedisSink as the publisher *)
(* is: the writer thread, the server and its faults are RedisSink's, only  *)
(* the main thread is another one.                                         *)
(*                                                                         *)
(* The queue is far larger than the events are many, so a submit never     *)
(* evicts. The test's watchdog field lives for a minute, which is longer   *)
(* than the test runs. Its base key is nobody else's.                      *)
(***************************************************************************)
EXTENDS RedisSink

CONSTANT SmokeEvents   \* SMOKE_EVENTS: [code, ra] in the order of their times

ASSUME SmokeAssumption ==
  /\ SmokeEvents \in Seq([code : Codes, ra : Nat \ {0}]) \ {<<>>}
  /\ \A i, j \in DOMAIN SmokeEvents : i < j => SmokeEvents[i].ra < SmokeEvents[j].ra

VARIABLES
  smoke,     \* where run() is; "off" when the process is the publisher
  old,       \* the server has no HEXPIRE
  verdict,   \* why the test failed, or "pass"
  gone       \* history: the keys were deleted when nothing was still to come

smoke_vars == <<smoke, old, verdict, gone>>
sink_vars == vars

N == Len(SmokeEvents)

SmokeInit ==
  /\ Init
  /\ smoke = "ping" /\ old \in BOOLEAN /\ verdict = "none" /\ gone = FALSE

\* The publisher's process, and no smoke test.
NoSmoke == Init /\ smoke = "off" /\ old = FALSE /\ verdict = "none" /\ gone = FALSE

\* run() goes on from one point to another and touches nothing else.
Goes(from, to) == smoke = from /\ smoke' = to /\ UNCHANGED <<sink_vars, old, gone>>

\* The test's own connection: it cannot be had, or redis-py has no hexpire.
Ping ==
  \/ Goes("ping", "submit") /\ UNCHANGED verdict
  \/ Goes("ping", "done") /\ verdict' = "unreachable"

\* RecordBuilder.build and submit of the next event, beside the writer.
Submit ==
  /\ smoke = "submit"
  /\ arrived' = arrived + 1 /\ drained' = drained + 1
  /\ LET e == SmokeEvents[drained + 1]
     IN  /\ counts' = [counts EXCEPT ![e.code] = @ + 1]
         /\ queue' = Append(queue, [n |-> arrived', ra |-> e.ra, code |-> e.code,
                                    count |-> counts'[e.code]])
  /\ smoke' = IF drained' = N THEN "wait" ELSE "submit"
  /\ UNCHANGED <<dpc, rec, unsync, stop, writer, stats, redis, runs, uncounted, acked, rejected>>
  /\ UNCHANGED <<old, verdict, gone>>

\* wait_until: the predicate has held, or its time is up.
Waited ==
  \/ (published >= N \/ last_error) /\ Goes("wait", "stats") /\ UNCHANGED verdict
  \/ Goes("wait", "give_up") /\ verdict' = "not_published"

\* A variant with a defect: a wait that has ended is taken for success.
JudgeNothing == Goes("stats", "httl") /\ UNCHANGED verdict

\* The statistics once more: an error may have healed, or a new one come.
Judge ==
  IF published # N \/ last_error
    THEN Goes("stats", "give_up") /\ verdict' = "not_published"
    ELSE Goes("stats", "httl") /\ UNCHANGED verdict

\* watchdog_verdict on the reply of HTTL.
WatchdogVerdict ==
  IF watchdog = "alive" THEN "no_ttl" ELSE IF watchdog = "absent" THEN "no_field" ELSE verdict

\* The field is read while the sink runs. A reply that does not come raises, and
\* nothing is cleaned up.
ReadWatchdog ==
  \/ Goes("httl", "stop") /\ verdict' = WatchdogVerdict
  \/ Goes("httl", "done") /\ verdict' = "raised"

\* sink.stop, and its join: the writer has ended, or the time is up.
StopSink ==
  /\ smoke \in {"stop", "give_up"}
  /\ stop' = TRUE
  /\ smoke' = IF smoke = "stop" THEN "join" ELSE "join_give_up"
  /\ UNCHANGED <<main, queue, writer, stats, redis, history, old, verdict, gone>>

Joined ==
  \/ Goes("join", IF verdict = "none" THEN "feed" ELSE "delete") /\ UNCHANGED verdict
  \/ Goes("join_give_up", "delete") /\ UNCHANGED verdict

\* What is expected to be read back from a key: the events that write to it.
Expected(key) == SelectSeq([i \in 1..N |-> i], LAMBDA i : key \in KeysOf(SmokeEvents[i].code))

\* xrange of a key: it holds the expected entries and no other. The time in an entry
\* follows from its event, so that the same entry of an earlier run looks the same.
ReadsBack(key) ==
  /\ Len(stream[key]) = Len(Expected(key))
  /\ \A i \in DOMAIN stream[key] :
       LET e == SmokeEvents[Expected(key)[i]]
       IN  /\ stream[key][i].code = e.code
           /\ key[1] = "count" => stream[key][i].count = i

\* The feed, the times of the first event's code, the counts of the last one's.
ReadBack(from, key, to) ==
  \/ ReadsBack(key) /\ Goes(from, to) /\ verdict' = IF to = "delete" THEN "pass" ELSE verdict
  \/ ~ReadsBack(key) /\ Goes(from, "delete") /\ verdict' = "read_back"
  \/ Goes(from, "delete") /\ verdict' = "raised"

ReadKeys ==
  \/ ReadBack("feed", StreamKey, "times")
  \/ ReadBack("times", <<"ts", SmokeEvents[1].code>>, "counts")
  \/ ReadBack("counts", <<"count", SmokeEvents[N].code>>, "delete")

\* A variant with a defect: the keys of the codes alone.
SmokeKeysOfCodes == UNION {KeysOf(SmokeEvents[i].code) : i \in DOMAIN SmokeEvents} \ {StreamKey}

\* smoketest_keys, beside the watchdog's.
SmokeKeys == UNION {KeysOf(SmokeEvents[i].code) : i \in DOMAIN SmokeEvents}

\* Nothing of this run or an earlier one is still to come.
Quiet == late = <<>> /\ wpc \in {"ended", "dead"}

\* Exactly the keys of these events are deleted, or the command raises.
Delete ==
  /\ smoke = "delete" /\ smoke' = "done"
  /\ \/ /\ stream' = [k \in Key |-> IF k \in SmokeKeys THEN <<>> ELSE stream[k]]
        /\ watchdog' = "absent"
        /\ gone' = Quiet
        /\ UNCHANGED verdict
     \/ verdict' = "raised" /\ UNCHANGED <<stream, watchdog, gone>>
  /\ UNCHANGED <<main, queue, stop, writer, stats, late, history, old>>

\* The process ends, or is killed on its way; somebody runs the test again.
SmokeEnds == Die /\ smoke' = "exited" /\ UNCHANGED <<old, verdict, gone>>
SmokeAgain ==
  /\ smoke = "exited" /\ Relaunch
  /\ smoke' = "ping" /\ verdict' = "none" /\ gone' = FALSE /\ UNCHANGED old

\* The writer, with a watchdog that is due at every pass (watchdog_period 0), on a
\* server that may not know HEXPIRE.
SmokeWriter ==
  /\ WriterStep
  /\ wpc = "ready" /\ ~stop => wpc' = "hset"
  /\ old /\ wpc = "hexpire" => wpc' = "top" /\ watchdog' = watchdog
  /\ smoke \notin {"off", "ping", "exited"}
  /\ UNCHANGED smoke_vars

SmokeNext ==
  /\ smoke # "off"
  /\ \/ Ping \/ Submit \/ Waited \/ Judge \/ ReadWatchdog \/ StopSink \/ Joined \/ ReadKeys \/ Delete
     \/ SmokeWriter \/ SmokeEnds \/ SmokeAgain
     \/ \E c \in DOMAIN late : LateRun(c) /\ UNCHANGED smoke_vars

SmokeSpec == SmokeInit /\ [][SmokeNext]_<<sink_vars, smoke_vars>>

-----------------------------------------------------------------------------
\* A pass is true: the server expires fields, and the events of this run went in
\* whole, each published, none dropped; what an earlier run left behind
\* makes a failure, never a pass. A field that is not there is never the
\* verdict: the pass of the writer that published had written it
\* (redis_smoketest.py:150-190).
SmokeToldTrue ==
  /\ verdict = "pass" /\ smoke = "delete" =>
       /\ ~old
       /\ published = N /\ queue_dropped + redis_dropped = 0
       /\ Cardinality({i \in DOMAIN stream[StreamKey] : stream[StreamKey][i].run = runs}) = N
  /\ verdict # "no_field"

\* The test cleans up after itself: once it has deleted its keys, with the writer
\* joined and no connection given up with commands on their way, none of them comes
\* back, however the test ended (redis_smoketest.py:84-98, 155-196).
SmokeLeavesNothing ==
  gone => /\ \A k \in Key : stream[k] = <<>>
          /\ watchdog = "absent"

\* "watchdog field has no TTL ... the server is older than 7.4"
\* (lab-redis.md:239, redis_smoketest.py:63-79).
NoTtlMeansOldServer == verdict = "no_ttl" => old
==============================================================================
