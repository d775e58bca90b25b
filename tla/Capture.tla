------------------------------ MODULE Capture -------------------------------
(***************************************************************************)
(* A capture and what the offline tools then say of it.                    *)
(*                                                                         *)
(* An event comes once per slot; the readout counts it and keeps it in its *)
(* FIFO or refuses it. The publisher (deploy/redis_publish.py over         *)
(* readout_common.drain_events and stats_log.py) drains, numbers and       *)
(* queues the events, its writer stores them in batches, and from time to  *)
(* time it appends a snapshot of its counters and the readout's to the     *)
(* statistics log. It is stopped or killed, and started again, beside a    *)
(* readout that goes on. RedisSink has the publisher's threads in detail.  *)
(***************************************************************************)
EXTENDS Reports

CONSTANTS
  Depth,      \* of the FIFO of the readout
  QueueSize,  \* of the queue of the publisher
  BatchSize,  \* records that the writer stores at a time, at most
  LateSlot,   \* the slot whose event is late, and by how much
  Lateness,
  MaxSlots,   \* bound: slots in a behaviour that keeps the log, or the streams
  MaxUnsync,  \* bound: events stamped while the timebase is not locked
  MaxSnaps,   \* bound: snapshots in the log when the last periodic one is taken, at most
  MaxRuns     \* bound: starts of the publisher

\* Neither the log nor the streams act on anything: a behaviour keeps one of them.
Kept == {"log", "streams"}

ASSUME CaptureAssumption ==
  /\ {Depth, QueueSize, BatchSize} \subseteq Nat \ {0}
  /\ {LateSlot, Lateness, MaxUnsync, MaxSnaps, MaxRuns} \subseteq Nat
  /\ MaxSlots \in [Kept -> Nat]
  /\ 2 * Lateness < Period
  /\ Depth = Residual

VARIABLES
  \* the readout
  now,          \* slots that have passed: EVENT_COUNT
  fifo, overflow,
  \* the drain thread
  pc, stopping, hw, drained, unsync,
  \* the queue, the writer and its counters
  queue, batch, published, dropped,
  \* what is left behind: the streams and the statistics log
  rows, snaps,
  kept,         \* the one that this behaviour keeps
  \* history
  refused, unlocked, handed, runs, cut

readout == <<now, fifo, overflow, refused, unlocked>>
thread == <<pc, stopping, hw, drained, unsync, handed, runs, cut>>
sink == <<queue, batch, published, dropped>>
left == <<rows, snaps, kept>>
vars == <<readout, thread, sink, left>>

NoHw == [event_count |-> 0, overflow |-> FALSE, refused |-> 0, left |-> 0]

Init ==
  /\ now = 0 /\ fifo = <<>> /\ overflow = FALSE /\ refused = 0 /\ unlocked = 0
  /\ pc = "down" /\ stopping = FALSE /\ hw = NoHw /\ drained = 0 /\ unsync = 0
  /\ handed = {} /\ runs = 0 /\ cut = 0
  /\ queue = <<>> /\ batch = <<>> /\ published = 0 /\ dropped = 0
  /\ rows = <<>> /\ snaps = <<>> /\ kept \in Kept

\* The time of a slot.
Stamp(k) == k * Period + (IF k = LateSlot THEN Lateness ELSE 0)

-----------------------------------------------------------------------------
\* The next event: counted, and lost when the FIFO is full.
Slot(synced) ==
  /\ now < MaxSlots[kept]
  /\ ~synced => unlocked < MaxUnsync
  /\ now' = now + 1
  /\ unlocked' = IF synced THEN unlocked ELSE unlocked + 1
  /\ IF Len(fifo) < Depth
       THEN /\ fifo' = Append(fifo, [slot |-> now', ts |-> IF synced THEN Stamp(now') ELSE 0])
            /\ UNCHANGED <<overflow, refused>>
       ELSE /\ overflow' = TRUE /\ refused' = refused + 1
            /\ UNCHANGED fifo
  /\ UNCHANGED <<thread, sink, left>>

-----------------------------------------------------------------------------
\* Where the thread goes for a snapshot.
AtSnapshot == IF kept = "log" THEN "status" ELSE "log"

\* A start of the publisher: every counter of it is at zero, and a snapshot is due.
Start ==
  /\ pc = "down" /\ runs < MaxRuns
  /\ runs' = runs + 1
  /\ pc' = AtSnapshot /\ stopping' = FALSE
  /\ drained' = 0 /\ unsync' = 0 /\ cut' = 0
  /\ published' = 0 /\ dropped' = 0
  /\ UNCHANGED <<readout, hw, handed, queue, batch, left>>

\* tick_cb is due.
Due ==
  /\ pc = "run" /\ kept = "log" /\ Len(snaps) < MaxSnaps
  /\ pc' = "status"
  /\ UNCHANGED <<readout, stopping, hw, drained, unsync, handed, runs, cut, sink, left>>

\* read_hw_counters: STATUS first, then the counts.
ReadStatus ==
  /\ pc = "status"
  /\ pc' = "counts"
  /\ hw' = [NoHw EXCEPT !.overflow = overflow]
  /\ UNCHANGED <<readout, stopping, drained, unsync, handed, runs, cut, sink, left>>

ReadCounts ==
  /\ pc = "counts"
  /\ pc' = "log"
  /\ hw' = [hw EXCEPT !.event_count = now, !.refused = refused, !.left = Len(fifo)]
  /\ UNCHANGED <<readout, stopping, drained, unsync, handed, runs, cut, sink, left>>

\* sw_counters and the line of the log. The final one ends the process; "of",
\* "held" and "cut" are history.
Log ==
  /\ pc = "log"
  /\ snaps' = IF kept = "streams" THEN snaps ELSE Append(snaps,
       [event_count |-> hw.event_count, overflow |-> hw.overflow,
        drained |-> drained, unsync |-> unsync,
        published |-> published, dropped |-> dropped, queued |-> Len(queue),
        of |-> runs, refused |-> hw.refused, left |-> hw.left,
        held |-> Len(batch), cut |-> cut])
  /\ pc' = IF stopping THEN "down" ELSE "run"
  /\ hw' = NoHw
  /\ queue' = IF stopping THEN <<>> ELSE queue
  /\ batch' = IF stopping THEN <<>> ELSE batch
  /\ UNCHANGED <<readout, stopping, drained, unsync, handed, runs, cut, published, dropped, rows, kept>>

\* The next event is popped; a real one gets its number and a place in the
\* queue, from which the oldest record makes room.
Drain ==
  /\ pc = "run" /\ fifo # <<>>
  /\ fifo' = Tail(fifo)
  /\ IF Head(fifo).ts = 0
       THEN /\ unsync' = unsync + 1
            /\ UNCHANGED <<drained, handed, queue, dropped>>
       ELSE LET full == Len(queue) = QueueSize
                rec == [slot |-> Head(fifo).slot, ts |-> Head(fifo).ts,
                        count |-> drained', run |-> runs]
            IN  /\ drained' = drained + 1
                /\ handed' = IF kept = "streams" THEN handed \cup {rec.slot} ELSE handed
                /\ queue' = Append(IF full THEN Tail(queue) ELSE queue, rec)
                /\ dropped' = IF full THEN dropped + 1 ELSE dropped
                /\ UNCHANGED unsync
  /\ UNCHANGED <<now, overflow, refused, unlocked, pc, stopping, hw, runs, cut>>
  /\ UNCHANGED <<batch, published, left>>

\* Ctrl-C, perhaps between the POP of an event and on_event.
Stop(popped) ==
  /\ pc = "run"
  /\ popped => fifo # <<>>
  /\ fifo' = IF popped THEN Tail(fifo) ELSE fifo
  /\ cut' = IF popped THEN 1 ELSE 0
  /\ pc' = "join" /\ stopping' = TRUE
  /\ UNCHANGED <<now, overflow, refused, unlocked, hw, drained, unsync, handed, runs>>
  /\ UNCHANGED <<sink, left>>

\* A console reader that is run meanwhile (stream_events): it prints what it pops.
OtherReader ==
  /\ pc = "down" /\ fifo # <<>>
  /\ fifo' = Tail(fifo)
  /\ UNCHANGED <<now, overflow, refused, unlocked, thread, sink, left>>

\* stop() returns, with the queue flushed or the time out; the final snapshot.
Joined ==
  /\ pc = "join"
  /\ pc' = AtSnapshot
  /\ UNCHANGED <<readout, stopping, hw, drained, unsync, handed, runs, cut, sink, left>>

\* The writer takes a batch.
Take ==
  /\ batch = <<>> /\ queue # <<>>
  /\ batch' = SubSeq(queue, 1, Min({BatchSize, Len(queue)}))
  /\ queue' = SubSeq(queue, Len(batch') + 1, Len(queue))
  /\ UNCHANGED <<readout, thread, published, dropped, left>>

\* The streams when the first n records of the batch are stored.
Stored(n) == IF kept = "streams" THEN rows \o SubSeq(batch, 1, n) ELSE rows

\* It stores the batch, or fails with its first n records stored.
Write(ok, n) ==
  /\ batch # <<>>
  /\ ok => n = Len(batch)
  /\ rows' = Stored(n)
  /\ published' = IF ok THEN published + Len(batch) ELSE published
  /\ dropped' = IF ok THEN dropped ELSE dropped + Len(batch)
  /\ batch' = <<>>
  /\ UNCHANGED <<readout, thread, queue, snaps, kept>>

\* The process is killed; of the batch on its way a part may get in.
Kill(n) ==
  /\ pc # "down"
  /\ rows' = Stored(n)
  /\ pc' = "down" /\ hw' = NoHw
  /\ queue' = <<>> /\ batch' = <<>>
  /\ UNCHANGED <<readout, stopping, drained, unsync, handed, runs, cut, published, dropped, snaps, kept>>

Next ==
  \/ \E b \in BOOLEAN : Slot(b) \/ Stop(b)
  \/ Start \/ Due \/ ReadStatus \/ ReadCounts \/ Log \/ Drain \/ OtherReader \/ Joined \/ Take
  \/ \E n \in 0..Len(batch) : Kill(n) \/ \E ok \in BOOLEAN : Write(ok, n)

Spec == Init /\ [][Next]_vars

-----------------------------------------------------------------------------
(***************************************************************************)
(* What the tools say, against what happened.                              *)
(***************************************************************************)
\* The publisher is down. It may have been killed at any point, so this is every
\* log and every stream that a tool ever reads.
Over == pc = "down"

FirstOf(run) == Min({i \in DOMAIN snaps : snaps[i].of = run})

\* The report on the log at any time. A restart is seen unless the last
\* snapshot before it has drained nothing. What it calls missed at the hardware
\* is what the FIFO refused since the run's first snapshot, off by at most the
\* FIFO's depth and an event that Ctrl-C cut; a loss of before that snapshot's
\* STATUS is flagged, and without one it is suspicious for a cut event alone. The
\* ledger closes but for the batch in the writer's hands: whatever the hardware
\* lost, it says nothing of it. The curve of the figure agrees with the report on a
\* log of one run; after a restart it also shows what the run before has drained, as
\* if it were lost (stats_report.py:41-97, plot_stats.py:35-53,
\* redis_publish.py:165-185).
ReportTells ==
  LET last == Last(snaps)
      base == snaps[FirstOf(last.of)]
      lost == last.refused - base.refused
      r == Reconcile(snaps)
      phantom == Last(MissedCurve(snaps)) - (r.missed_hw + last.dropped)
      visible == FirstOf(last.of) = 1 \/ snaps[FirstOf(last.of) - 1].drained > 0
  IN  /\ visible => RunStart(snaps) = FirstOf(last.of)
      /\ visible =>
           /\ r.missed_hw - lost \in -Depth .. Depth + last.cut
           /\ r.missed_hw > Residual + last.cut => lost > 0
           /\ r.suspicious => last.cut > 0 \/ lost > 0
           /\ Len(snaps) > 1 =>
                IF FirstOf(last.of) = 1 THEN phantom = 0
                ELSE phantom >= snaps[FirstOf(last.of) - 1].drained - Depth
      /\ r.decoded - r.accounted = last.held
      /\ Passed(snaps, <<>>, <<>>, <<>>) <=> last.held <= Residual

ReportTellsTheLoss == Over /\ snaps # <<>> => ReportTells

\* A step of the counter within one run, or into the next.
SameRun(s) == s # <<>> => Head(s).run = Last(s).run

\* The loss check on any retained end of the counter stream: within a run it
\* counts exactly the events that were numbered between the first and the last
\* entry and are not there; across a restart never more than that, and every
\* step that is no step forward is a restart (verify_no_loss.py:34-57).
LossCheckTells ==
  \A k \in DOMAIN rows :
    LET s == SubSeq(rows, k, Len(rows))
        r == AnalyseCounts([i \in DOMAIN s |-> s[i].count])
        there == {s[i].slot : i \in DOMAIN s}
        gone == {n \in handed \ there : Head(s).slot < n /\ n < Last(s).slot}
        began == Last(s).run - Head(s).run
    IN  /\ r.lost <= Cardinality(gone)
        /\ SameRun(s) => r.lost = Cardinality(gone)
        /\ r.restarts + r.duplicates <= began

LossCheckIsSound == Over => LossCheckTells

\* The slots missing before row i + 1.
Missing(i) == rows[i + 1].slot - rows[i].slot - 1
MissingIn(i, j) == rows[j].slot - rows[i].slot - (j - i)

\* The stamps of a periodic event, with any of them lost and one of them late:
\* every marker gets its true slot; the drops are counted, each once; a late
\* marker and its neighbours are the only outliers; two in a row missing is a
\* hole, and a hole means one is; a segment has no marker missing and ends
\* where one is (gps_calibrate.py:43-77, tclk_faithfulness.py:147-171,
\* qa_report.py:118-165, marker_timing.py:64-76).
MarkersTell ==
  LET n == Len(rows)
      t == [i \in 1..n |-> rows[i].ts]
      late == {i \in 1..n : rows[i].slot = LateSlot}
      counts == [i \in 1..n |-> rows[i].count]
      drops == Drops(t)
      outliers == Outliers(t)
      holes == Holes(t)
      segments == Segments(t)
  IN  /\ MarkerIndex(t) = [i \in 1..n |-> rows[i].slot - rows[1].slot]
      /\ drops.small + drops.biggap_lost = MissingIn(1, n)
      /\ n > 1 => outliers = {i \in 1..n : \E j \in late : Abs(i - j) <= 1}
      /\ Calibrated(t) => n >= 4 + Cardinality(late)
      /\ \A i \in 1..n - 1 : /\ Missing(i) >= 2 => i \in holes
                             /\ i \in holes => Missing(i) >= 1
      /\ \A i, j \in 1..n :
           (\E s \in segments : s[1] <= i /\ i <= j /\ j <= s[2]) <=>
              \E a \in 1..i, b \in j..n : a <= i /\ i <= j /\ b - a >= 2 /\ MissingIn(a, b) = 0
      /\ ~Passed(<<>>, counts, t, <<>>) => MissingIn(1, n) > 0
      /\ ~Passed(<<>>, counts, <<>>, t) => ~Passed(<<>>, counts, t, <<>>)

\* The sessions and the cycles: a cut is where at least three are missing, and
\* more than that never pass within the session that is fitted; a cycle with a
\* marker missing is never folded when most cycles are whole, and an anchor that
\* is folded is at the start of its own cycle (gps_calibrate.py:54-64,
\* supercycle_plot.py:53-90).
CyclesTell ==
  LET n == Len(rows)
      t == [i \in 1..n |-> rows[i].ts]
      whole == {i \in 1..n - 1 : Missing(i) = 0}
      folds == KeptCycles(t)
  IN  n > 1 =>
      /\ \A i \in 1..n - 1 : /\ Missing(i) >= 3 => i + 1 \in SessionStarts(t)
                             /\ i + 1 \in SessionStarts(t) => Missing(i) >= 2
      /\ FlattenSeq(Sessions(t)) = t
      /\ Last(Sessions(t)) = SubSeq(t, SegmentStart(t), n)
      /\ \A i \in DOMAIN Fitted(t) : i > 1 => SlotsOf(Fitted(t)[i] - Fitted(t)[i - 1]) <= 3
      /\ 2 * Cardinality(whole) > n - 1 =>
           /\ folds \subseteq whole
           /\ \A i \in 1..n : LET f == Folded(t, t[i])
                              IN  f.row > 0 <=> i \in folds /\ f.off = 0

\* The archive repeats the rows that were read before a crash. Sorted and made unique
\* they are the markers again, and so are the rows with each stream ID once; only
\* sorted, as the clock section of the QA report takes them, every repeat moves the
\* later markers by a slot, and the section fails a clock that is right when markers
\* are left on both sides and the capture is short, as this one is: the error of the
\* slope falls with the number of markers (gps_calibrate.py:163-189, supercycle_plot.py:25-50,
\* qa_report.py:257-282, stream_archive.py:193-199).
RepeatsTell ==
  LET n == Len(rows)
      t == [i \in 1..n |-> rows[i].ts]
      outliers == Outliers(t)
      scan == Integrity(t)
  IN  /\ scan.inversions = 0 /\ scan.dups = 0
      /\ \A i \in 1..n - 1 : t[i] = scan.gap_at =>
           \A j \in 1..n - 1 : Missing(j) <= Missing(i)
      /\ \A k \in 1..n :
           LET again == t \o SubSeq(t, k, n)
               back == LoadedEvents([i \in DOMAIN again |->
                         [id |-> rows[IF i > n THEN i - n + k - 1 ELSE i].slot, t |-> again[i]]])
           IN  /\ Stamps(again) = t
               /\ [i \in DOMAIN back |-> back[i].t] = t
               /\ Last(MarkerIndex(SortSeq(again, <))) = Last(MarkerIndex(t)) + (n - k + 1)
               /\ Integrity(again).inversions + Integrity(again).dups = 1
      /\ ClockSection(t) = IF Calibrated(t) THEN "ok" ELSE "skip"
      /\ \A k \in 1..n :
           LET again == t \o SubSeq(t, k, k)
               fit == 1..n \ (outliers \cup {k})
           IN  ClockSection(again) =
                 IF Cardinality(fit) < 4 THEN "skip"
                 ELSE IF \E i, j \in fit : i < k /\ k < j THEN "fail" ELSE "ok"

\* The windows and the cycles a user asks for: a marker is in one window, and an
\* empty window is one of missing markers; --last-segment with --cycles folds no
\* more cycles than asked, and never one that spans a seam
\* (gps_calibrate.py:111-128, supercycle_plot.py:82-90, 396-430).
WindowsTell ==
  LET n == Len(rows)
      t == [i \in 1..n |-> rows[i].ts]
      w == 2 * Period
      win == Windows(t, w)
      used == UsedCycles(t, t, 2)
  IN  /\ \A i \in 1..n : \E k \in DOMAIN win : \A j \in DOMAIN win : i \in win[j] <=> j = k
      /\ \A k \in DOMAIN win : win[k] = {} => \E i \in 1..n - 1 : Missing(i) >= 1
      /\ Cardinality(used) <= 2
      /\ \A i \in used : /\ Gaps(t)[i] <= SessionGap
                         /\ \A j \in i..n - 1 : Gaps(t)[j] <= SessionGap

\* An event that comes half a period after its marker lies at most that far after
\* its nearest reference exactly when its own marker is there
\* (supercycle_plot.py:93-107).
DeltasTell ==
  LET t == [i \in DOMAIN rows |-> rows[i].ts]
      there == {rows[i].slot : i \in DOMAIN rows}
  IN  \A k \in Head(rows).slot .. Last(rows).slot :
        k \in there <=> RelDelta(t, k * Period + Period \div 2) \in 0 .. Period \div 2

\* A clock that drifts by d a slot against the pulse: the walk gives its true drift
\* as long as it moved less than half a period between any two samples, and is off
\* by whole periods otherwise, whichever second the samples were labelled with; the
\* live view counts every pulse that did not come, while its clock is right; the
\* live view and the offline figure take their slope from the same sample; the time
\* of a log is right while no half day passes between two of its lines
\* (wr_pps_live.py:31-64, plot_pps_log.py:45-84).
WalkTells ==
  LET n == Len(rows)
      t == [i \in 1..n |-> rows[i].ts]
      tod == [i \in 1..n |-> t[i] % Day]
  IN  /\ \A d \in {-2, 1} :
           LET moved(i) == d * (rows[i].slot - rows[1].slot)
               walk == Walk([i \in 1..n |-> moved(i) + Period * (i % 2)])
               live == LiveView([i \in 1..n |->
                         [t |-> rows[i].slot * Period, count |-> i, stamp |-> rows[i].slot * Period + moved(i)]])
           IN  \A i \in 1..n :
                 /\ live.missing[i] = MissingIn(1, i)
                 /\ live.phase[i] = walk[i]
                 /\ (walk[i] - moved(i)) % Period = 0
                 /\ (\A j \in 2..i : 2 * Abs(moved(j) - moved(j - 1)) < Period)
                      => walk[i] = moved(i)
      /\ \A i \in 1..n, w \in {Period, 2 * Period} :
           LiveStart(SubSeq(t, 1, i), w) = SlidingStart(SubSeq(t, 1, i), w)
      /\ (\A i \in 1..n - 1 : 2 * Gaps(t)[i] < Day)
           => \A i \in 1..n : Unwrapped(tod)[i] - Unwrapped(tod)[1] = t[i] - t[1]

\* What a tool says of the markers depends on the rows alone. Slots, the other reader,
\* and a start that is killed at once lead from any end to one with the same rows
\* where nothing is left to come.
Settled == Over /\ fifo = <<>> /\ now = MaxSlots[kept] /\ runs = MaxRuns

\* Whatever slots a start, a full FIFO or the queue cost, each tool that reads the
\* markers afterwards tells what happened to them: the index, the drops and the verdict,
\* the cycles, the repeats, the windows, the deltas and the walk are those of the slots.
MarkersToldTrue ==
  Settled /\ rows # <<>> =>
    MarkersTell /\ CyclesTell /\ RepeatsTell /\ WindowsTell /\ DeltasTell /\ WalkTells
=============================================================================
