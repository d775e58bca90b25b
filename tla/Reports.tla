------------------------------ MODULE Reports -------------------------------
(***************************************************************************)
(* What the offline tools of deploy/ compute from what a capture left      *)
(* behind: the statistics log (stats_report.py), the counter stream of a   *)
(* code (verify_no_loss.py), and the stamps of a periodic event            *)
(* (qa_report.py, gps_calibrate.py, tclk_faithfulness.py,                  *)
(* marker_timing.py, supercycle_plot.py).                                  *)
(*                                                                         *)
(* Times are integers, as in the tools.  A report is a record of what the  *)
(* tool decides or counts; the text around it, the figures and the         *)
(* statistics of the residuals are left out.                               *)
(***************************************************************************)
EXTENDS Integers, Sequences, SequencesExt, FiniteSetsExt

CONSTANTS Residual,    \* FIFO_RESIDUAL: the depth of the FIFO
          Period,      \* the nominal period of the event
          HoleAt,      \* a gap above this is a hole in the archive
          SessionGap,  \* a gap above this parts two sessions
          RejectAt,    \* a marker this far off its slot is an outlier
          FailPart,    \* a slope that is off by more than one part in this many is a failure
          BigGap,      \* a gap of more cycles than this is no isolated drop
          TolPercent,  \* cycles this far off the median length are rejected
          Day          \* the length of a day

ASSUME ReportsAssumption ==
    /\ {Residual, Period, HoleAt, SessionGap, RejectAt, FailPart, BigGap, TolPercent} \subseteq Nat
    /\ Day \in Nat \ {0}
    /\ Period % 2 = 1              \* so that no interval is midway between two slots

Abs(n) == IF n < 0 THEN -n ELSE n
Gaps(t) == [i \in 1..Len(t) - 1 |-> t[i + 1] - t[i]]
SumOf(s) == FoldLeft(LAMBDA a, b : a + b, 0, s)
Dot(r, s) == SumOf([i \in DOMAIN r |-> r[i] * s[i]])

(***************************** stats_report ********************************)
\* Mutant: the whole log is one run.
RunStartNever(snaps) == 1

\* A drop of "drained" between two snapshots marks a new run; the last one counts.
RunStart(snaps) ==
    Max({1} \cup {i \in 2..Len(snaps) : snaps[i].drained < snaps[i - 1].drained})

\* Decoded by the hardware since the baseline, and not drained.
Missed(first, last) == (last.event_count - first.event_count) - last.drained - last.unsync

Reconcile(snaps) ==
    LET run == SubSeq(snaps, RunStart(snaps), Len(snaps))
        last == Last(run)
        decoded == last.event_count - Head(run).event_count
        missed == Missed(Head(run), last)
        accounted == last.published + last.dropped + last.queued + last.unsync + missed
        overflow == \E i \in DOMAIN run : run[i].overflow
    IN  [decoded |-> decoded, accounted |-> accounted, missed_hw |-> missed, overflow |-> overflow,
         suspicious |-> ~overflow /\ Abs(missed) > Residual,
         ledger_ok |-> Abs(decoded - accounted) <= Residual]

\* plot_stats.series: the curve of what is missing so far, from the second snapshot on.
MissedCurve(snaps) ==
    [i \in 1..Len(snaps) - 1 |-> Missed(snaps[1], snaps[i + 1]) + snaps[i + 1].dropped]

(**************************** verify_no_loss *******************************)
\* Mutant: a step back counts as a loss.
AnalyseBackwards(values) ==
    LET step == Gaps(values)
    IN  [lost |-> SumOf([i \in DOMAIN step |-> IF step[i] # 0 THEN Abs(step[i]) - 1 ELSE 0]),
         restarts |-> Quantify(DOMAIN step, LAMBDA i : step[i] < 0),
         duplicates |-> Quantify(DOMAIN step, LAMBDA i : step[i] = 0)]

\* The steps of one code's counter: +1 is healthy, more is a loss, less a restart.
AnalyseCounts(values) ==
    LET step == Gaps(values)
    IN  [lost |-> SumOf([i \in DOMAIN step |-> IF step[i] > 1 THEN step[i] - 1 ELSE 0]),
         restarts |-> Quantify(DOMAIN step, LAMBDA i : step[i] < 0),
         duplicates |-> Quantify(DOMAIN step, LAMBDA i : step[i] = 0)]

\* main: the counter streams that there are.
Verified(streams) == streams # {} /\ \A values \in streams : AnalyseCounts(values).lost = 0

(*********************** the slots of periodic events **********************)
\* load_marker_ns: the stamps in order, each once, none of an unlocked timebase.
Stamps(t) == SetToSortSeq({t[i] : i \in DOMAIN t} \ {0}, <)

\* Whole slots, to the nearest.
Rounded(d) == (2 * d + Period) \div (2 * Period)

\* Mutant: an interval is cut to whole slots, not rounded.
SlotsOfCut(d) == Max({1, d \div Period})

\* An interval in whole slots, at least one.
SlotsOf(d) == Max({1, Rounded(d)})

\* marker_index: the slots add up, so a dropped marker does not shift the later ones.
MarkerIndex(t) ==
    LET slots == [i \in DOMAIN Gaps(t) |-> SlotsOf(Gaps(t)[i])]
    IN  [i \in DOMAIN t |-> SumOf(SubSeq(slots, 1, i - 1))]

\* split_sessions, and the session that main fits: the longest, the first of equals.
SessionStarts(t) == {1} \cup {i + 1 : i \in {j \in DOMAIN Gaps(t) : Gaps(t)[j] > SessionGap}}
Sessions(t) ==
    LET starts == SetToSortSeq(SessionStarts(t), <)
    IN  [k \in DOMAIN starts |->
           SubSeq(t, starts[k], IF k = Len(starts) THEN Len(t) ELSE starts[k + 1] - 1)]
Span(s) == IF Len(s) > 1 THEN Last(s) - Head(s) ELSE 0
Fitted(t) ==
    LET s == Sessions(t)
    IN  s[Min({k \in DOMAIN s : \A j \in DOMAIN s : Span(s[j]) <= Span(s[k])})]

\* _outlier_mask: both ends of an interval that is no whole number of slots.
Outliers(t) ==
    LET g == Gaps(t)
        bad == {i \in DOMAIN g : Abs(g[i] - SlotsOf(g[i]) * Period) > RejectAt}
    IN  bad \cup {i + 1 : i \in bad}

\* calibrate gives up below four markers, or four that are left.
Calibrated(t) == Len(t) >= 4 /\ Cardinality(DOMAIN t \ Outliers(t)) >= 4

\* The least-squares slope over the markers that are left, and whether it is off.
SlopeFails(t) ==
    LET keep == SetToSeq(DOMAIN t \ Outliers(t))
        index == MarkerIndex(t)
        k == [i \in DOMAIN keep |-> index[keep[i]]]
        y == [i \in DOMAIN keep |-> t[keep[i]]]
        num == Len(k) * Dot(k, y) - SumOf(k) * SumOf(y)
        den == Len(k) * Dot(k, k) - SumOf(k) * SumOf(k)
    IN  FailPart * Abs(num - Period * den) > Period * den

\* calibrate_windowed: the markers of each window of w.
Windows(t, w) ==
    [k \in 1..(Last(t) - Head(t)) \div w + 1 |->
       {i \in DOMAIN t : (t[i] - Head(t)) \div w = k - 1}]

\* scan: steps back, repeats, and the largest gap with the stamp before it, the
\* first of equals.
Integrity(t) ==
    LET g == Gaps(t)
        top == Max({0} \cup Range(g))
    IN  [inversions |-> Quantify(DOMAIN g, LAMBDA i : g[i] < 0),
         dups |-> Quantify(DOMAIN g, LAMBDA i : g[i] = 0),
         max_gap |-> top,
         gap_at |-> IF top = 0 THEN 0 ELSE t[Min({i \in DOMAIN g : g[i] = top})]]

\* clock_report: the markers missing in isolated drops, and in big gaps.
Drops(t) ==
    LET g == Gaps(t)
        cyc == [i \in DOMAIN g |-> SlotsOf(g[i])]
        missing(big) == SumOf([i \in DOMAIN cyc |-> IF (cyc[i] > BigGap) = big THEN cyc[i] - 1 ELSE 0])
    IN  [small |-> missing(FALSE), biggap_lost |-> missing(TRUE),
         biggap |-> Quantify(DOMAIN cyc, LAMBDA i : cyc[i] > BigGap)]

\* marker_timing.segments: the maximal gap-free runs of at least three markers.
Segments(t) ==
    LET g == Gaps(t)
        single(i) == SlotsOf(g[i]) = 1
    IN  {s \in (1..Len(t)) \X (1..Len(t)) :
           /\ s[2] - s[1] >= 2
           /\ \A i \in s[1]..s[2] - 1 : single(i)
           /\ s[1] > 1 => ~single(s[1] - 1)
           /\ s[2] < Len(t) => ~single(s[2])}

(****************************** qa_report **********************************)
\* scan_archive and find_holes: the gaps that are holes, in the order of the rows.
Holes(t) == {i \in DOMAIN Gaps(t) : Gaps(t)[i] > HoleAt}

\* The sections. Each is skipped when its input is absent.
Judged(input, good) == IF input = <<>> THEN "skip" ELSE IF good THEN "ok" ELSE "fail"
LossSection(values) == Judged(values, Verified({values}))
LedgerSection(snaps) == Judged(snaps, snaps # <<>> /\ Reconcile(snaps).ledger_ok)
ArchiveSection(t) == Judged(t, Holes(t) = {})

ClockSection(marks) ==
    LET t == SortSeq(marks, <)
    IN  IF Len(marks) < 4 \/ ~Calibrated(t) THEN "skip"
        ELSE IF SlopeFails(t) THEN "fail" ELSE "ok"

\* main: the verdict. Without an archive the markers are those of the live stream,
\* and no hole is looked for.
Passed(snaps, values, archive, live) ==
    LET marks == IF archive = <<>> THEN live ELSE archive
    IN  "fail" \notin {LossSection(values), LedgerSection(snaps),
                       ClockSection(marks), ArchiveSection(archive)}

(**************************** supercycle_plot ******************************)
\* load_events: the rows of all files, each stream ID once, in the order of time.
LoadedEvents(rows) ==
    SortSeq(SelectSeq([i \in DOMAIN rows |-> [i |-> i, t |-> rows[i].t]],
                      LAMBDA e : \A j \in 1..e.i - 1 : rows[j].id # rows[e.i].id),
            LAMBDA a, b : a.t < b.t)

\* Twice the median, of a sequence that is not empty.
Median2(s) ==
    LET o == SortSeq(s, <)
        n == Len(s)
    IN  o[(n + 1) \div 2] + o[n \div 2 + 1]

\* cycles_from_anchors: the windows between anchors of about the median length.
KeptCycles(anchors) ==
    LET len == Gaps(anchors)
    IN  {i \in DOMAIN len : 100 * Abs(2 * len[i] - Median2(len)) <= TolPercent * Median2(len)}

\* assign_offsets: the row of the kept cycle that holds time x, 0 for none, and its offset.
Folded(anchors, x) ==
    LET kept == KeptCycles(anchors)
        before == {i \in kept : anchors[i] <= x}
        i == Max(before)
    IN  IF before = {} \/ x >= anchors[i + 1] THEN [row |-> 0, off |-> 0]
        ELSE [row |-> Quantify(before, LAMBDA j : TRUE), off |-> x - anchors[i]]

\* segment_start: where the last continuous segment begins.
SegmentStart(t) == Max(SessionStarts(t))

\* main with --last-segment and --cycles: the anchors after the last seam of all the events,
\* and the last of their cycles.
UsedCycles(events, anchors, cycles) ==
    LET after == SelectSeq(anchors, LAMBDA a : a >= events[SegmentStart(events)])
        kept == {Len(anchors) - Len(after) + i : i \in KeptCycles(after)}
    IN  {i \in kept : Quantify(kept, LAMBDA j : j >= i) <= cycles}

\* rel_deltas: the signed distance to the nearest of refs, the earlier of equals.
RelDelta(refs, x) ==
    LET d == {x - refs[i] : i \in DOMAIN refs}
    IN  CHOOSE v \in d : \A w \in d : Abs(v) < Abs(w) \/ (Abs(v) = Abs(w) /\ v >= w)

(********************** wr_pps_live, plot_pps_log **************************)
\* A phase difference, onto the half second around 0.
WrapHalf(x) == ((x + Period \div 2) % Period) - Period \div 2

\* Walk, and the phase of parse_log: the sum of the wrapped steps.
Walk(deltas) ==
    [i \in DOMAIN deltas |->
       SumOf([j \in 1..i - 1 |-> WrapHalf((deltas[j + 1] % Period) - (deltas[j] % Period))])]

\* main of the live view: the pulses that are missing so far, by the count and the
\* system clock, and the phase that is walked. A sample of an unlocked timebase has
\* no stamp and is not walked.
LiveView(samples) ==
    LET told == SelectSeq(samples, LAMBDA s : s.stamp # 0)
    IN  [missing |-> [i \in DOMAIN samples |->
                        Rounded(samples[i].t - samples[1].t) - (samples[i].count - samples[1].count)],
         phase |-> Walk([i \in DOMAIN told |-> told[i].stamp - told[i].t])]

\* parse_log: the time of day, unwrapped at midnight.
Unwrapped(tod) ==
    [i \in DOMAIN tod |->
       tod[i] + Day * Quantify(2..i, LAMBDA j : tod[j] < tod[j - 1] - Day \div 2)]

\* Where the trailing window of length w begins: as Walk.ppm looks for it, and as
\* sliding_ppm carries it along.
LiveStart(t, w) == Min({i \in DOMAIN t : t[i] >= Last(t) - w})
SlidingStart(t, w) ==
    FoldLeft(LAMBDA j, x : Min({i \in j..Len(t) : x - t[i] <= w}), 1, t)
=============================================================================
