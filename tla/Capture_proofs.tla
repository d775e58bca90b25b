--------------------------- MODULE Capture_proofs ---------------------------
(***************************************************************************)
(* What the offline tools say of a capture is true of it, for every size   *)
(* of FIFO, queue and batch and any number of events, snapshots and        *)
(* starts: the loss check (verify_no_loss.py) and the report on the        *)
(* statistics log (stats_report.py, plot_stats.py, qa_report.py).          *)
(*                                                                         *)
(* The tools add up sequences. A sum is the end of its partial sums        *)
(* (PartialSums), and these are compared, step by step, with what is       *)
(* behind them: Induct of GrayCode_proofs.                                 *)
(***************************************************************************)
EXTENDS Capture, GrayCode_proofs, SequenceTheorems

-----------------------------------------------------------------------------
(***************************************************************************)
(* Greatest elements, and sums.                                            *)
(***************************************************************************)
LEMMA Greatest ==
  ASSUME NEW n \in Nat, NEW T, T \subseteq 1 .. n, T # {}
  PROVE  Max(T) \in T /\ \A y \in T : y <= Max(T)
  <1> DEFINE U == {n - x : x \in T}
  <1>0. \A x \in T : x \in 1 .. n /\ x \in Int /\ n - x \in Nat
    OBVIOUS
  <1>1. U \subseteq Nat /\ U # {}
    <2>1. PICK x \in T : TRUE
      OBVIOUS
    <2>2. n - x \in U
      OBVIOUS
    <2> QED BY <1>0, <2>2
  <1>2. PICK u \in U : \A v \in U : u <= v
    BY <1>1, Least
  <1>3. PICK x \in T : u = n - x
    BY <1>2
  <1>4. ASSUME NEW y \in T PROVE x >= y
    <2>1. n - y \in U
      OBVIOUS
    <2>2. n - x <= n - y
      BY <1>2, <1>3, <2>1
    <2>3. x \in Int /\ y \in Int
      BY <1>0, <1>3
    <2> QED BY <2>2, <2>3
  <1>5. Max(T) \in T /\ \A y \in T : Max(T) >= y
    BY <1>3, <1>4 DEF Max
  <1>6. Max(T) \in Int
    BY <1>0, <1>5
  <1> QED BY <1>0, <1>5, <1>6

\* Max and Min are what any number with their property is.
LEMMA MaxIs ==
  ASSUME NEW T, T \subseteq Int, NEW x \in T, \A y \in T : x >= y
  PROVE  Max(T) = x
  <1>1. Max(T) \in T /\ \A y \in T : Max(T) >= y
    BY DEF Max
  <1>2. Max(T) \in Int /\ x \in Int
    BY <1>1
  <1>3. x >= Max(T) /\ Max(T) >= x
    BY <1>1
  <1> QED BY <1>2, <1>3

LEMMA MinIs ==
  ASSUME NEW T, T \subseteq Int, NEW x \in T, \A y \in T : x <= y
  PROVE  Min(T) = x
  <1>1. Min(T) \in T /\ \A y \in T : Min(T) <= y
    BY DEF Min
  <1>2. Min(T) \in Int /\ x \in Int
    BY <1>1
  <1>3. x <= Min(T) /\ Min(T) <= x
    BY <1>1
  <1> QED BY <1>2, <1>3

\* The table of sums that the fold over s goes by.
SumTable(g, s, n) ==
  [t \in SUBSET (1 .. n) |-> IF t = {} THEN 0 ELSE g[t \ {Max(t)}] + s[Max(t)]]

LEMMA SumIsFolded ==
  ASSUME NEW s, NEW n \in Nat, DOMAIN s = 1 .. n
  PROVE  SumOf(s) = (CHOOSE g : g = SumTable(g, s, n))[1 .. n]
  BY DEF SumOf, FoldLeft, MapThenFoldSet, SumTable

LEMMA TableExists ==
  ASSUME NEW s, NEW n \in Nat
  PROVE  \E g : g = SumTable(g, s, n)
  <1> DEFINE S == {m \in Nat : \E g : g = SumTable(g, s, m)}
  <1>1. 0 \in S
    <2> DEFINE g == [t \in SUBSET (1 .. 0) |-> 0]
    <2>1. \A t \in SUBSET (1 .. 0) : t = {}
      OBVIOUS
    <2>2. g = SumTable(g, s, 0)
      BY <2>1 DEF SumTable
    <2> QED BY <2>2
  <1>2. ASSUME NEW m \in 0 .. n - 1, m \in S PROVE m + 1 \in S
    <2>1. PICK g : g = SumTable(g, s, m)
      BY <1>2
    <2> DEFINE h == [t \in SUBSET (1 .. m + 1) |->
                       IF m + 1 \in t THEN g[t \ {m + 1}] + s[m + 1] ELSE g[t]]
    <2>2. m \in Nat /\ m + 1 \in Nat
      OBVIOUS
    <2>3. ASSUME NEW t \in SUBSET (1 .. m + 1), t # {}
          PROVE  h[t] = h[t \ {Max(t)}] + s[Max(t)]
      <3>1. Max(t) \in t /\ \A y \in t : y <= Max(t)
        BY <2>2, <2>3, Greatest
      <3>2. CASE m + 1 \in t
        <4>1. Max(t) = m + 1
          <5>1. Max(t) \in 1 .. m + 1 /\ m + 1 <= Max(t)
            BY <3>1, <3>2
          <5> HIDE DEF h
          <5> QED BY <2>2, <5>1
        <4>2. t \ {m + 1} \in SUBSET (1 .. m + 1) /\ m + 1 \notin t \ {m + 1}
          OBVIOUS
        <4>3. h[t \ {m + 1}] = g[t \ {m + 1}]
          BY <4>2
        <4>4. h[t] = g[t \ {m + 1}] + s[m + 1]
          BY <3>2
        <4> QED BY <4>1, <4>3, <4>4
      <3>3. CASE m + 1 \notin t
        <4>1. t \in SUBSET (1 .. m)
          BY <3>3
        <4>2. g[t] = g[t \ {Max(t)}] + s[Max(t)]
          BY <2>1, <2>3, <4>1 DEF SumTable
        <4>3. t \ {Max(t)} \in SUBSET (1 .. m + 1) /\ m + 1 \notin t \ {Max(t)}
          BY <3>3
        <4>4. h[t \ {Max(t)}] = g[t \ {Max(t)}] /\ h[t] = g[t]
          BY <3>3, <4>3
        <4> QED BY <4>2, <4>4
      <3> QED BY <3>2, <3>3
    <2>4. h[{}] = 0
      <3>1. {} \in SUBSET (1 .. m) /\ {} \in SUBSET (1 .. m + 1)
        OBVIOUS
      <3>2. g[{}] = 0
        BY <2>1, <3>1 DEF SumTable
      <3> QED BY <3>1, <3>2
    <2> HIDE DEF h
    <2>5. h = SumTable(h, s, m + 1)
      <3>1. h = [t \in SUBSET (1 .. m + 1) |-> h[t]]
        BY DEF h
      <3>2. \A t \in SUBSET (1 .. m + 1) : h[t] = IF t = {} THEN 0 ELSE h[t \ {Max(t)}] + s[Max(t)]
        BY <2>3, <2>4
      <3> HIDE DEF S
      <3> QED BY <3>1, <3>2 DEF SumTable
    <2> QED BY <2>2, <2>5
  <1>3. 0 \in Nat /\ n \in 0 .. n
    OBVIOUS
  <1> HIDE DEF S
  <1>4. \A i \in 0 .. n : i \in S
    BY <1>1, <1>2, <1>3, Induct
  <1>5. n \in S
    BY <1>3, <1>4
  <1> QED BY <1>5 DEF S

\* The sum of a sequence is the last of its partial sums.
LEMMA PartialSums ==
  ASSUME NEW n \in Nat, NEW s \in [1 .. n -> Int]
  PROVE  \E F \in [0 .. n -> Int] :
           /\ F[0] = 0
           /\ \A j \in 0 .. n - 1 : F[j + 1] = F[j] + s[j + 1]
           /\ SumOf(s) = F[n]
  <1> DEFINE g == CHOOSE g : g = SumTable(g, s, n)
  <1>1. g = SumTable(g, s, n)
    BY TableExists
  <1>2. SumOf(s) = g[1 .. n]
    BY SumIsFolded
  <1> HIDE DEF g
  <1>3. g[1 .. 0] = 0
    <2>1. 1 .. 0 = {} /\ {} \in SUBSET (1 .. n)
      OBVIOUS
    <2> QED BY <1>1, <2>1 DEF SumTable
  <1>4. ASSUME NEW j \in 0 .. n - 1 PROVE g[1 .. j + 1] = g[1 .. j] + s[j + 1]
    <2>1. 1 .. j + 1 \in SUBSET (1 .. n) /\ 1 .. j + 1 # {} /\ (1 .. j + 1) \ {j + 1} = 1 .. j
      OBVIOUS
    <2>2. Max(1 .. j + 1) = j + 1
      <3>1. 1 .. j + 1 \subseteq Int /\ j + 1 \in 1 .. j + 1 /\ \A y \in 1 .. j + 1 : j + 1 >= y
        OBVIOUS
      <3> QED BY <3>1, MaxIs
    <2> QED BY <1>1, <2>1, <2>2 DEF SumTable
  <1> DEFINE S == {j \in Nat : g[1 .. j] \in Int}
  <1>5. \A j \in 0 .. n : j \in S
    <2>1. 0 \in S
      BY <1>3
    <2>2. ASSUME NEW j \in 0 .. n - 1, j \in S PROVE j + 1 \in S
      <3>1. j + 1 \in Nat /\ s[j + 1] \in Int
        OBVIOUS
      <3> QED BY <1>4, <2>2, <3>1
    <2>3. 0 \in Nat
      OBVIOUS
    <2> HIDE DEF S
    <2> QED BY <2>1, <2>2, <2>3, Induct
  <1> DEFINE F == [j \in 0 .. n |-> g[1 .. j]]
  <1>6. F \in [0 .. n -> Int]
    BY <1>5
  <1>7. F[0] = 0 /\ (\A j \in 0 .. n - 1 : F[j + 1] = F[j] + s[j + 1]) /\ SumOf(s) = F[n]
    <2>1. 0 \in 0 .. n /\ n \in 0 .. n /\ \A j \in 0 .. n - 1 : j \in 0 .. n /\ j + 1 \in 0 .. n
      OBVIOUS
    <2> QED BY <1>2, <1>3, <1>4, <2>1
  <1> QED BY <1>6, <1>7

-----------------------------------------------------------------------------
(***************************************************************************)
(* The loss check on a sequence of stored records: what makes its counts   *)
(* those of the events.                                                    *)
(***************************************************************************)
Rec == [slot : Nat, ts : Int, count : Nat \ {0}, run : Nat]

Ascending(s) == \A i, j \in DOMAIN s : i < j => s[i].slot < s[j].slot

\* The events handed over after slot a, up to b.
Within(a, b) == {x \in handed : a < x /\ x <= b}

\* A later record b of the same run has the number that follows from the events
\* between; that of a later run has counted from zero.
Consistent(a, b) ==
  /\ a.run <= b.run
  /\ a.run = b.run => b.count = a.count + Cardinality(Within(a.slot, b.slot))
  /\ a.run # b.run => b.count <= Cardinality(Within(a.slot, b.slot))

Handed == handed \in SUBSET Nat /\ IsFiniteSet(handed)

Gone(s, j) ==
  {x \in handed \ {s[i].slot : i \in DOMAIN s} : s[1].slot < x /\ x < s[j].slot}

\* What the loss check says of s, as in LossCheckTells.
Told(s) ==
  LET r == AnalyseCounts([i \in DOMAIN s |-> s[i].count])
      there == {s[i].slot : i \in DOMAIN s}
      gone == {n \in handed \ there : Head(s).slot < n /\ n < Last(s).slot}
      began == Last(s).run - Head(s).run
  IN  /\ r.lost <= Cardinality(gone)
      /\ SameRun(s) => r.lost = Cardinality(gone)
      /\ r.restarts + r.duplicates <= began

Between(a, b) == {x \in handed : a < x /\ x < b}

Step(s, i) == s[i + 1].count - s[i].count
Loss(s, i) == IF Step(s, i) > 1 THEN Step(s, i) - 1 ELSE 0

Numbered(s) ==
  /\ s \in Seq(Rec) /\ Ascending(s)
  /\ \A i \in DOMAIN s : s[i].slot \in handed
  /\ \A i, j \in DOMAIN s : i < j => Consistent(s[i], s[j])

\* One step of the counter against the events between its two records.
LEMMA OneStep ==
  ASSUME Handed, NEW s, Numbered(s), NEW i \in 1 .. Len(s) - 1
  PROVE  /\ Step(s, i) \in Int /\ Loss(s, i) \in Nat
         /\ IsFiniteSet(Between(s[i].slot, s[i + 1].slot))
         /\ Cardinality(Between(s[i].slot, s[i + 1].slot)) \in Nat
         /\ Loss(s, i) <= Cardinality(Between(s[i].slot, s[i + 1].slot))
         /\ s[i].run <= s[i + 1].run
         /\ s[i].run = s[i + 1].run =>
              /\ Step(s, i) > 0
              /\ Loss(s, i) = Cardinality(Between(s[i].slot, s[i + 1].slot))
  <1> DEFINE a == s[i]
             b == s[i + 1]
             G == Between(a.slot, b.slot)
  <1>1. DOMAIN s = 1 .. Len(s) /\ i \in DOMAIN s /\ i + 1 \in DOMAIN s /\ i < i + 1 /\ a \in Rec /\ b \in Rec
    <2>1. s \in Seq(Rec) /\ Len(s) \in Nat /\ DOMAIN s = 1 .. Len(s)
      BY LenProperties DEF Numbered
    <2> QED BY <2>1
  <1>2. a.slot < b.slot /\ b.slot \in handed /\ Consistent(a, b)
    BY <1>1 DEF Numbered, Ascending
  <1>3. a.slot \in Nat /\ b.slot \in Nat /\ a.count \in Nat \ {0} /\ b.count \in Nat \ {0} /\ a.run \in Nat /\ b.run \in Nat
    BY <1>1 DEF Rec
  <1> HIDE DEF a, b
  <1>4. IsFiniteSet(G) /\ Cardinality(G) \in Nat
    <2>1. G \in SUBSET handed
      BY DEF Between
    <2>2. IsFiniteSet(G)
      BY <2>1, FS_Subset DEF Handed
    <2> QED BY <2>2, FS_CardinalityType
  <1>5. Cardinality(Within(a.slot, b.slot)) = Cardinality(G) + 1
    <2>1. \A x \in handed : x \in Nat
      BY DEF Handed
    <2>2. b.slot \notin G
      BY <1>3 DEF Between
    <2>3. ASSUME NEW x PROVE x \in Within(a.slot, b.slot) <=> x \in G \cup {b.slot}
      BY <1>2, <1>3, <2>1 DEF Within, Between
    <2>4. Within(a.slot, b.slot) = G \cup {b.slot}
      BY <2>3
    <2> QED BY <1>4, <2>2, <2>4, FS_AddElement
  <1>6. Step(s, i) = b.count - a.count
    BY DEF Step, a, b
  <1>7. a.run <= b.run /\ (a.run = b.run => b.count = a.count + (Cardinality(G) + 1))
        /\ (a.run # b.run => b.count <= Cardinality(G) + 1)
    BY <1>2, <1>5 DEF Consistent
  <1> HIDE DEF G
  <1>8. /\ Step(s, i) \in Int /\ Loss(s, i) \in Nat
        /\ Loss(s, i) <= Cardinality(G)
        /\ a.run <= b.run
        /\ a.run = b.run => Step(s, i) > 0 /\ Loss(s, i) = Cardinality(G)
    BY SMTT(30), <1>3, <1>4, <1>6, <1>7 DEF Loss
  <1> QED BY <1>4, <1>8 DEF G, a, b

\* The events gone before record j + 1 are those before j and those between the two.
LEMMA GoneStep ==
  ASSUME Handed, NEW s, Numbered(s), NEW j \in 1 .. Len(s) - 1
  PROVE  /\ IsFiniteSet(Gone(s, j)) /\ IsFiniteSet(Gone(s, j + 1))
         /\ Cardinality(Gone(s, j)) \in Nat
         /\ Cardinality(Gone(s, j + 1))
              = Cardinality(Gone(s, j)) + Cardinality(Between(s[j].slot, s[j + 1].slot))
  <1> DEFINE G == Between(s[j].slot, s[j + 1].slot)
             there == {s[i].slot : i \in DOMAIN s}
  <1>1. Len(s) \in Nat /\ DOMAIN s = 1 .. Len(s) /\ \A i \in DOMAIN s : s[i] \in Rec /\ s[i].slot \in Nat
    <2>1. s \in Seq(Rec)
      BY DEF Numbered
    <2>2. Len(s) \in Nat /\ DOMAIN s = 1 .. Len(s) /\ \A i \in DOMAIN s : s[i] \in Rec
      BY <2>1, LenProperties
    <2> QED BY <2>2 DEF Rec
  <1>2. 1 \in DOMAIN s /\ j \in DOMAIN s /\ j + 1 \in DOMAIN s
    BY <1>1
  <1>3. \A i, k \in DOMAIN s : i < k => s[i].slot < s[k].slot
    BY DEF Numbered, Ascending
  <1>4. s[1].slot <= s[j].slot /\ s[j].slot < s[j + 1].slot
    BY <1>1, <1>2, <1>3
  <1>5. ASSUME NEW x \in G PROVE x \notin there
    <2> SUFFICES ASSUME NEW i \in DOMAIN s, x = s[i].slot PROVE FALSE
      OBVIOUS
    <2>1. s[j].slot < s[i].slot /\ s[i].slot < s[j + 1].slot
      BY <1>5 DEF Between
    <2>2. CASE i <= j
      BY <1>1, <1>2, <1>3, <2>1, <2>2
    <2>3. CASE i > j
      BY <1>1, <1>2, <1>3, <2>1, <2>3
    <2> QED BY <1>1, <2>2, <2>3
  <1>6. Gone(s, j + 1) = Gone(s, j) \cup G
    <2>1. ASSUME NEW x \in Gone(s, j + 1) PROVE x \in Gone(s, j) \cup G
      <3>1. x \in handed /\ x \in Nat /\ x \notin there /\ s[1].slot < x /\ x < s[j + 1].slot
        BY <2>1 DEF Gone, Handed
      <3>2. x # s[j].slot
        BY <1>2, <3>1
      <3>3. x < s[j].slot \/ s[j].slot < x
        BY <1>1, <1>2, <3>1, <3>2
      <3> QED BY <3>1, <3>3 DEF Gone, Between
    <2>2. ASSUME NEW x \in Gone(s, j) \cup G PROVE x \in Gone(s, j + 1)
      <3>1. CASE x \in Gone(s, j)
        <4>1. x \in handed /\ x \in Nat /\ x \notin there /\ s[1].slot < x /\ x < s[j].slot
          BY <3>1 DEF Gone, Handed
        <4>2. x < s[j + 1].slot
          BY <1>1, <1>2, <1>4, <4>1
        <4> QED BY <4>1, <4>2 DEF Gone
      <3>2. CASE x \in G
        <4>1. x \in handed /\ x \in Nat /\ s[j].slot < x /\ x < s[j + 1].slot
          BY <3>2 DEF Between, Handed
        <4>2. s[1].slot < x
          BY <1>1, <1>2, <1>4, <4>1
        <4>3. x \notin there
          BY <1>5, <3>2
        <4> QED BY <4>1, <4>2, <4>3 DEF Gone
      <3> QED BY <2>2, <3>1, <3>2
    <2> QED BY <2>1, <2>2
  <1>7. Gone(s, j) \cap G = {}
    <2> SUFFICES ASSUME NEW x \in Gone(s, j), x \in G PROVE FALSE
      OBVIOUS
    <2>1. x \in Nat /\ x < s[j].slot /\ s[j].slot < x
      BY DEF Gone, Between, Handed
    <2> QED BY <1>1, <1>2, <2>1
  <1>8. IsFiniteSet(Gone(s, j)) /\ IsFiniteSet(Gone(s, j + 1)) /\ IsFiniteSet(G)
    <2>1. Gone(s, j) \in SUBSET handed /\ Gone(s, j + 1) \in SUBSET handed /\ G \in SUBSET handed
      BY DEF Gone, Between
    <2> QED BY <2>1, FS_Subset DEF Handed
  <1>9. Cardinality(Gone(s, j)) \in Nat /\ Cardinality(G) \in Nat
    BY <1>8, FS_CardinalityType
  <1>10. Cardinality(Gone(s, j) \cap G) = 0
    BY <1>7, FS_EmptySet
  <1> HIDE DEF G
  <1>11. Cardinality(Gone(s, j) \cup G) = Cardinality(Gone(s, j)) + Cardinality(G) - Cardinality(Gone(s, j) \cap G)
    BY <1>8, FS_Union
  <1>12. Cardinality(Gone(s, j + 1)) = Cardinality(Gone(s, j)) + Cardinality(G)
    <2>1. Cardinality(Gone(s, j + 1)) = Cardinality(Gone(s, j) \cup G)
      BY <1>6
    <2> QED BY <1>9, <1>10, <1>11, <2>1
  <1> QED BY <1>8, <1>9, <1>12 DEF G
\* The loss check is right of every sequence of records whose numbers are those
\* of the events handed over.
LEMMA LossCheckRight ==
  ASSUME Handed, NEW s, Numbered(s), s # <<>>
  PROVE  Told(s)
  <1> DEFINE n == Len(s)
             v == [i \in DOMAIN s |-> s[i].count]
             L == [i \in 1 .. n - 1 |-> Loss(s, i)]
             r == AnalyseCounts(v)
  <1>1. n \in Nat \ {0} /\ DOMAIN s = 1 .. n /\ \A i \in 1 .. n : s[i] \in Rec /\ s[i].slot \in Nat /\ s[i].count \in Nat /\ s[i].run \in Nat
    <2>1. s \in Seq(Rec)
      BY DEF Numbered
    <2>2. Len(s) \in Nat \ {0} /\ DOMAIN s = 1 .. Len(s) /\ \A i \in DOMAIN s : s[i] \in Rec
      BY <2>1, EmptySeq, LenProperties
    <2> QED BY <2>2 DEF Rec
  <1>2. Head(s) = s[1] /\ Last(s) = s[n]
    BY DEF Last, Numbered
  <1>3. Gaps(v) = [i \in 1 .. n - 1 |-> Step(s, i)]
    <2>1. v \in [1 .. n -> Nat] /\ v \in Seq(Nat)
      BY <1>1
    <2>2. DOMAIN v = 1 .. n /\ Len(v) = n
      BY <1>1, <2>1
    <2>3. \A i \in 1 .. n - 1 : v[i + 1] - v[i] = Step(s, i)
      BY <1>1 DEF Step
    <2> HIDE DEF v, n
    <2> QED BY <2>2, <2>3 DEF Gaps
  <1> HIDE DEF v
  <1>4. /\ r.lost = SumOf(L)
        /\ r.restarts = Cardinality({i \in 1 .. n - 1 : Step(s, i) < 0})
        /\ r.duplicates = Cardinality({i \in 1 .. n - 1 : Step(s, i) = 0})
    <2>1. DOMAIN Gaps(v) = 1 .. n - 1 /\ \A i \in 1 .. n - 1 : Gaps(v)[i] = Step(s, i)
      BY <1>3
    <2>2. [i \in DOMAIN Gaps(v) |-> IF Gaps(v)[i] > 1 THEN Gaps(v)[i] - 1 ELSE 0] = L
      BY <2>1 DEF Loss
    <2>3. {i \in DOMAIN Gaps(v) : Gaps(v)[i] < 0} = {i \in 1 .. n - 1 : Step(s, i) < 0}
      BY <2>1
    <2>4. {i \in DOMAIN Gaps(v) : Gaps(v)[i] = 0} = {i \in 1 .. n - 1 : Step(s, i) = 0}
      BY <2>1
    <2> HIDE DEF n, L
    <2>5. r.lost = SumOf([i \in DOMAIN Gaps(v) |-> IF Gaps(v)[i] > 1 THEN Gaps(v)[i] - 1 ELSE 0])
      BY DEF AnalyseCounts
    <2>6. r.restarts = Cardinality({i \in DOMAIN Gaps(v) : Gaps(v)[i] < 0})
      BY DEF AnalyseCounts, Quantify
    <2>7. r.duplicates = Cardinality({i \in DOMAIN Gaps(v) : Gaps(v)[i] = 0})
      BY DEF AnalyseCounts, Quantify
    <2> QED BY <2>2, <2>3, <2>4, <2>5, <2>6, <2>7
  <1> HIDE DEF r
  <1>5. \A i \in 1 .. n - 1 :
          /\ Step(s, i) \in Int /\ Loss(s, i) \in Nat
          /\ Cardinality(Between(s[i].slot, s[i + 1].slot)) \in Nat
          /\ Loss(s, i) <= Cardinality(Between(s[i].slot, s[i + 1].slot))
          /\ s[i].run <= s[i + 1].run
          /\ s[i].run = s[i + 1].run =>
               /\ Step(s, i) > 0
               /\ Loss(s, i) = Cardinality(Between(s[i].slot, s[i + 1].slot))
    BY OneStep
  <1>6. PICK F \in [0 .. n - 1 -> Int] :
          /\ F[0] = 0
          /\ \A j \in 0 .. (n - 1) - 1 : F[j + 1] = F[j] + L[j + 1]
          /\ SumOf(L) = F[n - 1]
    <2>1. n - 1 \in Nat /\ L \in [1 .. n - 1 -> Int]
      BY <1>1, <1>5
    <2> HIDE DEF n, L
    <2> QED BY <2>1, PartialSums
  <1> DEFINE Good == {j \in Nat :
                 /\ F[j - 1] <= Cardinality(Gone(s, j))
                 /\ s[1].run <= s[j].run
                 /\ s[1].run = s[j].run => F[j - 1] = Cardinality(Gone(s, j))}
  <1>7. 1 \in Good
    <2>1. Gone(s, 1) = {}
      <3> SUFFICES ASSUME NEW x \in Gone(s, 1) PROVE FALSE
        OBVIOUS
      <3>1. x \in Nat /\ s[1].slot < x /\ x < s[1].slot
        BY DEF Gone, Handed
      <3> QED BY <1>1, <3>1
    <2>2. Cardinality(Gone(s, 1)) = 0
      BY <2>1, FS_EmptySet
    <2> QED BY <1>1, <1>6, <2>2
  <1>8. ASSUME NEW j \in 1 .. n - 1, j \in Good PROVE j + 1 \in Good
    <2>1. Cardinality(Gone(s, j)) \in Nat
          /\ Cardinality(Gone(s, j + 1)) = Cardinality(Gone(s, j)) + Cardinality(Between(s[j].slot, s[j + 1].slot))
      BY GoneStep
    <2>2. j - 1 \in 0 .. (n - 1) - 1 /\ (j - 1) + 1 = j /\ (j + 1) - 1 = j /\ j - 1 \in 0 .. n - 1 /\ j \in 0 .. n - 1 /\ j \in 1 .. n /\ j + 1 \in 1 .. n
      BY <1>1
    <2>3. F[j] = F[j - 1] + Loss(s, j) /\ F[j - 1] \in Int /\ F[j] \in Int
      BY <1>6, <2>2
    <2>4. s[1].run \in Nat /\ s[j].run \in Nat /\ s[j + 1].run \in Nat
      BY <1>1, <2>2
    <2>5. /\ F[j - 1] <= Cardinality(Gone(s, j))
          /\ s[1].run <= s[j].run
          /\ s[1].run = s[j].run => F[j - 1] = Cardinality(Gone(s, j))
      BY <1>8
    <2>6. /\ Loss(s, j) \in Nat
          /\ Cardinality(Between(s[j].slot, s[j + 1].slot)) \in Nat
          /\ Loss(s, j) <= Cardinality(Between(s[j].slot, s[j + 1].slot))
          /\ s[j].run <= s[j + 1].run
          /\ s[j].run = s[j + 1].run => Loss(s, j) = Cardinality(Between(s[j].slot, s[j + 1].slot))
      BY <1>5
    <2>7. /\ F[j] <= Cardinality(Gone(s, j + 1))
          /\ s[1].run <= s[j + 1].run
          /\ s[1].run = s[j + 1].run => F[j] = Cardinality(Gone(s, j + 1))
      <3>1. F[j] <= Cardinality(Gone(s, j + 1))
        BY <2>1, <2>3, <2>5, <2>6
      <3>2. s[1].run <= s[j + 1].run
        BY <2>4, <2>5, <2>6
      <3>3. ASSUME s[1].run = s[j + 1].run PROVE F[j] = Cardinality(Gone(s, j + 1))
        <4>1. s[1].run = s[j].run /\ s[j].run = s[j + 1].run
          BY <2>4, <2>5, <2>6, <3>3
        <4>2. F[j - 1] = Cardinality(Gone(s, j)) /\ Loss(s, j) = Cardinality(Between(s[j].slot, s[j + 1].slot))
          BY <2>5, <2>6, <4>1
        <4> HIDE DEF n
        <4> QED BY <2>1, <2>3, <4>2
      <3> QED BY <3>1, <3>2, <3>3
    <2> QED BY <2>2, <2>7
  <1>9. n \in Good
    <2>1. 1 \in Nat /\ n \in Nat /\ n \in 1 .. n
      BY <1>1
    <2> HIDE DEF Good, n
    <2>2. \A j \in 1 .. n : j \in Good
      BY <1>7, <1>8, <2>1, Induct
    <2> QED BY <2>1, <2>2
  <1>10. Gone(s, n) = {x \in handed \ {s[i].slot : i \in DOMAIN s} : Head(s).slot < x /\ x < Last(s).slot}
    BY <1>2 DEF Gone
  \* The runs: between two records that do not step forward a run began.
  <1> DEFINE Back(j) == {i \in 1 .. j - 1 : Step(s, i) <= 0}
             Few == {j \in Nat : IsFiniteSet(Back(j)) /\ Cardinality(Back(j)) <= s[j].run - s[1].run}
  <1>11. 1 \in Few
    <2>1. Back(1) = {}
      OBVIOUS
    <2>2. IsFiniteSet(Back(1)) /\ Cardinality(Back(1)) = 0
      BY <2>1, FS_EmptySet
    <2> HIDE DEF Back
    <2> QED BY <1>1, <2>2
  <1>12. ASSUME NEW j \in 1 .. n - 1, j \in Few PROVE j + 1 \in Few
    <2>1. j \in Nat /\ j + 1 \in Nat /\ j \in 1 .. n /\ j + 1 \in 1 .. n
      BY <1>1
    <2>2. s[1].run \in Nat /\ s[j].run \in Nat /\ s[j + 1].run \in Nat
      BY <1>1, <2>1
    <2>3. s[j].run <= s[j + 1].run /\ (s[j].run = s[j + 1].run => Step(s, j) > 0) /\ Step(s, j) \in Int
      BY <1>5
    <2>4. IsFiniteSet(Back(j)) /\ Cardinality(Back(j)) <= s[j].run - s[1].run
      BY <1>12
    <2>5. Cardinality(Back(j)) \in Nat
      BY <2>4, FS_CardinalityType
    <2>6. CASE Step(s, j) <= 0
      <3>1. Back(j + 1) = Back(j) \cup {j} /\ j \notin Back(j)
        BY <2>1, <2>6
      <3> HIDE DEF Back
      <3>2. IsFiniteSet(Back(j + 1)) /\ Cardinality(Back(j + 1)) = Cardinality(Back(j)) + 1
        BY <2>4, <3>1, FS_AddElement
      <3>3. s[j].run + 1 <= s[j + 1].run
        BY <2>2, <2>3, <2>6
      <3> QED BY SMTT(30), <2>1, <2>2, <2>4, <2>5, <3>2, <3>3
    <2>7. CASE ~(Step(s, j) <= 0)
      <3>1. Back(j + 1) = Back(j)
        BY <2>1, <2>7
      <3> HIDE DEF Back
      <3>2. IsFiniteSet(Back(j + 1)) /\ Cardinality(Back(j + 1)) <= s[j + 1].run - s[1].run
        BY <2>2, <2>3, <2>4, <2>5, <3>1
      <3> QED BY <2>1, <3>2
    <2> QED BY <2>6, <2>7
  <1>13. n \in Few
    <2>1. 1 \in Nat /\ n \in Nat /\ n \in 1 .. n
      BY <1>1
    <2> HIDE DEF Few, n
    <2>2. \A j \in 1 .. n : j \in Few
      BY <1>11, <1>12, <2>1, Induct
    <2> QED BY <2>1, <2>2
  <1>14. r.restarts + r.duplicates = Cardinality(Back(n))
    <2> DEFINE A == {i \in 1 .. n - 1 : Step(s, i) < 0}
               B == {i \in 1 .. n - 1 : Step(s, i) = 0}
    <2>0. \A i \in 1 .. n - 1 : Step(s, i) \in Int
      BY <1>5
    <2>1. A \cup B = Back(n) /\ A \cap B = {}
      <3> HIDE DEF n
      <3>1. ASSUME NEW i \in 1 .. n - 1 PROVE (Step(s, i) < 0 \/ Step(s, i) = 0 <=> Step(s, i) <= 0) /\ ~(Step(s, i) < 0 /\ Step(s, i) = 0)
        BY <2>0
      <3> QED BY <3>1
    <2>2. IsFiniteSet(A) /\ IsFiniteSet(B)
      <3>1. IsFiniteSet(1 .. n - 1) /\ A \in SUBSET (1 .. n - 1) /\ B \in SUBSET (1 .. n - 1)
        BY <1>1, FS_Interval
      <3> QED BY <3>1, FS_Subset
    <2>3. r.restarts = Cardinality(A) /\ r.duplicates = Cardinality(B)
      BY <1>4
    <2> HIDE DEF A, B, Back
    <2>4. Cardinality(A \cup B) = Cardinality(A) + Cardinality(B) - Cardinality(A \cap B)
      BY <2>2, FS_Union
    <2>5. Cardinality(A \cap B) = 0 /\ Cardinality(A) \in Nat /\ Cardinality(B) \in Nat
      BY <2>1, <2>2, FS_EmptySet, FS_CardinalityType
    <2>6. Cardinality(A \cup B) = Cardinality(Back(n))
      BY <2>1
    <2> QED BY <2>3, <2>4, <2>5, <2>6
  <1>15. /\ r.lost <= Cardinality(Gone(s, n))
         /\ s[1].run = s[n].run => r.lost = Cardinality(Gone(s, n))
         /\ r.restarts + r.duplicates <= s[n].run - s[1].run
    <2>1. r.lost = F[n - 1]
      BY <1>4, <1>6
    <2>2. r.restarts + r.duplicates <= s[n].run - s[1].run
      BY <1>13, <1>14
    <2> QED BY <1>9, <2>1, <2>2
  <1> HIDE DEF n
  <1> QED BY <1>2, <1>10, <1>15 DEF Told, SameRun, r, v
-----------------------------------------------------------------------------
(***************************************************************************)
(* The inductive invariants. A behaviour keeps the streams, and then the   *)
(* stored, taken and queued records number what was handed over; or it     *)
(* keeps the log, and then each snapshot closes the readout's account.     *)
(***************************************************************************)
FifoRec == [slot : Nat, ts : Int]
Hw == [event_count : Nat, overflow : BOOLEAN, refused : Nat, left : 0 .. Depth]
Snap == [event_count : Nat, overflow : BOOLEAN, drained : Nat, unsync : Nat,
         published : Nat, dropped : Nat, queued : Nat, of : Nat, refused : Nat,
         left : 0 .. Depth, held : Nat, cut : {0, 1}]

TypeOK ==
  /\ now \in Nat /\ overflow \in BOOLEAN /\ refused \in Nat /\ unlocked \in Nat
  /\ fifo \in Seq(FifoRec) /\ Len(fifo) <= Depth
  /\ pc \in {"down", "status", "counts", "log", "run", "join"} /\ stopping \in BOOLEAN
  /\ hw \in Hw /\ drained \in Nat /\ unsync \in Nat
  /\ Handed /\ runs \in Nat /\ cut \in {0, 1}
  /\ queue \in Seq(Rec) /\ batch \in Seq(Rec) /\ published \in Nat /\ dropped \in Nat
  /\ rows \in Seq(Rec) /\ snaps \in Seq(Snap) /\ kept \in Kept

RecordsOf(s) == {s[i] : i \in DOMAIN s}
Recs == RecordsOf(rows) \cup RecordsOf(batch) \cup RecordsOf(queue)

Precedes(s, t) == \A a \in RecordsOf(s), b \in RecordsOf(t) : a.slot < b.slot

InOrder ==
  /\ Ascending(rows) /\ Ascending(batch) /\ Ascending(queue)
  /\ Precedes(rows, batch) /\ Precedes(rows, queue) /\ Precedes(batch, queue)

\* What waits in the FIFO came after all that was handed over.
SlotsRise ==
  /\ Ascending(fifo)
  /\ \A i \in DOMAIN fifo : fifo[i].slot <= now
  /\ \A x \in handed : x <= now
  /\ \A x \in handed, i \in DOMAIN fifo : x < fifo[i].slot

After(a) == {x \in handed : a < x}

\* How far the counter of this run is ahead of each record.
Ahead(r) ==
  /\ r.slot \in handed /\ r.run <= runs
  /\ r.run = runs => drained = r.count + Cardinality(After(r.slot))
  /\ r.run # runs => drained <= Cardinality(After(r.slot))

Chained == \A a, b \in Recs : a.slot < b.slot => Consistent(a, b)

StreamsInv ==
  /\ TypeOK
  /\ kept = "log" => rows = <<>>
  /\ kept = "streams" => InOrder /\ SlotsRise /\ Chained /\ \A r \in Recs : Ahead(r)

\* What the FIFO has given to others than this run: it does not change in a run.
Before == now - refused - Len(fifo) - drained - unsync - cut
BeforeOf(s) == s.event_count - s.refused - s.left - s.drained - s.unsync - s.cut

\* The snapshots up to the present, as it is when pc is not down.
SnapsKept ==
  \A i \in DOMAIN snaps :
    LET s == snaps[i]
    IN  /\ s.of <= runs
        /\ s.event_count <= now /\ s.refused <= refused
        /\ pc = "log" => s.event_count <= hw.event_count /\ s.refused <= hw.refused
        /\ s.of = runs /\ pc # "down" => BeforeOf(s) = Before /\ s.drained <= drained
        /\ s.drained = s.published + s.dropped + s.queued + s.held
        /\ (\A k \in 1 .. i - 1 : snaps[k].of # s.of) => s.drained = 0 /\ s.unsync = 0 /\ s.cut = 0

SnapsRise ==
  \A i, j \in DOMAIN snaps :
    i < j => /\ snaps[i].of <= snaps[j].of
             /\ snaps[i].event_count <= snaps[j].event_count
             /\ snaps[i].refused <= snaps[j].refused
             /\ snaps[i].of = snaps[j].of =>
                  /\ BeforeOf(snaps[i]) = BeforeOf(snaps[j])
                  /\ snaps[i].drained <= snaps[j].drained

\* A run's first snapshot is of its start.
FirstAtStart ==
  pc # "down" /\ (\A i \in DOMAIN snaps : snaps[i].of # runs) =>
    /\ drained = 0 /\ unsync = 0 /\ cut = 0
    /\ pc \in {"status", "counts", "log"} /\ ~stopping

Account ==
  /\ pc = "down" => queue = <<>> /\ batch = <<>>
  /\ pc # "down" => drained = published + dropped + Len(queue) + Len(batch)
  /\ pc = "run" => ~stopping
  /\ pc # "down" /\ ~stopping => cut = 0
  /\ pc = "log" => /\ hw.event_count - hw.refused - hw.left = Before + drained + unsync + cut
                   /\ hw.event_count <= now /\ hw.refused <= refused

LogInv ==
  /\ TypeOK
  /\ kept = "streams" => snaps = <<>>
  /\ kept = "log" => SnapsKept /\ SnapsRise /\ FirstAtStart /\ Account

-----------------------------------------------------------------------------
(***************************************************************************)
(* Types.                                                                  *)
(***************************************************************************)
LEMMA Sizes ==
  /\ Depth \in Nat \ {0} /\ QueueSize \in Nat \ {0} /\ BatchSize \in Nat \ {0}
  /\ LateSlot \in Nat /\ Lateness \in Nat /\ Period \in Nat
  /\ Residual = Depth
  <1>1. {Depth, QueueSize, BatchSize} \subseteq Nat \ {0}
    BY CaptureAssumption
  <1>2. {LateSlot, Lateness, MaxUnsync, MaxSnaps, MaxRuns} \subseteq Nat
    BY CaptureAssumption
  <1>3. {Residual, Period, HoleAt, SessionGap, RejectAt, FailPart, BigGap, TolPercent} \subseteq Nat
    BY ReportsAssumption
  <1>4. Residual = Depth
    BY CaptureAssumption
  <1> QED BY <1>1, <1>2, <1>3, <1>4

LEMMA InitType == Init => TypeOK
  <1> SUFFICES ASSUME Init PROVE TypeOK
    OBVIOUS
  <1>1. NoHw \in Hw
    BY Sizes DEF NoHw, Hw
  <1>2. Handed
    BY FS_EmptySet DEF Init, Handed
  <1>3. Len(fifo) <= Depth
    BY Sizes DEF Init
  <1>4. <<>> \in Seq(FifoRec) /\ <<>> \in Seq(Rec) /\ <<>> \in Seq(Snap)
    OBVIOUS
  <1> QED BY <1>1, <1>2, <1>3, <1>4 DEF Init, TypeOK

LEMMA SubSeqIn ==
  ASSUME NEW S, NEW s \in Seq(S), NEW m \in 1 .. Len(s) + 1, NEW n \in 0 .. Len(s)
  PROVE  /\ SubSeq(s, m, n) \in Seq(S)
         /\ Len(SubSeq(s, m, n)) = IF m <= n THEN n - m + 1 ELSE 0
         /\ DOMAIN SubSeq(s, m, n) = 1 .. Len(SubSeq(s, m, n))
         /\ \A i \in 1 .. Len(SubSeq(s, m, n)) : m + i - 1 \in DOMAIN s /\ SubSeq(s, m, n)[i] = s[m + i - 1]
  <1>1. Len(s) \in Nat /\ DOMAIN s = 1 .. Len(s) /\ m \in Int /\ n \in Int
    BY LenProperties
  <1>2. \A i \in m .. n : s[i] \in S
    BY <1>1
  <1>3. /\ SubSeq(s, m, n) \in Seq(S)
        /\ Len(SubSeq(s, m, n)) = IF m <= n THEN n - m + 1 ELSE 0
        /\ \A i \in 1 .. n - m + 1 : SubSeq(s, m, n)[i] = s[m + i - 1]
    BY <1>1, <1>2, SubSeqProperties
  <1>4. DOMAIN SubSeq(s, m, n) = 1 .. Len(SubSeq(s, m, n))
    BY <1>3, LenProperties
  <1>5. ASSUME NEW i \in 1 .. Len(SubSeq(s, m, n))
        PROVE  m + i - 1 \in DOMAIN s /\ SubSeq(s, m, n)[i] = s[m + i - 1]
    <2>1. i \in 1 .. n - m + 1 /\ m <= n
      BY <1>1, <1>3
    <2>2. m + i - 1 \in DOMAIN s
      BY <1>1, <2>1
    <2> QED BY <1>3, <2>1, <2>2
  <1> QED BY <1>3, <1>4, <1>5

LEMMA StoredType ==
  ASSUME TypeOK, NEW n \in 0 .. Len(batch)
  PROVE  Stored(n) \in Seq(Rec)
  <1>1. batch \in Seq(Rec) /\ rows \in Seq(Rec) /\ 1 \in 1 .. Len(batch) + 1
    BY DEF TypeOK
  <1>2. SubSeq(batch, 1, n) \in Seq(Rec)
    BY <1>1, SubSeqIn
  <1> QED BY <1>1, <1>2 DEF Stored

\* A batch is the head of the queue, which keeps the rest.
LEMMA TakeParts ==
  ASSUME TypeOK, Take
  PROVE  \E m \in 1 .. Len(queue) :
           /\ batch' = SubSeq(queue, 1, m) /\ Len(batch') = m
           /\ queue' = SubSeq(queue, m + 1, Len(queue)) /\ Len(queue') = Len(queue) - m
           /\ batch' \in Seq(Rec) /\ queue' \in Seq(Rec)
  <1> DEFINE m == Min({BatchSize, Len(queue)})
  <1>1. queue \in Seq(Rec) /\ queue # <<>> /\ Len(queue) \in Nat \ {0} /\ BatchSize \in Nat \ {0}
    BY EmptySeq, Sizes DEF TypeOK, Take
  <1>2. m \in 1 .. Len(queue)
    <2>1. CASE BatchSize <= Len(queue)
      <3>0. {BatchSize, Len(queue)} \subseteq Int /\ BatchSize \in {BatchSize, Len(queue)}
            /\ \A y \in {BatchSize, Len(queue)} : BatchSize <= y
        BY <1>1, <2>1
      <3>1. Min({BatchSize, Len(queue)}) = BatchSize
        BY <3>0, MinIs
      <3> QED BY <1>1, <2>1, <3>1
    <2>2. CASE ~(BatchSize <= Len(queue))
      <3> DEFINE T == {BatchSize, Len(queue)}
                 x == Len(queue)
      <3>0. T \subseteq Int /\ x \in T /\ \A y \in T : x <= y
        BY <1>1, <2>2
      <3> HIDE DEF T, x
      <3>1. Min(T) = x
        BY <3>0, MinIs
      <3> USE DEF T, x
      <3> QED BY <1>1, <3>1
    <2> QED BY <2>1, <2>2
  <1> HIDE DEF m
  <1>3. batch' = SubSeq(queue, 1, m) /\ queue' = SubSeq(queue, Len(batch') + 1, Len(queue))
    BY DEF Take, m
  <1>4. /\ 1 \in 1 .. Len(queue) + 1 /\ m \in 0 .. Len(queue)
        /\ m + 1 \in 1 .. Len(queue) + 1 /\ Len(queue) \in 0 .. Len(queue)
    BY <1>1, <1>2
  <1>5. batch' \in Seq(Rec) /\ Len(batch') = m
    BY <1>1, <1>2, <1>3, <1>4, SubSeqIn
  <1>6. queue' \in Seq(Rec) /\ Len(queue') = Len(queue) - m
    <2>1. SubSeq(queue, m + 1, Len(queue)) \in Seq(Rec)
          /\ Len(SubSeq(queue, m + 1, Len(queue))) = IF m + 1 <= Len(queue) THEN Len(queue) - (m + 1) + 1 ELSE 0
      BY <1>1, <1>4, SubSeqIn
    <2> QED BY <1>1, <1>2, <1>3, <1>5, <2>1
  <1> QED BY <1>2, <1>3, <1>5, <1>6

\* The record of an event that Drain hands over.
NewRec(f) == [slot |-> f.slot, ts |-> f.ts, count |-> drained + 1, run |-> runs]

LEMMA DrainParts ==
  ASSUME TypeOK, Drain
  PROVE  /\ fifo # <<>> /\ Head(fifo) \in FifoRec /\ fifo' = Tail(fifo)
         /\ fifo' \in Seq(FifoRec) /\ Len(fifo) \in Nat \ {0} /\ Len(fifo') = Len(fifo) - 1
         /\ \/ /\ unsync' = unsync + 1
               /\ UNCHANGED <<drained, handed, queue, dropped>>
            \/ /\ NewRec(Head(fifo)) \in Rec
               /\ drained' = drained + 1 /\ unsync' = unsync
               /\ handed' = IF kept = "streams" THEN handed \cup {Head(fifo).slot} ELSE handed
               /\ \/ /\ queue' = Append(queue, NewRec(Head(fifo))) /\ dropped' = dropped
                  \/ /\ queue # <<>>
                     /\ queue' = Append(Tail(queue), NewRec(Head(fifo))) /\ dropped' = dropped + 1
  <1>1. fifo \in Seq(FifoRec) /\ fifo # <<>> /\ fifo' = Tail(fifo) /\ queue \in Seq(Rec) /\ drained \in Nat /\ runs \in Nat
    BY DEF Drain, TypeOK
  <1>2. Head(fifo) \in FifoRec /\ fifo' \in Seq(FifoRec) /\ Len(fifo) \in Nat \ {0} /\ Len(fifo') = Len(fifo) - 1
    BY <1>1, HeadTailProperties, EmptySeq
  <1>3. CASE Head(fifo).ts = 0
    BY <1>1, <1>2, <1>3 DEF Drain
  <1>4. CASE Head(fifo).ts # 0
    <2>1. NewRec(Head(fifo)) \in Rec
      BY <1>1, <1>2 DEF NewRec, Rec, FifoRec
    <2>2. drained' = drained + 1 /\ unsync' = unsync
      BY <1>4 DEF Drain
    <2>3. handed' = IF kept = "streams" THEN handed \cup {Head(fifo).slot} ELSE handed
      BY <1>4 DEF Drain
    <2>4. CASE Len(queue) = QueueSize
      <3>1. queue' = Append(Tail(queue), NewRec(Head(fifo))) /\ dropped' = dropped + 1
        BY <1>4, <2>2, <2>4 DEF Drain, NewRec
      <3>2. queue # <<>>
        BY <1>1, <2>4, Sizes, EmptySeq
      <3> QED BY <1>1, <1>2, <2>1, <2>2, <2>3, <3>1, <3>2
    <2>5. CASE Len(queue) # QueueSize
      <3>1. queue' = Append(queue, NewRec(Head(fifo))) /\ dropped' = dropped
        BY <1>4, <2>2, <2>5 DEF Drain, NewRec
      <3> QED BY <1>1, <1>2, <2>1, <2>2, <2>3, <3>1
    <2> QED BY <2>4, <2>5
  <1> QED BY <1>3, <1>4

LEMMA TypeStep ==
  ASSUME TypeOK, [Next]_vars
  PROVE  TypeOK'
  <1>1. ASSUME NEW b \in BOOLEAN, Slot(b) PROVE TypeOK'
    <2>1. now + 1 \in Nat /\ Stamp(now + 1) \in Int
      <3>1. now + 1 \in Nat /\ Period \in Nat /\ Lateness \in Nat
        BY Sizes DEF TypeOK
      <3>2. (now + 1) * Period \in Int
        BY <3>1
      <3> QED BY <3>1, <3>2 DEF Stamp
    <2>2. now' \in Nat /\ overflow' \in BOOLEAN /\ refused' \in Nat /\ unlocked' \in Nat
      <3>1. now' = now + 1 /\ (unlocked' = unlocked \/ unlocked' = unlocked + 1)
            /\ (UNCHANGED <<overflow, refused>> \/ (overflow' = TRUE /\ refused' = refused + 1))
        BY <1>1 DEF Slot
      <3>2. overflow' \in BOOLEAN
        BY <3>1 DEF TypeOK
      <3>3. now' \in Nat /\ unlocked' \in Nat /\ refused' \in Nat
        BY <3>1 DEF TypeOK
      <3> QED BY <3>2, <3>3
    <2>3. fifo' \in Seq(FifoRec) /\ Len(fifo') <= Depth
      <3>1. fifo \in Seq(FifoRec) /\ Len(fifo) \in Nat /\ Len(fifo) <= Depth /\ Depth \in Nat
        BY Sizes DEF TypeOK
      <3>2. CASE Len(fifo) < Depth
        <4> DEFINE f == [slot |-> now', ts |-> IF b THEN Stamp(now') ELSE 0]
        <4>1. fifo' = Append(fifo, f) /\ now' = now + 1
          BY <1>1, <3>2 DEF Slot
        <4>2. f \in FifoRec
          BY <2>1, <4>1 DEF FifoRec
        <4> HIDE DEF f
        <4> QED BY <3>1, <3>2, <4>1, <4>2
      <3>3. CASE ~(Len(fifo) < Depth)
        BY <1>1, <3>1, <3>3 DEF Slot
      <3> QED BY <3>2, <3>3
    <2>4. UNCHANGED <<thread, sink, left>>
      BY <1>1 DEF Slot
    <2> QED BY <2>2, <2>3, <2>4 DEF TypeOK, Handed, thread, sink, left
  <1>2. ASSUME NEW b \in BOOLEAN, Stop(b) PROVE TypeOK'
    <2>1. fifo' \in Seq(FifoRec) /\ Len(fifo') <= Depth
      <3>1. fifo \in Seq(FifoRec) /\ Len(fifo) \in Nat /\ Len(fifo) <= Depth /\ Depth \in Nat
        BY Sizes DEF TypeOK
      <3>2. CASE b
        <4>1. fifo # <<>> /\ fifo' = Tail(fifo)
          BY <1>2, <3>2 DEF Stop
        <4>2. fifo' \in Seq(FifoRec) /\ Len(fifo') = Len(fifo) - 1
          BY <3>1, <4>1, HeadTailProperties
        <4> QED BY <3>1, <4>2
      <3>3. CASE ~b
        BY <1>2, <3>1, <3>3 DEF Stop
      <3> QED BY <3>2, <3>3
    <2>2. cut' \in {0, 1} /\ pc' = "join" /\ stopping' = TRUE
      BY <1>2 DEF Stop
    <2>3. UNCHANGED <<now, overflow, refused, unlocked, hw, drained, unsync, handed, runs>> /\ UNCHANGED <<sink, left>>
      BY <1>2 DEF Stop
    <2> QED BY <2>1, <2>2, <2>3 DEF TypeOK, Handed, sink, left
  <1>3. CASE Start
    <2>1. AtSnapshot \in {"status", "log"}
      BY DEF AtSnapshot
    <2>2. /\ runs' = runs + 1 /\ pc' = AtSnapshot /\ stopping' = FALSE /\ drained' = 0 /\ unsync' = 0
          /\ cut' = 0 /\ published' = 0 /\ dropped' = 0
          /\ UNCHANGED <<readout, hw, handed, queue, batch, left>>
      BY <1>3 DEF Start
    <2>3. runs' \in Nat
      BY <2>2 DEF TypeOK
    <2> QED BY <2>1, <2>2, <2>3 DEF TypeOK, Handed, readout, left
  <1>4. CASE Due
    BY <1>4 DEF Due, TypeOK, Handed, readout, sink, left
  <1>5. CASE ReadStatus
    <2>1. hw' \in Hw
      <3>1. hw' = [NoHw EXCEPT !.overflow = overflow] /\ overflow \in BOOLEAN /\ NoHw \in Hw
        BY <1>5, Sizes DEF ReadStatus, TypeOK, Hw, NoHw
      <3> QED BY <3>1 DEF Hw
    <2> QED BY <1>5, <2>1 DEF ReadStatus, TypeOK, Handed, readout, sink, left
  <1>6. CASE ReadCounts
    <2>1. Len(fifo) \in 0 .. Depth
      BY Sizes DEF TypeOK
    <2>2. hw' \in Hw
      BY <1>6, <2>1 DEF ReadCounts, TypeOK, Hw
    <2> QED BY <1>6, <2>2 DEF ReadCounts, TypeOK, Handed, readout, sink, left
  <1>7. CASE Log
    <2>1. snaps' \in Seq(Snap)
      <3> DEFINE s == [event_count |-> hw.event_count, overflow |-> hw.overflow,
                       drained |-> drained, unsync |-> unsync,
                       published |-> published, dropped |-> dropped, queued |-> Len(queue),
                       of |-> runs, refused |-> hw.refused, left |-> hw.left,
                       held |-> Len(batch), cut |-> cut]
      <3>1. Len(queue) \in Nat /\ Len(batch) \in Nat /\ hw \in Hw /\ snaps \in Seq(Snap)
        BY DEF TypeOK
      <3>2. s \in Snap
        BY <3>1 DEF TypeOK, Snap, Hw
      <3>3. snaps' = snaps \/ snaps' = Append(snaps, s)
        BY <1>7 DEF Log
      <3> HIDE DEF s
      <3> QED BY <3>1, <3>2, <3>3
    <2>2. NoHw \in Hw
      BY Sizes DEF NoHw, Hw
    <2>3. /\ pc' \in {"down", "run"} /\ hw' = NoHw
          /\ queue' = <<>> \/ queue' = queue
          /\ batch' = <<>> \/ batch' = batch
      BY <1>7 DEF Log
    <2>4. queue' \in Seq(Rec) /\ batch' \in Seq(Rec)
      <3>1. <<>> \in Seq(Rec) /\ queue \in Seq(Rec) /\ batch \in Seq(Rec)
        BY DEF TypeOK
      <3> QED BY <2>3, <3>1
    <2>5. UNCHANGED <<readout, stopping, drained, unsync, handed, runs, cut, published, dropped, rows, kept>>
      BY <1>7 DEF Log
    <2> QED BY <2>1, <2>2, <2>3, <2>4, <2>5 DEF TypeOK, Handed, readout
  <1>8. CASE Drain
    <2>1. fifo' \in Seq(FifoRec) /\ Len(fifo') <= Depth
      <3>1. Len(fifo) \in Nat /\ Len(fifo') = Len(fifo) - 1 /\ Len(fifo) <= Depth /\ fifo' \in Seq(FifoRec)
        BY <1>8, DrainParts DEF TypeOK
      <3> QED BY <3>1, Sizes
    <2>2. drained' \in Nat /\ unsync' \in Nat /\ dropped' \in Nat
      BY SMTT(30), <1>8, DrainParts DEF TypeOK
    <2>3. queue' \in Seq(Rec)
      <3>1. queue \in Seq(Rec)
        BY DEF TypeOK
      <3>2. queue # <<>> => Tail(queue) \in Seq(Rec)
        BY <3>1, HeadTailProperties
      <3>3. CASE queue' = queue
        BY <3>1, <3>3
      <3>4. CASE NewRec(Head(fifo)) \in Rec /\ queue' = Append(queue, NewRec(Head(fifo)))
        BY <3>1, <3>4
      <3>5. CASE NewRec(Head(fifo)) \in Rec /\ queue # <<>> /\ queue' = Append(Tail(queue), NewRec(Head(fifo)))
        BY <3>1, <3>2, <3>5
      <3> QED BY <1>8, <3>3, <3>4, <3>5, DrainParts
    <2>4. Handed'
      <3>1. CASE handed' = handed
        BY <3>1 DEF TypeOK, Handed
      <3>2. CASE handed' = handed \cup {Head(fifo).slot}
        <4>1. Head(fifo).slot \in Nat
          BY <1>8, DrainParts DEF FifoRec
        <4>2. IsFiniteSet(handed \cup {Head(fifo).slot})
          BY FS_AddElement DEF TypeOK, Handed
        <4> QED BY <3>2, <4>1, <4>2 DEF TypeOK, Handed
      <3> QED BY <1>8, <3>1, <3>2, DrainParts
    <2>5. UNCHANGED <<now, overflow, refused, unlocked, pc, stopping, hw, runs, cut>> /\ UNCHANGED <<batch, published, left>>
      BY <1>8 DEF Drain
    <2> QED BY <2>1, <2>2, <2>3, <2>4, <2>5 DEF TypeOK, left
  <1>9. CASE OtherReader
    <2>1. fifo' \in Seq(FifoRec) /\ Len(fifo') <= Depth
      <3>1. fifo \in Seq(FifoRec) /\ Len(fifo) \in Nat /\ Len(fifo) <= Depth /\ Depth \in Nat /\ fifo # <<>> /\ fifo' = Tail(fifo)
        BY <1>9, Sizes DEF TypeOK, OtherReader
      <3>2. fifo' \in Seq(FifoRec) /\ Len(fifo') = Len(fifo) - 1
        BY <3>1, HeadTailProperties
      <3> QED BY <3>1, <3>2
    <2> QED BY <1>9, <2>1 DEF OtherReader, TypeOK, Handed, thread, sink, left
  <1>10. CASE Joined
    <2>1. AtSnapshot \in {"status", "log"}
      BY DEF AtSnapshot
    <2> QED BY <1>10, <2>1 DEF Joined, TypeOK, Handed, readout, sink, left
  <1>11. CASE Take
    <2>1. queue' \in Seq(Rec) /\ batch' \in Seq(Rec)
      BY <1>11, TakeParts
    <2> QED BY <1>11, <2>1 DEF Take, TypeOK, Handed, readout, thread, left
  <1>12. ASSUME NEW n \in 0 .. Len(batch), Kill(n) PROVE TypeOK'
    <2>1. rows' \in Seq(Rec)
      BY <1>12, StoredType DEF Kill
    <2>2. NoHw \in Hw
      BY Sizes DEF NoHw, Hw
    <2>3. /\ pc' = "down" /\ hw' = NoHw /\ queue' = <<>> /\ batch' = <<>>
          /\ UNCHANGED <<readout, stopping, drained, unsync, handed, runs, cut, published, dropped, snaps, kept>>
      BY <1>12 DEF Kill
    <2> QED BY <2>1, <2>2, <2>3 DEF TypeOK, Handed, readout
  <1>13. ASSUME NEW n \in 0 .. Len(batch), NEW ok \in BOOLEAN, Write(ok, n) PROVE TypeOK'
    <2>1. rows' \in Seq(Rec)
      BY <1>13, StoredType DEF Write
    <2>2. Len(batch) \in Nat /\ published \in Nat /\ dropped \in Nat
      BY DEF TypeOK
    <2>3. published' \in Nat /\ dropped' \in Nat
      BY <1>13, <2>2 DEF Write
    <2>4. batch' = <<>> /\ UNCHANGED <<readout, thread, queue, snaps, kept>>
      BY <1>13 DEF Write
    <2> QED BY <2>1, <2>3, <2>4 DEF TypeOK, Handed, readout, thread
  <1>14. CASE UNCHANGED vars
    BY <1>14 DEF vars, readout, thread, sink, left, TypeOK, Handed
  <1> QED
    BY <1>1, <1>2, <1>3, <1>4, <1>5, <1>6, <1>7, <1>8, <1>9, <1>10, <1>11, <1>12, <1>13, <1>14 DEF Next

-----------------------------------------------------------------------------
(***************************************************************************)
(* Sequences in the order of their slots.                                  *)
(***************************************************************************)
LEMMA PartAscends ==
  ASSUME NEW S, NEW s \in Seq(S), Ascending(s),
         NEW m \in 1 .. Len(s) + 1, NEW n \in 0 .. Len(s)
  PROVE  /\ Ascending(SubSeq(s, m, n))
         /\ RecordsOf(SubSeq(s, m, n)) \subseteq RecordsOf(s)
  <1> DEFINE t == SubSeq(s, m, n)
  <1>1. DOMAIN t = 1 .. Len(t) /\ \A i \in 1 .. Len(t) : m + i - 1 \in DOMAIN s /\ t[i] = s[m + i - 1]
    BY SubSeqIn
  <1> HIDE DEF t
  <1>2. m \in Int
    OBVIOUS
  <1>3. ASSUME NEW i \in DOMAIN t, NEW j \in DOMAIN t, i < j PROVE t[i].slot < t[j].slot
    <2>1. m + i - 1 < m + j - 1
      BY <1>1, <1>2, <1>3
    <2> QED BY <1>1, <2>1 DEF Ascending
  <1>4. Ascending(t)
    BY <1>3 DEF Ascending
  <1>5. RecordsOf(t) \subseteq RecordsOf(s)
    BY <1>1 DEF RecordsOf
  <1> QED BY <1>4, <1>5 DEF t

LEMMA TailAscends ==
  ASSUME NEW S, NEW s \in Seq(S), Ascending(s), s # <<>>
  PROVE  /\ Ascending(Tail(s)) /\ RecordsOf(Tail(s)) \subseteq RecordsOf(s)
         /\ Head(s) \in RecordsOf(s)
         /\ \A r \in RecordsOf(Tail(s)) : Head(s).slot < r.slot
  <1>1. Len(s) \in Nat \ {0} /\ DOMAIN s = 1 .. Len(s)
    BY EmptySeq, LenProperties
  <1>2. Tail(s) = SubSeq(s, 2, Len(s))
    BY TailIsSubSeq
  <1>3. 2 \in 1 .. Len(s) + 1 /\ Len(s) \in 0 .. Len(s) /\ 1 \in DOMAIN s
    BY <1>1
  <1>4. Ascending(Tail(s)) /\ RecordsOf(Tail(s)) \subseteq RecordsOf(s)
    BY <1>2, <1>3, PartAscends
  <1>5. Head(s) = s[1] /\ Head(s) \in RecordsOf(s)
    BY <1>3 DEF RecordsOf
  <1>6. ASSUME NEW r \in RecordsOf(Tail(s)) PROVE Head(s).slot < r.slot
    <2> DEFINE t == SubSeq(s, 2, Len(s))
    <2>1. DOMAIN t = 1 .. Len(t) /\ \A i \in 1 .. Len(t) : 2 + i - 1 \in DOMAIN s /\ t[i] = s[2 + i - 1]
      BY <1>3, SubSeqIn
    <2> HIDE DEF t
    <2>2. PICK i \in DOMAIN t : r = t[i]
      BY <1>2 DEF RecordsOf, t
    <2>3. 1 < 2 + i - 1 /\ 2 + i - 1 \in DOMAIN s /\ r = s[2 + i - 1]
      BY <2>1, <2>2
    <2> QED BY <1>3, <1>5, <2>3 DEF Ascending
  <1> QED BY <1>4, <1>5, <1>6

LEMMA AppendAscends ==
  ASSUME NEW S, NEW s \in Seq(S), Ascending(s), NEW r \in S,
         \A a \in RecordsOf(s) : a.slot < r.slot
  PROVE  Ascending(Append(s, r)) /\ RecordsOf(Append(s, r)) = RecordsOf(s) \cup {r}
  <1> DEFINE t == Append(s, r)
  <1>1. Len(s) \in Nat /\ DOMAIN s = 1 .. Len(s)
    BY LenProperties
  <1>2. DOMAIN t = 1 .. Len(s) + 1 /\ (\A i \in 1 .. Len(s) : t[i] = s[i]) /\ t[Len(s) + 1] = r
    BY <1>1
  <1> HIDE DEF t
  <1>3. ASSUME NEW i \in DOMAIN t, NEW j \in DOMAIN t, i < j PROVE t[i].slot < t[j].slot
    <2>1. i \in DOMAIN s /\ t[i] = s[i]
      BY <1>1, <1>2, <1>3
    <2>2. CASE j \in DOMAIN s
      BY <1>1, <1>2, <1>3, <2>1, <2>2 DEF Ascending
    <2>3. CASE j \notin DOMAIN s
      <3>1. t[j] = r
        BY <1>1, <1>2, <2>3
      <3> QED BY <2>1, <3>1 DEF RecordsOf
    <2> QED BY <2>2, <2>3
  <1>4. RecordsOf(t) = RecordsOf(s) \cup {r}
    <2>1. ASSUME NEW a \in RecordsOf(t) PROVE a \in RecordsOf(s) \cup {r}
      BY <1>1, <1>2 DEF RecordsOf
    <2>2. ASSUME NEW a \in RecordsOf(s) PROVE a \in RecordsOf(t)
      BY <1>1, <1>2 DEF RecordsOf
    <2>3. r \in RecordsOf(t)
      <3>1. Len(s) + 1 \in DOMAIN t
        BY <1>1, <1>2
      <3> QED BY <1>2, <3>1 DEF RecordsOf
    <2> QED BY <2>1, <2>2, <2>3
  <1>5. Ascending(t)
    BY <1>3 DEF Ascending
  <1> QED BY <1>4, <1>5 DEF t

LEMMA ConcatAscends ==
  ASSUME NEW S, NEW s \in Seq(S), NEW t \in Seq(S), Ascending(s), Ascending(t), Precedes(s, t)
  PROVE  Ascending(s \o t) /\ RecordsOf(s \o t) \subseteq RecordsOf(s) \cup RecordsOf(t)
  <1> DEFINE u == s \o t
  <1>1. Len(s) \in Nat /\ DOMAIN s = 1 .. Len(s) /\ Len(t) \in Nat /\ DOMAIN t = 1 .. Len(t)
    BY LenProperties
  <1>2. u \in Seq(S) /\ Len(u) = Len(s) + Len(t)
        /\ \A i \in 1 .. Len(s) + Len(t) : u[i] = IF i <= Len(s) THEN s[i] ELSE t[i - Len(s)]
    BY ConcatProperties
  <1>3. DOMAIN u = 1 .. Len(s) + Len(t)
    BY <1>2, LenProperties
  <1> HIDE DEF u
  <1>4. ASSUME NEW i \in DOMAIN u
        PROVE  \/ i \in DOMAIN s /\ u[i] = s[i]
               \/ i > Len(s) /\ i - Len(s) \in DOMAIN t /\ u[i] = t[i - Len(s)]
    BY <1>1, <1>2, <1>3
  <1>5. ASSUME NEW i \in DOMAIN u, NEW j \in DOMAIN u, i < j PROVE u[i].slot < u[j].slot
    <2>1. CASE i \in DOMAIN s /\ j \in DOMAIN s /\ u[i] = s[i] /\ u[j] = s[j]
      BY <1>5, <2>1 DEF Ascending
    <2>2. CASE i \in DOMAIN s /\ u[i] = s[i] /\ j - Len(s) \in DOMAIN t /\ u[j] = t[j - Len(s)]
      BY <2>2 DEF Precedes, RecordsOf
    <2>3. CASE i > Len(s) /\ i - Len(s) \in DOMAIN t /\ u[i] = t[i - Len(s)]
               /\ j - Len(s) \in DOMAIN t /\ u[j] = t[j - Len(s)]
      <3>1. i - Len(s) < j - Len(s)
        BY <1>1, <1>3, <1>5
      <3> QED BY <2>3, <3>1 DEF Ascending
    <2>4. ~(i > Len(s) /\ j \in DOMAIN s)
      BY <1>1, <1>3, <1>5
    <2> QED BY <1>4, <2>1, <2>2, <2>3, <2>4
  <1>6. Ascending(u)
    BY <1>5 DEF Ascending
  <1>7. RecordsOf(u) \subseteq RecordsOf(s) \cup RecordsOf(t)
    BY <1>4 DEF RecordsOf
  <1> QED BY <1>6, <1>7 DEF u

LEMMA EmptyAscends ==
  Ascending(<<>>) /\ RecordsOf(<<>>) = {}
  BY DEF Ascending, RecordsOf
-----------------------------------------------------------------------------
(***************************************************************************)
(* The streams.                                                            *)
(***************************************************************************)
\* What the streams' invariant says when they are kept.
Streams == InOrder /\ SlotsRise /\ Chained /\ \A r \in Recs : Ahead(r)

LEMMA InitStreams == Init => StreamsInv
  <1> SUFFICES ASSUME Init PROVE StreamsInv
    OBVIOUS
  <1>1. rows = <<>> /\ batch = <<>> /\ queue = <<>> /\ fifo = <<>> /\ handed = {}
    BY DEF Init
  <1>2. InOrder /\ Recs = {}
    BY <1>1, EmptyAscends DEF InOrder, Precedes, Recs
  <1>3. SlotsRise
    BY <1>1, EmptyAscends DEF SlotsRise
  <1>4. Chained /\ \A r \in Recs : Ahead(r)
    BY <1>2 DEF Chained
  <1> QED BY <1>1, <1>2, <1>3, <1>4, InitType DEF StreamsInv

\* Records can go, and the FIFO's head too: nothing else is to show.
LEMMA FewerRecords ==
  ASSUME Streams, InOrder', SlotsRise', Recs' \subseteq Recs,
         UNCHANGED <<handed, drained, runs>>
  PROVE  Streams'
  <1>1. Chained'
    BY DEF Streams, Chained, Consistent, Within
  <1>2. (\A r \in Recs : Ahead(r))'
    <2>1. \A r \in Recs : Ahead(r)
      BY DEF Streams
    <2>2. ASSUME NEW r \in Recs' PROVE Ahead(r)'
      <3>1. Ahead(r)
        BY <2>1
      <3> QED BY <3>1 DEF Ahead, After
    <2> QED BY <2>2
  <1> QED BY <1>1, <1>2 DEF Streams

LEMMA SameOrder ==
  ASSUME InOrder, UNCHANGED <<rows, batch, queue>>
  PROVE  InOrder' /\ Recs' = Recs
  BY DEF InOrder, Recs, Ascending, Precedes, RecordsOf

LEMMA SameSlots ==
  ASSUME SlotsRise, UNCHANGED <<now, fifo, handed>>
  PROVE  SlotsRise'
  BY DEF SlotsRise, Ascending

LEMMA PopSlots ==
  ASSUME TypeOK, SlotsRise, fifo # <<>>, fifo' = Tail(fifo), UNCHANGED <<now, handed>>
  PROVE  SlotsRise'
  <1>1. fifo \in Seq(FifoRec) /\ fifo' \in Seq(FifoRec)
    BY HeadTailProperties DEF TypeOK
  <1>2. Ascending(fifo') /\ RecordsOf(fifo') \subseteq RecordsOf(fifo)
    BY <1>1, TailAscends DEF SlotsRise
  <1>3. \A i \in DOMAIN fifo' : \E j \in DOMAIN fifo : fifo'[i] = fifo[j]
    BY <1>2 DEF RecordsOf
  <1>4. Ascending(fifo)'
    BY <1>2 DEF Ascending
  <1> QED BY <1>3, <1>4 DEF SlotsRise

LEMMA SlotStreams ==
  ASSUME TypeOK, Streams, NEW b \in BOOLEAN, Slot(b)
  PROVE  Streams'
  <1>1. UNCHANGED <<thread, sink, left>> /\ now' = now + 1 /\ now \in Nat
    BY DEF Slot, TypeOK
  <1>2. InOrder' /\ Recs' = Recs /\ UNCHANGED <<handed, drained, runs>>
    <2>1. UNCHANGED <<rows, batch, queue, handed, drained, runs>>
      BY <1>1 DEF thread, sink, left
    <2> QED BY <2>1, SameOrder DEF Streams
  <1>3. SlotsRise /\ \A x \in handed : x \in Nat
    BY DEF Streams, TypeOK, Handed
  <1>4. SlotsRise'
    <2>1. CASE fifo' = fifo
      <3>1. Ascending(fifo)'
        BY <1>3, <2>1 DEF SlotsRise, Ascending
      <3>2. \A i \in DOMAIN fifo : fifo[i].slot \in Nat
        <4>1. \A i \in DOMAIN fifo : fifo[i] \in FifoRec
          BY ElementOfSeq, LenProperties DEF TypeOK
        <4> QED BY <4>1 DEF FifoRec
      <3>3. (\A i \in DOMAIN fifo : fifo[i].slot <= now + 1) /\ (\A x \in handed : x <= now + 1)
        BY <1>1, <1>3, <3>2 DEF SlotsRise
      <3> QED BY <1>1, <1>2, <1>3, <2>1, <3>1, <3>3 DEF SlotsRise
    <2>2. CASE fifo' # fifo
      <3> DEFINE f == [slot |-> now', ts |-> IF b THEN Stamp(now') ELSE 0]
      <3>1. fifo' = Append(fifo, f) /\ f.slot = now + 1
        BY <1>1, <2>2 DEF Slot
      <3> HIDE DEF f
      <3>2. fifo \in Seq(FifoRec) /\ \A i \in DOMAIN fifo : fifo[i] \in FifoRec
        BY ElementOfSeq, LenProperties DEF TypeOK
      <3>3. \A a \in RecordsOf(fifo) : a.slot \in Nat /\ a.slot <= now /\ a.slot < f.slot
        BY <1>1, <1>3, <3>1, <3>2 DEF RecordsOf, SlotsRise, FifoRec
      <3>4. fifo \in Seq(FifoRec \cup {f})
        BY <3>2, SeqMonotonic
      <3>5. Ascending(fifo') /\ RecordsOf(fifo') = RecordsOf(fifo) \cup {f}
        <4>1. f \in FifoRec \cup {f} /\ Ascending(fifo) /\ \A a \in RecordsOf(fifo) : a.slot < f.slot
          BY <1>3, <3>3 DEF SlotsRise
        <4> QED BY <3>1, <3>4, <4>1, AppendAscends
      <3>6. \A i \in DOMAIN fifo' : fifo'[i] = f \/ \E j \in DOMAIN fifo : fifo'[i] = fifo[j]
        BY <3>5 DEF RecordsOf
      <3>7. \A i \in DOMAIN fifo' : fifo'[i].slot <= now + 1
        <4>1. \A j \in DOMAIN fifo : fifo[j].slot <= now + 1
          BY <1>1, <3>3 DEF RecordsOf
        <4> QED BY <1>1, <3>1, <3>6, <4>1
      <3>8. \A x \in handed : x <= now + 1 /\ x < f.slot
        BY <1>1, <1>3, <3>1 DEF SlotsRise
      <3>9. \A x \in handed, i \in DOMAIN fifo' : x < fifo'[i].slot
        BY <1>3, <3>6, <3>8 DEF SlotsRise
      <3>10. Ascending(fifo)'
        BY <3>5 DEF Ascending
      <3> QED BY <1>1, <1>2, <3>7, <3>8, <3>9, <3>10 DEF SlotsRise
    <2> QED BY <2>1, <2>2
  <1> QED BY <1>2, <1>4, FewerRecords

LEMMA StartStreams ==
  ASSUME TypeOK, Streams, Start
  PROVE  Streams'
  <1>1. UNCHANGED <<now, fifo, handed, rows, batch, queue>> /\ runs' = runs + 1 /\ drained' = 0
    BY DEF Start, readout, left
  <1>2. InOrder' /\ Recs' = Recs /\ SlotsRise'
    BY <1>1, SameOrder, SameSlots DEF Streams
  <1>3. Chained'
    BY <1>1, <1>2 DEF Streams, Chained, Consistent, Within
  <1>4. ASSUME NEW r \in Recs PROVE Ahead(r)'
    <2>1. r \in Rec /\ Ahead(r)
      <3>1. \A q \in Recs : q \in Rec
        BY ElementOfSeq, LenProperties DEF Recs, RecordsOf, TypeOK
      <3> QED BY <3>1 DEF Streams
    <2>2. r.run \in Nat /\ r.run <= runs /\ runs \in Nat /\ r.slot \in handed
      BY <2>1 DEF Ahead, Rec, TypeOK
    <2>3. IsFiniteSet(After(r.slot))
      <3>1. After(r.slot) \in SUBSET handed
        BY DEF After
      <3> QED BY <3>1, FS_Subset DEF TypeOK, Handed
    <2>4. Cardinality(After(r.slot)) \in Nat
      BY <2>3, FS_CardinalityType
    <2>5. After(r.slot)' = After(r.slot)
      BY <1>1 DEF After
    <2>6. r.run # runs' /\ r.run <= runs' /\ 0 <= Cardinality(After(r.slot))
      BY <1>1, <2>2, <2>4
    <2> QED BY <1>1, <2>2, <2>5, <2>6 DEF Ahead
  <1>5. (\A r \in Recs : Ahead(r))'
    BY <1>2, <1>4
  <1> QED BY <1>2, <1>3, <1>5 DEF Streams

\* The writer's and the end's steps: batch and queue lose records, the rows gain some of the batch.
LEMMA StoredOrder ==
  ASSUME TypeOK, InOrder, NEW n \in 0 .. Len(batch), rows' = Stored(n), batch' = <<>>,
         queue' = queue \/ queue' = <<>>
  PROVE  InOrder' /\ Recs' \subseteq Recs
  <1> DEFINE t == SubSeq(batch, 1, n)
  <1>1. rows \in Seq(Rec) /\ batch \in Seq(Rec) /\ 1 \in 1 .. Len(batch) + 1
    BY DEF TypeOK
  <1>2. t \in Seq(Rec) /\ Ascending(t) /\ RecordsOf(t) \subseteq RecordsOf(batch)
    BY <1>1, SubSeqIn, PartAscends DEF InOrder
  <1> HIDE DEF t
  <1>3. Ascending(rows') /\ RecordsOf(rows') \subseteq RecordsOf(rows) \cup RecordsOf(batch)
    <2>1. CASE rows' = rows
      BY <2>1 DEF InOrder
    <2>2. CASE rows' = rows \o t
      <3>1. Precedes(rows, t)
        BY <1>2 DEF Precedes, InOrder
      <3>2. Ascending(rows \o t) /\ RecordsOf(rows \o t) \subseteq RecordsOf(rows) \cup RecordsOf(t)
        BY <1>1, <1>2, <3>1, ConcatAscends DEF InOrder
      <3> QED BY <1>2, <2>2, <3>2
    <2> QED BY <2>1, <2>2 DEF Stored, t
  <1>4. Ascending(queue') /\ RecordsOf(queue') \subseteq RecordsOf(queue)
    BY EmptyAscends DEF InOrder
  <1>5. Ascending(batch') /\ RecordsOf(batch') = {}
    BY EmptyAscends
  <1>6. Precedes(rows', queue') /\ Precedes(rows', batch') /\ Precedes(batch', queue')
    BY <1>3, <1>4, <1>5 DEF Precedes, InOrder
  <1>7. InOrder'
    BY <1>3, <1>4, <1>5, <1>6 DEF InOrder, Ascending, Precedes, RecordsOf
  <1>8. Recs' \subseteq Recs
    <2>1. Recs' = RecordsOf(rows') \cup RecordsOf(batch') \cup RecordsOf(queue')
      BY DEF Recs, RecordsOf
    <2> QED BY <1>3, <1>4, <1>5, <2>1 DEF Recs
  <1> QED BY <1>7, <1>8

LEMMA TakeStreams ==
  ASSUME TypeOK, Streams, Take
  PROVE  Streams'
  <1>1. PICK m \in 1 .. Len(queue) :
           /\ batch' = SubSeq(queue, 1, m) /\ Len(batch') = m
           /\ queue' = SubSeq(queue, m + 1, Len(queue)) /\ Len(queue') = Len(queue) - m
           /\ batch' \in Seq(Rec) /\ queue' \in Seq(Rec)
    BY TakeParts
  <1>2. UNCHANGED <<now, fifo, handed, drained, runs, rows>>
    BY DEF Take, readout, thread, left
  <1>3. queue \in Seq(Rec) /\ Len(queue) \in Nat /\ 1 \in 1 .. Len(queue) + 1 /\ m \in 0 .. Len(queue)
        /\ m + 1 \in 1 .. Len(queue) + 1 /\ Len(queue) \in 0 .. Len(queue)
    BY <1>1 DEF TypeOK
  <1>4. InOrder /\ SlotsRise
    BY DEF Streams
  <1>5. Ascending(batch') /\ RecordsOf(batch') \subseteq RecordsOf(queue)
    BY <1>1, <1>3, <1>4, PartAscends DEF InOrder
  <1>6. Ascending(queue') /\ RecordsOf(queue') \subseteq RecordsOf(queue)
    BY <1>1, <1>3, <1>4, PartAscends DEF InOrder
  <1>7. Precedes(batch', queue')
    <2>1. DOMAIN batch' = 1 .. Len(batch') /\ DOMAIN queue' = 1 .. Len(queue')
      BY <1>1, LenProperties
    <2>2. \A i \in 1 .. Len(batch') : 1 + i - 1 \in DOMAIN queue /\ batch'[i] = queue[1 + i - 1]
      BY <1>1, <1>3, SubSeqIn
    <2>3. \A i \in 1 .. Len(queue') : (m + 1) + i - 1 \in DOMAIN queue /\ queue'[i] = queue[(m + 1) + i - 1]
      BY <1>1, <1>3, SubSeqIn
    <2>4. ASSUME NEW i \in DOMAIN batch', NEW j \in DOMAIN queue' PROVE batch'[i].slot < queue'[j].slot
      <3>1. 1 + i - 1 < (m + 1) + j - 1 /\ 1 + i - 1 \in DOMAIN queue /\ (m + 1) + j - 1 \in DOMAIN queue
        BY SMTT(30), <1>1, <1>3, <2>1, <2>2, <2>3
      <3> QED BY <1>4, <2>1, <2>2, <2>3, <3>1 DEF InOrder, Ascending
    <2> QED BY <2>4 DEF Precedes, RecordsOf
  <1>8. Precedes(rows, batch') /\ Precedes(rows, queue')
    BY <1>4, <1>5, <1>6 DEF InOrder, Precedes
  <1>9. InOrder'
    BY <1>2, <1>4, <1>5, <1>6, <1>7, <1>8 DEF InOrder, Ascending, Precedes, RecordsOf
  <1>10. Recs' \subseteq Recs
    <2>1. Recs' = RecordsOf(rows) \cup RecordsOf(batch') \cup RecordsOf(queue')
      BY <1>2 DEF Recs, RecordsOf
    <2> QED BY <1>5, <1>6, <2>1 DEF Recs
  <1> QED BY <1>2, <1>4, <1>9, <1>10, FewerRecords, SameSlots

LEMMA LogStreams ==
  ASSUME TypeOK, Streams, Log
  PROVE  Streams'
  <1>1. /\ UNCHANGED <<now, fifo, handed, drained, runs, rows>>
        /\ queue' = <<>> \/ queue' = queue
        /\ batch' = <<>> \/ batch' = batch
    BY DEF Log, readout
  <1>2. InOrder /\ SlotsRise
    BY DEF Streams
  <1>3. /\ Ascending(batch') /\ RecordsOf(batch') \subseteq RecordsOf(batch)
        /\ Ascending(queue') /\ RecordsOf(queue') \subseteq RecordsOf(queue)
    BY <1>1, <1>2, EmptyAscends DEF InOrder
  <1>4. Precedes(rows, batch') /\ Precedes(rows, queue') /\ Precedes(batch', queue')
    BY <1>2, <1>3 DEF InOrder, Precedes
  <1>5. InOrder'
    BY <1>1, <1>2, <1>3, <1>4 DEF InOrder, Ascending, Precedes, RecordsOf
  <1>6. Recs' \subseteq Recs
    <2>1. Recs' = RecordsOf(rows) \cup RecordsOf(batch') \cup RecordsOf(queue')
      BY <1>1 DEF Recs, RecordsOf
    <2> QED BY <1>3, <2>1 DEF Recs
  <1> QED BY <1>1, <1>2, <1>5, <1>6, FewerRecords, SameSlots

\* A record joins the queue, perhaps in place of the oldest there.
LEMMA DrainOrder ==
  ASSUME TypeOK, InOrder, NEW r \in Rec, \A a \in Recs : a.slot < r.slot,
         UNCHANGED <<rows, batch>>,
         queue' = Append(queue, r) \/ (queue # <<>> /\ queue' = Append(Tail(queue), r))
  PROVE  InOrder' /\ Recs' \subseteq Recs \cup {r}
  <1>1. queue \in Seq(Rec)
    BY DEF TypeOK
  <1>2. Ascending(queue') /\ RecordsOf(queue') \subseteq RecordsOf(queue) \cup {r}
    <2>1. \A a \in RecordsOf(queue) : a.slot < r.slot
      BY DEF Recs
    <2>2. CASE queue' = Append(queue, r)
      BY <1>1, <2>1, <2>2, AppendAscends DEF InOrder
    <2>3. CASE queue # <<>> /\ queue' = Append(Tail(queue), r)
      <3>1. Tail(queue) \in Seq(Rec)
        BY <1>1, <2>3, HeadTailProperties
      <3>2. Ascending(Tail(queue)) /\ RecordsOf(Tail(queue)) \subseteq RecordsOf(queue)
        BY <1>1, <2>3, TailAscends DEF InOrder
      <3>3. \A a \in RecordsOf(Tail(queue)) : a.slot < r.slot
        BY <2>1, <3>2
      <3> DEFINE t == Tail(queue)
      <3>4. Ascending(Append(t, r)) /\ RecordsOf(Append(t, r)) = RecordsOf(t) \cup {r}
        <4>1. t \in Seq(Rec) /\ Ascending(t) /\ \A a \in RecordsOf(t) : a.slot < r.slot
          BY <3>1, <3>2, <3>3
        <4> HIDE DEF t
        <4> QED BY <4>1, AppendAscends
      <3> QED BY <2>3, <3>2, <3>4
    <2> QED BY <2>2, <2>3
  <1>3. Precedes(rows, queue') /\ Precedes(batch, queue')
    BY <1>2 DEF InOrder, Precedes, Recs
  <1>4. InOrder'
    BY <1>2, <1>3 DEF InOrder, Ascending, Precedes, RecordsOf
  <1>5. Recs' \subseteq Recs \cup {r}
    <2>1. Recs' = RecordsOf(rows) \cup RecordsOf(batch) \cup RecordsOf(queue')
      BY DEF Recs, RecordsOf
    <2> QED BY <1>2, <2>1 DEF Recs
  <1> QED BY <1>4, <1>5

LEMMA DrainStreams ==
  ASSUME TypeOK, Streams, kept = "streams", Drain
  PROVE  Streams'
  <1>1. UNCHANGED <<now, runs, rows, batch>>
    BY DEF Drain, left
  <1>2. fifo \in Seq(FifoRec) /\ fifo # <<>> /\ fifo' = Tail(fifo) /\ Head(fifo).slot \in Nat
    BY DrainParts DEF TypeOK, FifoRec
  <1>3. InOrder /\ SlotsRise /\ Chained
    BY DEF Streams
  <1>4. CASE UNCHANGED <<drained, handed, queue, dropped>>
    <2>1. SlotsRise' /\ InOrder' /\ Recs' = Recs
      BY <1>1, <1>2, <1>3, <1>4, PopSlots, SameOrder
    <2> QED BY <1>1, <1>4, <2>1, FewerRecords
  <1>5. CASE /\ NewRec(Head(fifo)) \in Rec
             /\ drained' = drained + 1
             /\ handed' = IF kept = "streams" THEN handed \cup {Head(fifo).slot} ELSE handed
             /\ \/ queue' = Append(queue, NewRec(Head(fifo)))
                \/ queue # <<>> /\ queue' = Append(Tail(queue), NewRec(Head(fifo)))
    <2>0. PICK r \in Rec : r = NewRec(Head(fifo))
      BY <1>5
    <2> DEFINE x == r.slot
    <2>1. x = Head(fifo).slot /\ x \in Nat /\ r.count = drained + 1 /\ r.run = runs /\ handed' = handed \cup {x}
      BY <1>2, <1>5, <2>0 DEF NewRec
    <2>2. Ascending(fifo') /\ RecordsOf(fifo') \subseteq RecordsOf(fifo) /\ Head(fifo) \in RecordsOf(fifo)
          /\ \A a \in RecordsOf(fifo') : x < a.slot
      BY <1>2, <1>3, <2>1, TailAscends DEF SlotsRise
    <2>3. \A h \in handed : h < x /\ h \in Nat
      <3>1. \A h \in handed : h \in Nat
        BY DEF TypeOK, Handed
      <3>2. PICK i \in DOMAIN fifo : Head(fifo) = fifo[i]
        BY <2>2 DEF RecordsOf
      <3> QED BY <1>3, <2>1, <3>1, <3>2 DEF SlotsRise
    <2>4. \A a \in Recs : a \in Rec /\ Ahead(a)
      <3>1. \A q \in Recs : q \in Rec
        BY ElementOfSeq, LenProperties DEF Recs, RecordsOf, TypeOK
      <3> QED BY <3>1 DEF Streams
    <2>5. \A a \in Recs : a.slot \in handed /\ a.slot \in Nat /\ a.slot < x /\ a.run \in Nat /\ a.run <= runs /\ a.count \in Nat
      BY <2>3, <2>4 DEF Ahead, Rec
    <2>6. InOrder' /\ Recs' \subseteq Recs \cup {r}
      <3>1. \A a \in Recs : a.slot < r.slot
        BY <2>1, <2>5
      <3>2. queue' = Append(queue, r) \/ (queue # <<>> /\ queue' = Append(Tail(queue), r))
        BY <1>5, <2>0
      <3> QED BY <1>1, <1>3, <2>1, <3>1, <3>2, DrainOrder
    <2>7. SlotsRise'
      <3>1. \A i \in DOMAIN fifo' : fifo'[i] \in RecordsOf(fifo') /\ \E j \in DOMAIN fifo : fifo'[i] = fifo[j]
        BY <2>2 DEF RecordsOf
      <3>2. x <= now
        <4>1. PICK i \in DOMAIN fifo : Head(fifo) = fifo[i]
          BY <2>2 DEF RecordsOf
        <4> QED BY <1>3, <2>1, <4>1 DEF SlotsRise
      <3>3. \A h \in handed', i \in DOMAIN fifo' : h < fifo'[i].slot
        BY <1>3, <2>1, <2>2, <3>1 DEF SlotsRise
      <3>4. \A h \in handed' : h <= now
        BY <1>3, <2>1, <3>2 DEF SlotsRise
      <3>5. \A i \in DOMAIN fifo' : fifo'[i].slot <= now
        BY <1>3, <3>1 DEF SlotsRise
      <3>6. Ascending(fifo)'
        BY <2>2 DEF Ascending
      <3> QED BY <1>1, <3>3, <3>4, <3>5, <3>6 DEF SlotsRise
    <2>8. ASSUME NEW a \in Recs
          PROVE  /\ IsFiniteSet(After(a.slot)) /\ Cardinality(After(a.slot)) \in Nat
                 /\ After(a.slot)' = After(a.slot) \cup {x}
                 /\ Cardinality(After(a.slot)') = Cardinality(After(a.slot)) + 1
                 /\ Within(a.slot, x)' = After(a.slot)'
      <3>1. After(a.slot) \in SUBSET handed
        BY DEF After
      <3>2. IsFiniteSet(After(a.slot))
        BY <3>1, FS_Subset DEF TypeOK, Handed
      <3>3. Cardinality(After(a.slot)) \in Nat
        BY <3>2, FS_CardinalityType
      <3>4. After(a.slot)' = After(a.slot) \cup {x} /\ x \notin After(a.slot)
        <4>1. x \notin handed
          BY <2>1, <2>3
        <4> QED BY <2>1, <2>5, <4>1 DEF After
      <3>5. Cardinality(After(a.slot)') = Cardinality(After(a.slot)) + 1
        BY <3>2, <3>4, FS_AddElement
      <3>6. \A h \in handed' : h <= x
        BY <2>1, <2>3
      <3>7. Within(a.slot, x)' = After(a.slot)'
        BY <3>6 DEF Within, After
      <3> QED BY <3>2, <3>3, <3>4, <3>5, <3>7
    <2>9. ASSUME NEW a \in Recs PROVE Consistent(a, r)'
      <3>1. Consistent(a, r)' <=>
              /\ a.run <= r.run
              /\ a.run = r.run => r.count = a.count + Cardinality(After(a.slot)')
              /\ a.run # r.run => r.count <= Cardinality(After(a.slot)')
        BY <2>1, <2>8 DEF Consistent
      <3>2. /\ a.run = runs => drained = a.count + Cardinality(After(a.slot))
            /\ a.run # runs => drained <= Cardinality(After(a.slot))
        BY <2>4 DEF Ahead
      <3>3. /\ a.run <= r.run
            /\ a.run = r.run => r.count = a.count + (Cardinality(After(a.slot)) + 1)
            /\ a.run # r.run => r.count <= Cardinality(After(a.slot)) + 1
        <4>1. drained \in Nat /\ runs \in Nat
          BY DEF TypeOK
        <4> QED BY <2>1, <2>5, <2>8, <3>2, <4>1
      <3> QED BY <2>8, <3>1, <3>3
    <2>10. ASSUME NEW a \in Recs, NEW b \in Recs, a.slot < b.slot PROVE Consistent(a, b)'
      <3>1. Within(a.slot, b.slot)' = Within(a.slot, b.slot)
        <4>1. ~(x <= b.slot)
          BY <2>1, <2>5
        <4> QED BY <2>1, <4>1 DEF Within
      <3>2. Consistent(a, b)
        BY <1>3, <2>10 DEF Chained
      <3> QED BY <3>1, <3>2 DEF Consistent
    <2>11. Chained'
      <3> SUFFICES ASSUME NEW a \in Recs', NEW b \in Recs', a.slot < b.slot PROVE Consistent(a, b)'
        BY DEF Chained
      <3>1. a # r
        <4> SUFFICES ASSUME a = r PROVE FALSE
          OBVIOUS
        <4>1. b \in Recs \/ b = r
          BY <2>6
        <4>2. x < b.slot /\ (b \in Recs => b.slot < x) /\ x \in Nat
          BY <2>1, <2>5
        <4> QED BY <2>1, <2>5, <4>1, <4>2
      <3> QED BY <2>6, <2>9, <2>10, <3>1
    <2>12. Ahead(r)'
      <3>1. After(x)' = {}
        BY <2>1, <2>3 DEF After
      <3>2. Cardinality(After(x)') = 0
        BY <3>1, FS_EmptySet
      <3>3. drained \in Nat /\ runs \in Nat
        BY DEF TypeOK
      <3>4. drained' = r.count + Cardinality(After(r.slot)')
        BY <1>5, <2>1, <3>2, <3>3
      <3>5. r.slot \in handed' /\ r.run <= runs' /\ r.run = runs'
        BY <1>1, <2>1, <3>3
      <3> QED BY <3>4, <3>5 DEF Ahead
    <2>13. ASSUME NEW a \in Recs PROVE Ahead(a)'
      <3>1. /\ a.run = runs => drained = a.count + Cardinality(After(a.slot))
            /\ a.run # runs => drained <= Cardinality(After(a.slot))
        BY <2>4 DEF Ahead
      <3>2. drained \in Nat /\ drained' = drained + 1 /\ runs' = runs
        BY <1>1, <1>5 DEF TypeOK
      <3>3. /\ a.run = runs' => drained' = a.count + Cardinality(After(a.slot)')
            /\ a.run # runs' => drained' <= Cardinality(After(a.slot)')
        BY <2>5, <2>8, <3>1, <3>2
      <3>4. a.slot \in handed' /\ a.run <= runs'
        BY <2>1, <2>5, <3>2
      <3> QED BY <3>3, <3>4 DEF Ahead
    <2>14. (\A a \in Recs : Ahead(a))'
      BY <2>6, <2>12, <2>13
    <2> QED BY <2>6, <2>7, <2>11, <2>14 DEF Streams
  <1> QED BY <1>4, <1>5, DrainParts

LEMMA StreamsStep ==
  ASSUME StreamsInv, [Next]_vars
  PROVE  StreamsInv'
  <1>1. TypeOK /\ TypeOK'
    BY TypeStep DEF StreamsInv
  <1>2. kept' = kept
    BY DEF Next, Slot, Stop, Start, Due, ReadStatus, ReadCounts, Log, Drain, OtherReader, Joined, Take, Kill, Write, left, vars
  <1>3. ASSUME kept = "log" PROVE rows' = rows
    BY <1>3 DEF Next, Slot, Stop, Start, Due, ReadStatus, ReadCounts, Log, Drain, OtherReader, Joined, Take, Kill, Write,
                left, vars, Stored
  <1>4. ASSUME kept = "streams" PROVE Streams'
    <2>1. Streams
      BY <1>4 DEF StreamsInv, Streams
    <2>2. InOrder /\ SlotsRise
      BY <2>1 DEF Streams
    <2>3. ASSUME NEW b \in BOOLEAN, Slot(b) PROVE Streams'
      BY <1>1, <2>1, <2>3, SlotStreams
    <2>4. ASSUME NEW b \in BOOLEAN, Stop(b) PROVE Streams'
      <3>1. UNCHANGED <<now, handed, drained, runs, rows, batch, queue>>
        BY <2>4 DEF Stop, sink, left
      <3>2. fifo' = fifo \/ (fifo # <<>> /\ fifo' = Tail(fifo))
        BY <2>4 DEF Stop
      <3>3. SlotsRise' /\ InOrder' /\ Recs' = Recs
        BY <1>1, <2>2, <3>1, <3>2, PopSlots, SameSlots, SameOrder
      <3> QED BY <2>1, <3>1, <3>3, FewerRecords
    <2>5. CASE Due \/ ReadStatus \/ ReadCounts \/ Joined \/ UNCHANGED vars
      <3>1. UNCHANGED <<now, fifo, handed, drained, runs, rows, batch, queue>>
        BY <2>5 DEF Due, ReadStatus, ReadCounts, Joined, vars, readout, thread, sink, left
      <3>2. SlotsRise' /\ InOrder' /\ Recs' = Recs
        BY <2>2, <3>1, SameSlots, SameOrder
      <3> QED BY <2>1, <3>1, <3>2, FewerRecords
    <2>6. CASE OtherReader
      <3>1. UNCHANGED <<now, handed, drained, runs, rows, batch, queue>> /\ fifo # <<>> /\ fifo' = Tail(fifo)
        BY <2>6 DEF OtherReader, thread, sink, left
      <3>2. SlotsRise' /\ InOrder' /\ Recs' = Recs
        BY <1>1, <2>2, <3>1, PopSlots, SameOrder
      <3> QED BY <2>1, <3>1, <3>2, FewerRecords
    <2>7. ASSUME NEW n \in 0 .. Len(batch), Kill(n) PROVE Streams'
      <3>1. UNCHANGED <<now, fifo, handed, drained, runs>> /\ rows' = Stored(n) /\ batch' = <<>> /\ queue' = <<>>
        BY <2>7 DEF Kill, readout
      <3>2. SlotsRise' /\ InOrder' /\ Recs' \subseteq Recs
        BY <1>1, <2>2, <3>1, SameSlots, StoredOrder
      <3> QED BY <2>1, <3>1, <3>2, FewerRecords
    <2>8. ASSUME NEW n \in 0 .. Len(batch), NEW ok \in BOOLEAN, Write(ok, n) PROVE Streams'
      <3>1. UNCHANGED <<now, fifo, handed, drained, runs>> /\ rows' = Stored(n) /\ batch' = <<>> /\ queue' = queue
        BY <2>8 DEF Write, readout, thread
      <3>2. SlotsRise' /\ InOrder' /\ Recs' \subseteq Recs
        BY <1>1, <2>2, <3>1, SameSlots, StoredOrder
      <3> QED BY <2>1, <3>1, <3>2, FewerRecords
    <2> QED
      BY <1>1, <1>4, <2>1, <2>3, <2>4, <2>5, <2>6, <2>7, <2>8, StartStreams, LogStreams, DrainStreams, TakeStreams
      DEF Next
  <1>5. kept = "log" => rows = <<>>
    BY DEF StreamsInv
  <1> QED BY <1>1, <1>2, <1>3, <1>4, <1>5 DEF StreamsInv, Streams

\* What the invariant says of every end of the counter stream.
LEMMA EndIsNumbered ==
  ASSUME StreamsInv, NEW k \in DOMAIN rows
  PROVE  Numbered(SubSeq(rows, k, Len(rows))) /\ SubSeq(rows, k, Len(rows)) # <<>>
  <1> DEFINE s == SubSeq(rows, k, Len(rows))
  <1>1. rows \in Seq(Rec) /\ Len(rows) \in Nat /\ DOMAIN rows = 1 .. Len(rows)
    BY LenProperties DEF StreamsInv, TypeOK
  <1>2. k \in 1 .. Len(rows) + 1 /\ Len(rows) \in 0 .. Len(rows) /\ k <= Len(rows)
    BY <1>1
  <1>3. kept = "streams"
    BY <1>1, <1>2 DEF StreamsInv, TypeOK, Kept
  <1>4. Ascending(rows) /\ Chained /\ \A r \in Recs : Ahead(r)
    BY <1>3 DEF StreamsInv, InOrder
  <1>5. s \in Seq(Rec) /\ Len(s) = Len(rows) - k + 1 /\ DOMAIN s = 1 .. Len(s)
    BY <1>1, <1>2, SubSeqIn
  <1>6. Ascending(s) /\ RecordsOf(s) \subseteq RecordsOf(rows)
    BY <1>1, <1>2, <1>4, PartAscends
  <1> HIDE DEF s
  <1>7. \A i \in DOMAIN s : s[i] \in Recs
    BY <1>6 DEF Recs, RecordsOf
  <1>8. \A i \in DOMAIN s : s[i].slot \in handed
    BY <1>4, <1>7 DEF Ahead
  <1>9. ASSUME NEW i \in DOMAIN s, NEW j \in DOMAIN s, i < j PROVE Consistent(s[i], s[j])
    BY <1>4, <1>6, <1>7, <1>9 DEF Ascending, Chained
  <1>10. s # <<>>
    <2>1. Len(s) # 0
      BY <1>1, <1>2, <1>5
    <2> QED BY <2>1
  <1> QED BY <1>5, <1>6, <1>8, <1>9, <1>10 DEF Numbered, s

LEMMA LossCheckFollows == StreamsInv => LossCheckIsSound
  <1> SUFFICES ASSUME StreamsInv, NEW k \in DOMAIN rows
      PROVE  Told(SubSeq(rows, k, Len(rows)))
    BY DEF LossCheckIsSound, LossCheckTells, Told
  <1>1. Handed
    BY DEF StreamsInv, TypeOK
  <1> QED BY <1>1, EndIsNumbered, LossCheckRight

\* Records that are stored, taken and queued stay in the order of their slots and
\* keep the numbers that the events handed over between them call for, whatever
\* is dropped, killed or started again (redis_sink.py, verify_no_loss.py).
THEOREM StreamsInvariance == Spec => []StreamsInv
  <1> QED BY InitStreams, StreamsStep, PTL DEF Spec

\* What verify_no_loss.py counts as lost was lost, and within a run nothing else
\* was; what it calls a restart was one (verify_no_loss.py:34-57).
THEOREM LossCheckSound == Spec => []LossCheckIsSound
  <1> QED BY StreamsInvariance, LossCheckFollows, PTL

-----------------------------------------------------------------------------
(***************************************************************************)
(* The log.                                                                *)
(***************************************************************************)
Book == SnapsKept /\ SnapsRise /\ FirstAtStart /\ Account

LEMMA InitBook == Init => LogInv
  <1> SUFFICES ASSUME Init PROVE LogInv
    OBVIOUS
  <1>1. snaps = <<>> /\ pc = "down" /\ queue = <<>> /\ batch = <<>>
    BY DEF Init
  <1> QED BY <1>1, InitType DEF LogInv, SnapsKept, SnapsRise, FirstAtStart, Account

LEMMA Numbers ==
  ASSUME TypeOK
  PROVE  /\ now \in Nat /\ refused \in Nat /\ drained \in Nat /\ unsync \in Nat /\ runs \in Nat
         /\ cut \in Nat /\ Len(fifo) \in Nat /\ Len(queue) \in Nat /\ Len(batch) \in Nat
         /\ published \in Nat /\ dropped \in Nat /\ Before \in Int
         /\ hw.event_count \in Nat /\ hw.refused \in Nat /\ hw.left \in 0 .. Depth /\ hw.left \in Nat
  <1>1. fifo \in Seq(FifoRec) /\ queue \in Seq(Rec) /\ batch \in Seq(Rec)
    BY DEF TypeOK
  <1>2. Len(fifo) \in Nat /\ Len(queue) \in Nat /\ Len(batch) \in Nat
    BY <1>1
  <1>3. cut \in Nat /\ now \in Nat /\ refused \in Nat /\ drained \in Nat /\ unsync \in Nat /\ runs \in Nat
        /\ published \in Nat /\ dropped \in Nat
    BY DEF TypeOK
  <1>4. hw.event_count \in Nat /\ hw.refused \in Nat /\ hw.left \in 0 .. Depth /\ hw.left \in Nat
    BY Sizes DEF TypeOK, Hw
  <1>5. Before \in Int
    BY <1>2, <1>3 DEF Before
  <1> QED BY <1>2, <1>3, <1>4, <1>5

LEMMA SnapNumbers ==
  ASSUME TypeOK, NEW i \in DOMAIN snaps
  PROVE  /\ snaps[i] \in Snap
         /\ snaps[i].event_count \in Nat /\ snaps[i].drained \in Nat /\ snaps[i].unsync \in Nat
         /\ snaps[i].published \in Nat /\ snaps[i].dropped \in Nat /\ snaps[i].queued \in Nat
         /\ snaps[i].of \in Nat /\ snaps[i].refused \in Nat /\ snaps[i].left \in 0 .. Depth
         /\ snaps[i].held \in Nat /\ snaps[i].cut \in {0, 1} /\ BeforeOf(snaps[i]) \in Int
  <1>1. snaps[i] \in Snap
    BY ElementOfSeq, LenProperties DEF TypeOK
  <1>2. snaps[i].left \in Int /\ snaps[i].cut \in Int
    BY <1>1, Sizes DEF Snap
  <1> QED BY <1>1, <1>2 DEF Snap, BeforeOf

LEMMA KeepSnaps ==
  ASSUME TypeOK, TypeOK', SnapsKept, SnapsRise, UNCHANGED <<snaps, runs>>,
         now <= now', refused <= refused',
         pc' # "down" => pc # "down" /\ Before' = Before /\ drained <= drained',
         pc' = "log" => (pc = "log" /\ hw' = hw) \/ (hw'.event_count = now /\ hw'.refused = refused)
  PROVE  SnapsKept' /\ SnapsRise'
  <1>1. SnapsRise'
    BY DEF SnapsRise, BeforeOf
  <1>2. now \in Nat /\ now' \in Nat /\ refused \in Nat /\ refused' \in Nat /\ drained \in Nat /\ drained' \in Nat
    BY DEF TypeOK
  <1>3. ASSUME NEW i \in DOMAIN snaps
        PROVE  LET s == snaps[i]
               IN  /\ s.of <= runs
                   /\ s.event_count <= now' /\ s.refused <= refused'
                   /\ pc' = "log" => s.event_count <= hw'.event_count /\ s.refused <= hw'.refused
                   /\ s.of = runs /\ pc' # "down" => BeforeOf(s) = Before' /\ s.drained <= drained'
                   /\ s.drained = s.published + s.dropped + s.queued + s.held
                   /\ (\A k \in 1 .. i - 1 : snaps[k].of # s.of) => s.drained = 0 /\ s.unsync = 0 /\ s.cut = 0
    <2> DEFINE s == snaps[i]
    <2>1. s.event_count \in Nat /\ s.refused \in Nat /\ s.drained \in Nat
      BY SnapNumbers
    <2>2. /\ s.of <= runs
          /\ s.event_count <= now /\ s.refused <= refused
          /\ pc = "log" => s.event_count <= hw.event_count /\ s.refused <= hw.refused
          /\ s.of = runs /\ pc # "down" => BeforeOf(s) = Before /\ s.drained <= drained
          /\ s.drained = s.published + s.dropped + s.queued + s.held
          /\ (\A k \in 1 .. i - 1 : snaps[k].of # s.of) => s.drained = 0 /\ s.unsync = 0 /\ s.cut = 0
      BY DEF SnapsKept
    <2> HIDE DEF s
    <2>3. s.event_count <= now' /\ s.refused <= refused'
      BY <1>2, <2>1, <2>2
    <2>4. pc' = "log" => s.event_count <= hw'.event_count /\ s.refused <= hw'.refused
      BY <2>2
    <2>5. s.of = runs /\ pc' # "down" => BeforeOf(s) = Before' /\ s.drained <= drained'
      BY <1>2, <2>1, <2>2
    <2> QED BY <2>2, <2>3, <2>4, <2>5 DEF s
  <1>4. SnapsKept'
    BY <1>3 DEF SnapsKept, BeforeOf
  <1> QED BY <1>1, <1>4

\* A run that has gone on, or been stopped, has its first snapshot.
LEMMA HasSnapshot ==
  ASSUME FirstAtStart, pc = "run" \/ pc = "join" \/ (pc # "down" /\ stopping)
  PROVE  \E i \in DOMAIN snaps : snaps[i].of = runs
  BY DEF FirstAtStart

LEMMA SlotBook ==
  ASSUME TypeOK, TypeOK', Book, NEW b \in BOOLEAN, Slot(b)
  PROVE  Book'
  <1>0. /\ now \in Nat /\ refused \in Nat /\ drained \in Nat /\ unsync \in Nat /\ runs \in Nat
        /\ cut \in Nat /\ Len(fifo) \in Nat /\ Len(queue) \in Nat /\ Len(batch) \in Nat
        /\ published \in Nat /\ dropped \in Nat /\ Before \in Int
        /\ hw.event_count \in Nat /\ hw.refused \in Nat /\ hw.left \in Nat
    BY Numbers
  <1>1. UNCHANGED <<pc, stopping, hw, drained, unsync, runs, cut, queue, batch, published, dropped, snaps>> /\ now' = now + 1
    BY DEF Slot, thread, sink, left
  <1>2. (Len(fifo') = Len(fifo) + 1 /\ refused' = refused) \/ (fifo' = fifo /\ refused' = refused + 1)
    <2>1. CASE Len(fifo) < Depth
      <3> DEFINE f == [slot |-> now', ts |-> IF b THEN Stamp(now') ELSE 0]
      <3>1. fifo' = Append(fifo, f) /\ refused' = refused
        BY <2>1 DEF Slot
      <3>2. fifo \in Seq(FifoRec \cup {f})
        <4>1. fifo \in Seq(FifoRec)
          BY DEF TypeOK
        <4> HIDE DEF f
        <4> QED BY <4>1, SeqMonotonic
      <3> HIDE DEF f
      <3>3. Len(Append(fifo, f)) = Len(fifo) + 1
        BY <3>2, AppendProperties
      <3> QED BY <3>1, <3>3
    <2>2. CASE ~(Len(fifo) < Depth)
      BY <2>2 DEF Slot
    <2> QED BY <2>1, <2>2
  <1>3. Before' = Before /\ now <= now' /\ refused <= refused'
    <2>1. CASE Len(fifo') = Len(fifo) + 1 /\ refused' = refused
      BY <1>0, <1>1, <2>1 DEF Before
    <2>2. CASE Len(fifo') = Len(fifo) /\ refused' = refused + 1
      BY <1>0, <1>1, <2>2 DEF Before
    <2> QED BY <1>2, <2>1, <2>2
  <1>4. drained <= drained'
    BY <1>1, <1>0
  <1>5. SnapsKept' /\ SnapsRise'
    BY <1>1, <1>3, <1>4, KeepSnaps DEF Book
  <1>6. FirstAtStart'
    BY <1>1 DEF Book, FirstAtStart
  <1>7. Account'
    <2>1. now' \in Nat /\ refused' \in Nat /\ hw.event_count \in Nat /\ hw.refused \in Nat /\ now \in Nat /\ refused \in Nat
      BY <1>0 DEF TypeOK
    <2>2. hw.event_count <= now => hw.event_count <= now'
      BY <1>3, <2>1
    <2>3. hw.refused <= refused => hw.refused <= refused'
      BY <1>3, <2>1
    <2> QED BY <1>1, <1>3, <2>2, <2>3 DEF Book, Account
  <1> QED BY <1>5, <1>6, <1>7 DEF Book

LEMMA StopBook ==
  ASSUME TypeOK, TypeOK', Book, NEW b \in BOOLEAN, Stop(b)
  PROVE  Book'
  <1>0. /\ now \in Nat /\ refused \in Nat /\ drained \in Nat /\ unsync \in Nat /\ runs \in Nat
        /\ cut \in Nat /\ Len(fifo) \in Nat /\ Len(queue) \in Nat /\ Len(batch) \in Nat
        /\ published \in Nat /\ dropped \in Nat /\ Before \in Int
        /\ hw.event_count \in Nat /\ hw.refused \in Nat /\ hw.left \in Nat
    BY Numbers
  <1>1. UNCHANGED <<now, refused, hw, drained, unsync, runs, queue, batch, published, dropped, snaps>>
        /\ pc = "run" /\ pc' = "join" /\ cut = 0 /\ stopping' = TRUE
    BY DEF Stop, sink, left, Book, Account
  <1>2. (fifo' = fifo /\ cut' = 0) \/ (Len(fifo') = Len(fifo) - 1 /\ cut' = 1)
    <2>1. CASE b
      <3>1. fifo \in Seq(FifoRec) /\ fifo # <<>> /\ fifo' = Tail(fifo) /\ cut' = 1
        BY <2>1 DEF Stop, TypeOK
      <3> QED BY <3>1, HeadTailProperties
    <2>2. CASE ~b
      BY <2>2 DEF Stop
    <2> QED BY <2>1, <2>2
  <1>3. Before' = Before
    BY <1>1, <1>2, <1>0 DEF Before
  <1>4. drained <= drained' /\ now <= now' /\ refused <= refused'
    BY <1>1, <1>0
  <1>5. SnapsKept' /\ SnapsRise'
    BY <1>1, <1>3, <1>4, KeepSnaps DEF Book
  <1>6. FirstAtStart'
    BY <1>1, HasSnapshot DEF Book, FirstAtStart
  <1>7. Account'
    BY <1>1 DEF Book, Account
  <1> QED BY <1>5, <1>6, <1>7 DEF Book

LEMMA StartBook ==
  ASSUME TypeOK, TypeOK', Book, kept = "log", Start
  PROVE  Book'
  <1>0. /\ now \in Nat /\ refused \in Nat /\ drained \in Nat /\ unsync \in Nat /\ runs \in Nat
        /\ cut \in Nat /\ Len(fifo) \in Nat /\ Len(queue) \in Nat /\ Len(batch) \in Nat
        /\ published \in Nat /\ dropped \in Nat /\ Before \in Int
        /\ hw.event_count \in Nat /\ hw.refused \in Nat /\ hw.left \in Nat
    BY Numbers
  <1>1. /\ pc = "down" /\ pc' = "status" /\ stopping' = FALSE /\ runs' = runs + 1
        /\ drained' = 0 /\ unsync' = 0 /\ cut' = 0 /\ published' = 0 /\ dropped' = 0
        /\ UNCHANGED <<now, refused, queue, batch, snaps>>
    BY DEF Start, AtSnapshot, readout, left
  <1>2. queue = <<>> /\ batch = <<>>
    BY <1>1 DEF Book, Account
  <1>3. \A i \in DOMAIN snaps : snaps[i].of \in Nat /\ snaps[i].of <= runs /\ snaps[i].of <= runs' /\ snaps[i].of # runs'
    <2>1. runs \in Nat
      BY <1>0
    <2> QED BY <1>1, <2>1, SnapNumbers DEF Book, SnapsKept
  <1>4. SnapsKept'
    BY <1>1, <1>3 DEF Book, SnapsKept
  <1>5. SnapsRise'
    BY <1>1 DEF Book, SnapsRise, BeforeOf
  <1>6. FirstAtStart' /\ Account'
    BY <1>1, <1>2 DEF FirstAtStart, Account
  <1> QED BY <1>4, <1>5, <1>6 DEF Book

LEMMA ThreadBook ==
  ASSUME TypeOK, TypeOK', Book, kept = "log", Due \/ ReadStatus \/ ReadCounts \/ Joined
  PROVE  Book'
  <1>0. /\ now \in Nat /\ refused \in Nat /\ drained \in Nat /\ unsync \in Nat /\ runs \in Nat
        /\ cut \in Nat /\ Len(fifo) \in Nat /\ Len(queue) \in Nat /\ Len(batch) \in Nat
        /\ published \in Nat /\ dropped \in Nat /\ Before \in Int
        /\ hw.event_count \in Nat /\ hw.refused \in Nat /\ hw.left \in Nat
    BY Numbers
  <1>1. UNCHANGED <<now, refused, fifo, stopping, drained, unsync, runs, cut, queue, batch, published, dropped, snaps>>
    BY DEF Due, ReadStatus, ReadCounts, Joined, readout, sink, left
  <1>2. \/ pc = "run" /\ pc' = "status" /\ Due
        \/ pc = "status" /\ pc' = "counts" /\ ReadStatus
        \/ pc = "counts" /\ pc' = "log" /\ hw'.event_count = now /\ hw'.refused = refused /\ hw'.left = Len(fifo)
        \/ pc = "join" /\ pc' = "status" /\ Joined
    BY DEF Due, ReadStatus, ReadCounts, Joined, AtSnapshot, TypeOK, Hw
  <1>3. Before' = Before
    BY <1>1 DEF Before
  <1>4. drained <= drained' /\ now <= now' /\ refused <= refused'
    BY <1>1, <1>0
  <1>5. SnapsKept' /\ SnapsRise'
    BY <1>1, <1>2, <1>3, <1>4, KeepSnaps DEF Book
  <1>6. FirstAtStart'
    <2>1. CASE pc = "run" \/ pc = "join"
      BY <1>1, <2>1, HasSnapshot DEF Book, FirstAtStart
    <2>2. CASE pc = "status" \/ pc = "counts"
      BY <1>1, <1>2, <2>2 DEF Book, FirstAtStart
    <2> QED BY <1>2, <2>1, <2>2
  <1>7. Account'
    <2>1. pc' = "log" => hw'.event_count - hw'.refused - hw'.left = Before' + drained' + unsync' + cut'
                         /\ hw'.event_count <= now' /\ hw'.refused <= refused'
      BY SMTT(30), <1>1, <1>2, <1>3, <1>0 DEF Before
    <2>2. pc # "down" /\ pc' # "down" /\ pc' # "run"
      BY <1>2
    <2> QED BY <1>1, <2>1, <2>2 DEF Book, Account
  <1> QED BY <1>5, <1>6, <1>7 DEF Book

LEMMA DrainBook ==
  ASSUME TypeOK, TypeOK', Book, Drain
  PROVE  Book'
  <1>0. /\ now \in Nat /\ refused \in Nat /\ drained \in Nat /\ unsync \in Nat /\ runs \in Nat
        /\ cut \in Nat /\ Len(fifo) \in Nat /\ Len(queue) \in Nat /\ Len(batch) \in Nat
        /\ published \in Nat /\ dropped \in Nat /\ Before \in Int
        /\ hw.event_count \in Nat /\ hw.refused \in Nat /\ hw.left \in Nat
    BY Numbers
  <1>1. UNCHANGED <<now, refused, pc, stopping, hw, runs, cut, batch, published, snaps>> /\ pc = "run"
    BY DEF Drain, left
  <1>2. Len(fifo') = Len(fifo) - 1
    BY DrainParts
  <1>3. \/ /\ unsync' = unsync + 1 /\ drained' = drained /\ queue' = queue /\ dropped' = dropped
        \/ /\ unsync' = unsync /\ drained' = drained + 1
           /\ \/ Len(queue') = Len(queue) + 1 /\ dropped' = dropped
              \/ Len(queue') = Len(queue) /\ dropped' = dropped + 1
    <2>1. queue \in Seq(Rec)
      BY DEF TypeOK
    <2>2. CASE UNCHANGED <<drained, handed, queue, dropped>> /\ unsync' = unsync + 1
      BY <2>2
    <2>3. CASE /\ NewRec(Head(fifo)) \in Rec /\ drained' = drained + 1 /\ unsync' = unsync
               /\ queue' = Append(queue, NewRec(Head(fifo))) /\ dropped' = dropped
      BY <2>1, <2>3
    <2>4. CASE /\ NewRec(Head(fifo)) \in Rec /\ drained' = drained + 1 /\ unsync' = unsync
               /\ queue # <<>> /\ queue' = Append(Tail(queue), NewRec(Head(fifo))) /\ dropped' = dropped + 1
      <3>1. Tail(queue) \in Seq(Rec) /\ Len(Tail(queue)) = Len(queue) - 1
        BY <2>1, <2>4, HeadTailProperties
      <3>2. Len(queue') = Len(Tail(queue)) + 1
        BY <2>4, <3>1
      <3>3. Len(queue) \in Nat
        BY <1>0
      <3>4. Len(queue') = Len(queue)
        BY <3>1, <3>2, <3>3
      <3> QED BY <2>4, <3>4
    <2>5. \/ UNCHANGED <<drained, handed, queue, dropped>> /\ unsync' = unsync + 1
          \/ /\ NewRec(Head(fifo)) \in Rec /\ drained' = drained + 1 /\ unsync' = unsync
             /\ queue' = Append(queue, NewRec(Head(fifo))) /\ dropped' = dropped
          \/ /\ NewRec(Head(fifo)) \in Rec /\ drained' = drained + 1 /\ unsync' = unsync
             /\ queue # <<>> /\ queue' = Append(Tail(queue), NewRec(Head(fifo))) /\ dropped' = dropped + 1
      BY DrainParts
    <2> HIDE DEF NewRec
    <2> QED BY <2>2, <2>3, <2>4, <2>5, Zenon
  <1>4. Before' = Before
    BY SMTT(30), <1>1, <1>2, <1>3, <1>0 DEF Before
  <1>5. drained <= drained' /\ now <= now' /\ refused <= refused'
    BY <1>1, <1>3, <1>0
  <1>6. SnapsKept' /\ SnapsRise'
    BY <1>1, <1>4, <1>5, KeepSnaps DEF Book
  <1>7. FirstAtStart'
    BY <1>1, HasSnapshot DEF Book, FirstAtStart
  <1>8. Account'
    <2>1. drained = published + dropped + Len(queue) + Len(batch)
      BY <1>1 DEF Book, Account
    <2>2. drained' = published' + dropped' + Len(queue') + Len(batch')
      BY SMTT(30), <1>1, <1>3, <2>1, <1>0
    <2> QED BY <1>1, <2>2 DEF Book, Account
  <1> QED BY <1>6, <1>7, <1>8 DEF Book

LEMMA WriterBook ==
  ASSUME TypeOK, TypeOK', Book,
         Take \/ \E n \in 0 .. Len(batch), ok \in BOOLEAN : Write(ok, n)
  PROVE  Book'
  <1>0. /\ now \in Nat /\ refused \in Nat /\ drained \in Nat /\ unsync \in Nat /\ runs \in Nat
        /\ cut \in Nat /\ Len(fifo) \in Nat /\ Len(queue) \in Nat /\ Len(batch) \in Nat
        /\ published \in Nat /\ dropped \in Nat /\ Before \in Int
        /\ hw.event_count \in Nat /\ hw.refused \in Nat /\ hw.left \in Nat
    BY Numbers
  <1>1. UNCHANGED <<now, fifo, refused, pc, stopping, hw, drained, unsync, runs, cut, snaps>>
    BY DEF Take, Write, readout, thread, left
  <1>2. published' + dropped' + Len(queue') + Len(batch') = published + dropped + Len(queue) + Len(batch)
    <2>1. CASE Take
      <3>1. UNCHANGED <<published, dropped>> /\ batch = <<>>
        BY <2>1 DEF Take
      <3>2. PICK m \in 1 .. Len(queue) : Len(batch') = m /\ Len(queue') = Len(queue) - m
        BY <2>1, TakeParts
      <3>3. Len(batch) = 0
        BY <3>1
      <3> QED BY <3>1, <3>2, <3>3, <1>0
    <2>2. ASSUME NEW n \in 0 .. Len(batch), NEW ok \in BOOLEAN, Write(ok, n)
          PROVE  published' + dropped' + Len(queue') + Len(batch') = published + dropped + Len(queue) + Len(batch)
      <3>1. queue' = queue /\ batch' = <<>>
        BY <2>2 DEF Write
      <3>2. (published' = published + Len(batch) /\ dropped' = dropped) \/ (published' = published /\ dropped' = dropped + Len(batch))
        BY <2>2 DEF Write
      <3>3. Len(batch') = 0
        BY <3>1
      <3> QED BY <3>1, <3>2, <3>3, <1>0
    <2> QED BY <2>1, <2>2
  <1>3. pc = "down" => queue' = <<>> /\ batch' = <<>>
    <2> SUFFICES ASSUME pc = "down" PROVE queue' = <<>> /\ batch' = <<>>
      OBVIOUS
    <2>1. queue = <<>> /\ batch = <<>>
      BY DEF Book, Account
    <2> QED BY <2>1 DEF Take, Write
  <1>4. Before' = Before /\ drained <= drained' /\ now <= now' /\ refused <= refused'
    BY <1>1, <1>0 DEF Before
  <1>5. SnapsKept' /\ SnapsRise'
    BY <1>1, <1>4, KeepSnaps DEF Book
  <1>6. FirstAtStart'
    BY <1>1 DEF Book, FirstAtStart
  <1>7. Account'
    BY <1>1, <1>2, <1>3, <1>4 DEF Book, Account
  <1> QED BY <1>5, <1>6, <1>7 DEF Book

LEMMA EndBook ==
  ASSUME TypeOK, TypeOK', Book, OtherReader \/ \E n \in 0 .. Len(batch) : Kill(n)
  PROVE  Book'
  <1>0. /\ now \in Nat /\ refused \in Nat /\ drained \in Nat /\ unsync \in Nat /\ runs \in Nat
        /\ cut \in Nat /\ Len(fifo) \in Nat /\ Len(queue) \in Nat /\ Len(batch) \in Nat
        /\ published \in Nat /\ dropped \in Nat /\ Before \in Int
        /\ hw.event_count \in Nat /\ hw.refused \in Nat /\ hw.left \in Nat
    BY Numbers
  <1>1. UNCHANGED <<now, refused, runs, snaps>> /\ pc' = "down"
    BY DEF OtherReader, Kill, readout, thread, left
  <1>2. queue' = <<>> /\ batch' = <<>>
    BY DEF OtherReader, Kill, sink, Book, Account
  <1>3. now <= now' /\ refused <= refused'
    BY <1>1, <1>0
  <1>4. SnapsKept' /\ SnapsRise'
    BY <1>1, <1>3, KeepSnaps DEF Book
  <1>5. FirstAtStart' /\ Account'
    BY <1>1, <1>2 DEF FirstAtStart, Account
  <1> QED BY <1>4, <1>5 DEF Book

LEMMA LogBook ==
  ASSUME TypeOK, TypeOK', Book, kept = "log", Log
  PROVE  Book'
  <1>0. /\ now \in Nat /\ refused \in Nat /\ drained \in Nat /\ unsync \in Nat /\ runs \in Nat
        /\ cut \in Nat /\ Len(fifo) \in Nat /\ Len(queue) \in Nat /\ Len(batch) \in Nat
        /\ published \in Nat /\ dropped \in Nat /\ Before \in Int
        /\ hw.event_count \in Nat /\ hw.refused \in Nat /\ hw.left \in Nat
    BY Numbers
  <1> DEFINE s == [event_count |-> hw.event_count, overflow |-> hw.overflow,
                   drained |-> drained, unsync |-> unsync,
                   published |-> published, dropped |-> dropped, queued |-> Len(queue),
                   of |-> runs, refused |-> hw.refused, left |-> hw.left,
                   held |-> Len(batch), cut |-> cut]
             n == Len(snaps)
  <1>1. /\ pc = "log" /\ snaps' = Append(snaps, s)
        /\ UNCHANGED <<now, fifo, refused, stopping, drained, unsync, runs, cut, published, dropped>>
    BY DEF Log, readout
  <1>2. (stopping /\ pc' = "down" /\ queue' = <<>> /\ batch' = <<>>) \/ (~stopping /\ pc' = "run" /\ UNCHANGED <<queue, batch>>)
    BY DEF Log, TypeOK
  <1>3. n \in Nat /\ DOMAIN snaps = 1 .. n /\ DOMAIN snaps' = 1 .. n + 1
        /\ (\A i \in 1 .. n : snaps'[i] = snaps[i]) /\ snaps'[n + 1] = s
    <2>1. snaps \in Seq(Snap) /\ n \in Nat /\ DOMAIN snaps = 1 .. n
      BY LenProperties DEF TypeOK
    <2> QED BY <1>1, <2>1
  <1>4. Before' = Before
    BY <1>1 DEF Before
  <1>5. BeforeOf(s) = Before
    <2>1. hw.event_count - hw.refused - hw.left = Before + drained + unsync + cut
      BY <1>1 DEF Book, Account
    <2> QED BY <2>1, <1>0 DEF BeforeOf
  <1>6. s.drained = s.published + s.dropped + s.queued + s.held
    BY <1>1 DEF Book, Account
  <1>7. s.event_count <= now /\ s.refused <= refused /\ s.of = runs /\ s.drained = drained
    BY <1>1 DEF Book, Account
  <1>8. (\A i \in DOMAIN snaps : snaps[i].of # runs) => s.drained = 0 /\ s.unsync = 0 /\ s.cut = 0
    BY <1>1 DEF Book, FirstAtStart
  <1>9. \A i \in 1 .. n :
          /\ snaps[i].of <= s.of /\ snaps[i].event_count <= s.event_count /\ snaps[i].refused <= s.refused
          /\ snaps[i].of = s.of => BeforeOf(snaps[i]) = BeforeOf(s) /\ snaps[i].drained <= s.drained
    <2>1. \A i \in 1 .. n :
            /\ snaps[i].of <= runs /\ snaps[i].event_count <= hw.event_count /\ snaps[i].refused <= hw.refused
            /\ snaps[i].of = runs => BeforeOf(snaps[i]) = Before /\ snaps[i].drained <= drained
      BY <1>1, <1>3 DEF Book, SnapsKept
    <2> QED BY <1>5, <2>1
  <1> HIDE DEF s
  <1>10. SnapsRise'
    <2> SUFFICES ASSUME NEW i \in DOMAIN snaps', NEW j \in DOMAIN snaps', i < j
        PROVE  /\ snaps'[i].of <= snaps'[j].of
               /\ snaps'[i].event_count <= snaps'[j].event_count
               /\ snaps'[i].refused <= snaps'[j].refused
               /\ snaps'[i].of = snaps'[j].of =>
                    /\ BeforeOf(snaps'[i]) = BeforeOf(snaps'[j])
                    /\ snaps'[i].drained <= snaps'[j].drained
      BY DEF SnapsRise, BeforeOf
    <2>1. i \in 1 .. n /\ (j \in 1 .. n \/ j = n + 1)
      BY <1>3
    <2>2. CASE j \in 1 .. n
      BY <1>3, <2>1, <2>2 DEF Book, SnapsRise
    <2>3. CASE j = n + 1
      BY <1>3, <1>9, <2>1, <2>3
    <2> QED BY <2>1, <2>2, <2>3
  <1>11. SnapsKept'
    <2> SUFFICES ASSUME NEW i \in DOMAIN snaps'
        PROVE  LET t == snaps'[i]
               IN  /\ t.of <= runs
                   /\ t.event_count <= now /\ t.refused <= refused
                   /\ pc' # "log"
                   /\ t.of = runs /\ pc' # "down" => BeforeOf(t) = Before /\ t.drained <= drained
                   /\ t.drained = t.published + t.dropped + t.queued + t.held
                   /\ (\A k \in 1 .. i - 1 : snaps'[k].of # t.of) => t.drained = 0 /\ t.unsync = 0 /\ t.cut = 0
      BY <1>1, <1>4 DEF SnapsKept, BeforeOf
    <2>1. pc' # "log"
      BY <1>2
    <2>2. CASE i \in 1 .. n
      <3>1. snaps'[i] = snaps[i] /\ \A k \in 1 .. i - 1 : snaps'[k] = snaps[k]
        BY <1>3, <2>2
      <3>2. i \in DOMAIN snaps
        BY <1>3, <2>2
      <3> QED BY <1>1, <2>1, <3>1, <3>2 DEF Book, SnapsKept
    <2>3. CASE i = n + 1
      <3>1. snaps'[i] = s /\ \A k \in 1 .. i - 1 : k \in 1 .. n /\ snaps'[k] = snaps[k]
        BY <1>3, <2>3
      <3>2. (\A k \in 1 .. i - 1 : snaps'[k].of # s.of) => s.drained = 0 /\ s.unsync = 0 /\ s.cut = 0
        <4>1. (i - 1) = n
          BY <1>3, <2>3
        <4> QED BY <1>3, <1>7, <1>8, <3>1, <4>1
      <3>3. s.of <= runs /\ s.drained <= drained
        BY <1>7, <1>0
      <3> QED BY <1>5, <1>6, <1>7, <2>1, <3>1, <3>2, <3>3
    <2> QED BY <1>3, <2>2, <2>3
  <1>12. FirstAtStart'
    <2>1. n + 1 \in DOMAIN snaps' /\ snaps'[n + 1].of = runs'
      BY <1>1, <1>3, <1>7
    <2> QED BY <2>1 DEF FirstAtStart
  <1>13. Account'
    <2> QED BY <1>1, <1>2 DEF Book, Account
  <1> QED BY <1>10, <1>11, <1>12, <1>13 DEF Book

LEMMA LogStep ==
  ASSUME LogInv, [Next]_vars
  PROVE  LogInv'
  <1>1. TypeOK /\ TypeOK'
    BY TypeStep DEF LogInv
  <1>2. kept' = kept
    BY DEF Next, Slot, Stop, Start, Due, ReadStatus, ReadCounts, Log, Drain, OtherReader, Joined, Take, Kill, Write, left, vars
  <1>3. ASSUME kept = "streams" PROVE snaps' = snaps
    BY <1>3 DEF Next, Slot, Stop, Start, Due, ReadStatus, ReadCounts, Log, Drain, OtherReader, Joined, Take, Kill, Write,
                left, vars
  <1>4. ASSUME kept = "log" PROVE Book'
    <2>1. Book
      BY <1>4 DEF LogInv, Book
    <2>2. ASSUME UNCHANGED vars PROVE Book'
      <3>1. UNCHANGED <<now, fifo, refused, pc, stopping, hw, drained, unsync, runs, cut, queue, batch, published, dropped, snaps>>
        BY <2>2 DEF vars, readout, thread, sink, left
      <3> QED BY <2>1, <3>1 DEF Book, SnapsKept, SnapsRise, FirstAtStart, Account, Before, BeforeOf
    <2> QED
      BY <1>1, <1>4, <2>1, <2>2, SlotBook, StopBook, StartBook, ThreadBook, LogBook, DrainBook, WriterBook, EndBook
      DEF Next
  <1>5. kept = "streams" => snaps = <<>>
    BY DEF LogInv
  <1> QED BY <1>1, <1>2, <1>3, <1>4, <1>5 DEF LogInv, Book

\* The counters of one process add up from its start to its end, and so do those of the
\* readout beside it; a run's first snapshot shows its start (redis_publish.py:165-185,
\* stats_log.py).
THEOREM LogInvariance == Spec => []LogInv
  <1> QED BY InitBook, LogStep, PTL DEF Spec

-----------------------------------------------------------------------------
(***************************************************************************)
(* The report on the log.                                                  *)
(***************************************************************************)
\* The first snapshot of a run, and what all earlier ones are not.
LEMMA FirstOfRun ==
  ASSUME TypeOK, NEW n \in DOMAIN snaps
  PROVE  /\ FirstOf(snaps[n].of) \in 1 .. n
         /\ snaps[FirstOf(snaps[n].of)].of = snaps[n].of
         /\ \A k \in 1 .. FirstOf(snaps[n].of) - 1 : snaps[k].of # snaps[n].of
  <1> DEFINE T == {i \in DOMAIN snaps : snaps[i].of = snaps[n].of}
  <1>1. DOMAIN snaps = 1 .. Len(snaps) /\ Len(snaps) \in Nat
    BY LenProperties DEF TypeOK
  <1>2. T \subseteq Nat /\ n \in T
    BY <1>1
  <1>3. PICK b \in T : \A y \in T : b <= y
    <2> HIDE DEF T
    <2> QED BY <1>2, Least
  <1>4. Min(T) = b
    <2>1. T \subseteq Int
      BY <1>2
    <2> HIDE DEF T
    <2> QED BY <1>3, <2>1, MinIs
  <1>5. FirstOf(snaps[n].of) = b
    BY <1>4 DEF FirstOf
  <1>6. b \in 1 .. n
    BY <1>1, <1>2, <1>3
  <1>7. ASSUME NEW k \in 1 .. b - 1 PROVE snaps[k].of # snaps[n].of
    <2>1. k \in DOMAIN snaps /\ k \in Nat /\ b \in Nat /\ k < b
      BY <1>1, <1>6
    <2>2. k \notin T
      BY <1>3, <2>1
    <2> QED BY <2>1, <2>2
  <1> QED BY <1>3, <1>5, <1>6, <1>7

\* The empty inputs are skipped.
LEMMA Skipped ==
  /\ ClockSection(<<>>) = "skip" /\ LossSection(<<>>) = "skip" /\ ArchiveSection(<<>>) = "skip"
  <1>1. Len(<<>>) < 4
    OBVIOUS
  <1>2. ClockSection(<<>>) = "skip"
    BY <1>1 DEF ClockSection
  <1> QED BY <1>2 DEF LossSection, ArchiveSection, Judged

\* A kept snapshot and the first of its run: what was refused between them, and what
\* the FIFO held at either, is what separates their counts from the run's counters.
LEMMA SinceFirst ==
  ASSUME LogInv, kept = "log", NEW n \in DOMAIN snaps
  PROVE  LET s == snaps[n]
             base == snaps[FirstOf(s.of)]
         IN  /\ base.drained = 0 /\ base.unsync = 0 /\ base.cut = 0
             /\ s.event_count - base.event_count - s.drained - s.unsync
                  = (s.refused - base.refused) + (s.left - base.left) + s.cut
             /\ base.event_count <= s.event_count /\ base.refused <= s.refused
             /\ s.drained - s.published - s.dropped - s.queued = s.held
  <1> DEFINE b == FirstOf(snaps[n].of)
  <1>1. TypeOK /\ SnapsKept /\ SnapsRise
    BY DEF LogInv
  <1>2. b \in 1 .. n /\ snaps[b].of = snaps[n].of /\ \A k \in 1 .. b - 1 : snaps[k].of # snaps[n].of
    BY <1>1, FirstOfRun
  <1>3. n \in Nat /\ b \in DOMAIN snaps
    BY <1>1, <1>2, LenProperties DEF TypeOK
  <1> HIDE DEF b
  <1>4. snaps[b].drained = 0 /\ snaps[b].unsync = 0 /\ snaps[b].cut = 0
    BY <1>1, <1>2, <1>3 DEF SnapsKept
  <1>5. snaps[n].drained = snaps[n].published + snaps[n].dropped + snaps[n].queued + snaps[n].held
    BY <1>1 DEF SnapsKept
  <1>6. /\ BeforeOf(snaps[b]) = BeforeOf(snaps[n])
        /\ snaps[b].event_count <= snaps[n].event_count /\ snaps[b].refused <= snaps[n].refused
    <2>1. CASE b = n
      BY <1>1, <2>1, SnapNumbers
    <2>2. CASE b # n
      <3>1. b < n
        BY <1>2, <1>3, <2>2
      <3> QED BY <1>1, <1>2, <1>3, <3>1 DEF SnapsRise
    <2> QED BY <2>1, <2>2
  <1>7. /\ snaps[b].left \in Int /\ snaps[n].left \in Int /\ snaps[n].cut \in Int
        /\ snaps[b].event_count \in Nat /\ snaps[b].refused \in Nat
        /\ snaps[n].event_count \in Nat /\ snaps[n].refused \in Nat /\ snaps[n].drained \in Nat
        /\ snaps[n].unsync \in Nat /\ snaps[n].published \in Nat /\ snaps[n].dropped \in Nat
        /\ snaps[n].queued \in Nat /\ snaps[n].held \in Nat
    BY <1>1, <1>3, SnapNumbers, Sizes
  <1>8. snaps[n].event_count - snaps[b].event_count - snaps[n].drained - snaps[n].unsync
          = (snaps[n].refused - snaps[b].refused) + (snaps[n].left - snaps[b].left) + snaps[n].cut
    <2>1. BeforeOf(snaps[b]) = snaps[b].event_count - snaps[b].refused - snaps[b].left
      BY <1>4, <1>7 DEF BeforeOf
    <2>2. snaps[b].event_count - snaps[b].refused - snaps[b].left
            = snaps[n].event_count - snaps[n].refused - snaps[n].left - snaps[n].drained - snaps[n].unsync - snaps[n].cut
      BY <1>6, <2>1 DEF BeforeOf
    <2> DEFINE e == snaps[b].event_count
               f == snaps[b].refused
               l == snaps[b].left
               x == snaps[n].event_count
               g == snaps[n].refused
               m == snaps[n].left
               d == snaps[n].drained
               u == snaps[n].unsync
               c == snaps[n].cut
    <2>3. e \in Int /\ f \in Int /\ l \in Int /\ x \in Int /\ g \in Int /\ m \in Int /\ d \in Int /\ u \in Int /\ c \in Int
      BY <1>7
    <2>4. e - f - l = x - g - m - d - u - c
      BY <2>2
    <2>5. x - e - d - u = (g - f) + (m - l) + c
      <3> HIDE DEF e, f, l, x, g, m, d, u, c
      <3> QED BY <2>3, <2>4
    <2> QED BY <2>5
  <1>9. snaps[n].drained - snaps[n].published - snaps[n].dropped - snaps[n].queued = snaps[n].held
    BY <1>5, <1>7
  <1> QED BY <1>4, <1>6, <1>8, <1>9 DEF b

\* A drop of drained is where a run begins, and the last run begins at one that is seen.
LEMMA RunSeen ==
  ASSUME LogInv, kept = "log", snaps # <<>>,
         LET b == FirstOf(snaps[Len(snaps)].of) IN b = 1 \/ snaps[b - 1].drained > 0
  PROVE  RunStart(snaps) = FirstOf(snaps[Len(snaps)].of)
  <1> DEFINE n == Len(snaps)
             b == FirstOf(snaps[n].of)
             T == {1} \cup {i \in 2 .. Len(snaps) : snaps[i].drained < snaps[i - 1].drained}
  <1>1. TypeOK /\ SnapsKept /\ SnapsRise
    BY DEF LogInv
  <1>2. n \in Nat /\ n >= 1 /\ DOMAIN snaps = 1 .. n /\ n \in DOMAIN snaps
    BY <1>1, LenProperties, EmptySeq DEF TypeOK
  <1>3. b \in 1 .. n /\ snaps[b].of = snaps[n].of
    BY <1>1, <1>2, FirstOfRun
  <1>4. snaps[b].drained = 0
    BY <1>2, SinceFirst
  <1>5. T \subseteq Int
    BY <1>2
  <1>6. b \in T
    BY <1>2, <1>3, <1>4
  <1>7. ASSUME NEW i \in T PROVE b >= i
    <2>1. i \in Int /\ b \in Int /\ b >= 1
      BY <1>3, <1>5
    <2>2. ASSUME i > b PROVE FALSE
      <3> HIDE DEF b
      <3>1. i \in 2 .. n /\ snaps[i].drained < snaps[i - 1].drained
        BY <2>1, <2>2
      <3>2. i \in DOMAIN snaps /\ i - 1 \in DOMAIN snaps /\ b \in DOMAIN snaps /\ i - 1 < i
        BY <1>2, <1>3, <3>1
      <3>3. snaps[i - 1].of <= snaps[i].of
        BY <1>1, <3>2 DEF SnapsRise
      <3>4. snaps[i].of <= snaps[n].of
        <4>1. CASE i = n
          BY <1>1, <3>2, <4>1, SnapNumbers
        <4>2. CASE i # n
          <5>1. i < n
            <6> HIDE DEF n, T
            <6>1. i \in 2 .. n
              BY <3>1
            <6> QED BY <1>2, <2>1, <4>2, <6>1
          <5> QED BY <1>1, <1>2, <3>2, <5>1 DEF SnapsRise
        <4> QED BY <4>1, <4>2
      <3>5. snaps[b].of <= snaps[i - 1].of
        <4>1. CASE b = i - 1
          BY <1>1, <3>2, <4>1, SnapNumbers
        <4>2. CASE b # i - 1
          <5>1. b < i - 1
            BY <2>1, <2>2, <4>2
          <5> QED BY <1>1, <3>2, <5>1 DEF SnapsRise
        <4> QED BY <4>1, <4>2
      <3>6. snaps[i - 1].of = snaps[i].of
        <4> DEFINE p == snaps[i - 1].of
                   q == snaps[i].of
                   e == snaps[n].of
        <4>1. p \in Nat /\ q \in Nat /\ e \in Nat
          BY <1>1, <1>2, <3>2, SnapNumbers
        <4>2. p <= q /\ q <= e /\ e <= p
          BY <1>3, <3>3, <3>4, <3>5
        <4> HIDE DEF p, q, e
        <4>3. p = q
          BY <4>1, <4>2
        <4> QED BY <4>3 DEF p, q
      <3>7. snaps[i - 1].drained <= snaps[i].drained
        BY <1>1, <3>2, <3>6 DEF SnapsRise
      <3> QED BY <1>1, <3>1, <3>2, <3>7, SnapNumbers
    <2> QED BY <2>1, <2>2
  <1>8. Max(T) = b
    <2> HIDE DEF T, b
    <2> QED BY <1>5, <1>6, <1>7, MaxIs
  <1> QED BY <1>8 DEF RunStart

LEMMA LastSnapshot ==
  ASSUME TypeOK, snaps # <<>>
  PROVE  /\ Len(snaps) \in Nat \ {0} /\ Len(snaps) \in DOMAIN snaps /\ DOMAIN snaps = 1 .. Len(snaps)
         /\ Last(snaps) = snaps[Len(snaps)] /\ snaps \in Seq(Snap)
  <1> QED BY LenProperties, EmptySeq DEF TypeOK, Last

\* What the report reads of the run that it looks at.
LEMMA RunRead ==
  ASSUME TypeOK, snaps # <<>>
  PROVE  LET run == SubSeq(snaps, RunStart(snaps), Len(snaps))
         IN  /\ RunStart(snaps) \in 1 .. Len(snaps)
             /\ Head(run) = snaps[RunStart(snaps)] /\ Last(run) = Last(snaps)
  <1> DEFINE n == Len(snaps)
             T == {1} \cup {i \in 2 .. Len(snaps) : snaps[i].drained < snaps[i - 1].drained}
             m == RunStart(snaps)
             run == SubSeq(snaps, m, n)
  <1>1. n \in Nat \ {0} /\ snaps \in Seq(Snap) /\ Last(snaps) = snaps[n]
    BY LastSnapshot
  <1>2. T \subseteq 1 .. n /\ T # {}
    BY <1>1
  <1>3. Max(T) \in 1 .. n
    <2> HIDE DEF T
    <2> QED BY <1>1, <1>2, Greatest
  <1>4. m \in 1 .. n
    BY <1>3 DEF RunStart
  <1> HIDE DEF m
  <1>5. m \in 1 .. Len(snaps) + 1 /\ n \in 0 .. Len(snaps) /\ m <= n /\ m \in Nat
    BY <1>1, <1>4
  <1>6. /\ Len(run) = n - m + 1 /\ run \in Seq(Snap)
        /\ \A i \in 1 .. Len(run) : run[i] = snaps[m + i - 1]
    BY <1>1, <1>5, SubSeqIn
  <1>7. run[1] = snaps[m] /\ run[Len(run)] = snaps[n]
    <2> HIDE DEF run
    <2>1. 1 \in 1 .. Len(run) /\ Len(run) \in 1 .. Len(run) /\ m + 1 - 1 = m /\ m + (n - m + 1) - 1 = n
      BY <1>1, <1>5, <1>6
    <2> QED BY <1>6, <2>1
  <1>8. Head(run) = run[1] /\ Last(run) = run[Len(run)]
    <2>1. Head(run) = snaps[m]
      BY <1>1, <1>5, HeadTailOfSubSeq
    <2>2. Last(run) = run[Len(run)]
      BY DEF Last
    <2> QED BY <1>7, <2>1, <2>2
  <1> QED BY <1>1, <1>4, <1>7, <1>8 DEF m

\* The ledger of the report is short by what the writer holds, whatever was lost.
LEMMA LedgerShort ==
  ASSUME LogInv, kept = "log", snaps # <<>>
  PROVE  /\ Reconcile(snaps).decoded - Reconcile(snaps).accounted = Last(snaps).held
         /\ Passed(snaps, <<>>, <<>>, <<>>) <=> Last(snaps).held <= Residual
  <1> DEFINE n == Len(snaps)
             m == RunStart(snaps)
             s == snaps[n]
             base == snaps[m]
             r == Reconcile(snaps)
             missed == s.event_count - base.event_count - s.drained - s.unsync
             accounted == s.published + s.dropped + s.queued + s.unsync + missed
  <1>1. TypeOK
    BY DEF LogInv
  <1>2. n \in DOMAIN snaps /\ Last(snaps) = s /\ DOMAIN snaps = 1 .. n
    BY <1>1, LastSnapshot
  <1>3. /\ m \in DOMAIN snaps
        /\ Head(SubSeq(snaps, m, n)) = base /\ Last(SubSeq(snaps, m, n)) = s
    BY <1>1, <1>2, RunRead
  <1>4. s.drained - s.published - s.dropped - s.queued = s.held
    BY <1>2, SinceFirst
  <1>5. /\ s.event_count \in Int /\ base.event_count \in Int /\ s.drained \in Int /\ s.unsync \in Int
        /\ s.published \in Int /\ s.dropped \in Int /\ s.queued \in Int /\ s.held \in Nat
    <2>1. /\ s.event_count \in Nat /\ base.event_count \in Nat /\ s.drained \in Nat /\ s.unsync \in Nat
          /\ s.published \in Nat /\ s.dropped \in Nat /\ s.queued \in Nat /\ s.held \in Nat
      BY <1>1, <1>2, <1>3, SnapNumbers
    <2> QED BY <2>1
  <1>6. /\ r.decoded = s.event_count - base.event_count /\ r.accounted = accounted
        /\ r.ledger_ok = (Abs((s.event_count - base.event_count) - accounted) <= Residual)
    BY <1>3 DEF Reconcile, Missed
  <1>7. (s.event_count - base.event_count) - accounted = s.held
    <2> DEFINE e == s.event_count
               f == base.event_count
               d == s.drained
               u == s.unsync
               p == s.published
               q == s.queued
               x == s.dropped
               h == s.held
    <2>1. (e - f) - (p + x + q + u + (e - f - d - u)) = h
      <3>1. /\ e \in Int /\ f \in Int /\ d \in Int /\ u \in Int /\ p \in Int /\ q \in Int /\ x \in Int /\ h \in Int
            /\ d - p - x - q = h
        BY <1>4, <1>5
      <3> HIDE DEF e, f, d, u, p, q, x, h
      <3> QED BY <3>1
    <2> QED BY <2>1
  <1>8. Abs(s.held) = s.held
    BY <1>5 DEF Abs
  <1>9. r.decoded - r.accounted = s.held /\ r.ledger_ok = (s.held <= Residual)
    <2>1. r.decoded - r.accounted = s.held
      BY <1>6, <1>7
    <2>2. r.ledger_ok = (s.held <= Residual)
      BY <1>6, <1>7, <1>8
    <2> QED BY <2>1, <2>2
  <1> HIDE DEF r, s
  <1>10. LedgerSection(snaps) = IF s.held <= Residual THEN "ok" ELSE "fail"
    BY <1>9 DEF LedgerSection, Judged, r
  <1>11. Passed(snaps, <<>>, <<>>, <<>>) <=> "fail" \notin {LedgerSection(snaps), "skip"}
    BY Skipped DEF Passed
  <1>12. Passed(snaps, <<>>, <<>>, <<>>) <=> s.held <= Residual
    <2>1. CASE s.held <= Residual
      BY <1>10, <1>11, <2>1
    <2>2. CASE ~(s.held <= Residual)
      BY <1>10, <1>11, <2>2
    <2> QED BY <2>1, <2>2
  <1> QED BY <1>2, <1>9, <1>12 DEF r


\* What the report calls missed is what was refused, up to the FIFO and a cut event.
LEMMA MissedMeans ==
  ASSUME NEW missed \in Int, NEW lost \in Nat, NEW l \in 0 .. Depth, NEW m \in 0 .. Depth, NEW c \in {0, 1},
         missed = lost + (m - l) + c
  PROVE  /\ missed - lost \in -Depth .. Depth + c
         /\ missed > Residual + c => lost > 0
         /\ Abs(missed) > Residual => c > 0 \/ lost > 0
  <1>1. Depth \in Nat /\ Residual = Depth /\ l \in Int /\ m \in Int /\ c \in Int /\ m - l >= -Depth /\ m - l <= Depth
    BY Sizes
  <1>2. missed - lost \in -Depth .. Depth + c
    BY <1>1
  <1>3. missed > Residual + c => lost > 0
    BY <1>1
  <1>4. ASSUME Abs(missed) > Residual, lost = 0, c = 0 PROVE FALSE
    BY <1>1, <1>4 DEF Abs
  <1> QED BY <1>1, <1>2, <1>3, <1>4

\* The curve of the figure, after a restart, is off by what came before it.
LEMMA CurveOff ==
  ASSUME LogInv, kept = "log", snaps # <<>>, Len(snaps) > 1
  PROVE  LET b == FirstOf(Last(snaps).of)
             off == Last(MissedCurve(snaps)) - (Missed(snaps[b], Last(snaps)) + Last(snaps).dropped)
         IN  IF b = 1 THEN off = 0 ELSE off >= snaps[b - 1].drained - Depth
  <1> DEFINE n == Len(snaps)
             s == snaps[n]
             b == FirstOf(s.of)
  <1>1. TypeOK /\ SnapsRise
    BY DEF LogInv
  <1>2. n \in Nat /\ n > 1 /\ n \in DOMAIN snaps /\ DOMAIN snaps = 1 .. n /\ Last(snaps) = s
    BY <1>1, LastSnapshot
  <1>3. b \in 1 .. n
    BY <1>1, <1>2, FirstOfRun
  <1>4. Last(MissedCurve(snaps)) = Missed(snaps[1], s) + s.dropped
    <2> DEFINE c == MissedCurve(snaps)
    <2>1. Len(c) = n - 1 /\ c[n - 1] = Missed(snaps[1], snaps[(n - 1) + 1]) + snaps[(n - 1) + 1].dropped
      BY <1>2 DEF MissedCurve
    <2>2. (n - 1) + 1 = n
      BY <1>2
    <2> HIDE DEF c
    <2>3. Last(c) = c[n - 1]
      BY <2>1 DEF Last
    <2> QED BY <2>1, <2>2, <2>3 DEF c
  <1> HIDE DEF b
  <1>5. /\ snaps[1].event_count \in Int /\ snaps[b].event_count \in Int /\ s.event_count \in Int
        /\ s.drained \in Int /\ s.unsync \in Int /\ s.dropped \in Int
    <2>1. 1 \in DOMAIN snaps /\ b \in DOMAIN snaps
      BY <1>2, <1>3
    <2>2. /\ snaps[1].event_count \in Nat /\ snaps[b].event_count \in Nat /\ s.event_count \in Nat
          /\ s.drained \in Nat /\ s.unsync \in Nat /\ s.dropped \in Nat
      BY <1>1, <1>2, <2>1, SnapNumbers
    <2> QED BY <2>2
  <1> DEFINE off == (Missed(snaps[1], s) + s.dropped) - (Missed(snaps[b], s) + s.dropped)
  <1>6. off = snaps[b].event_count - snaps[1].event_count
    <2> DEFINE e == snaps[1].event_count
               f == snaps[b].event_count
               x == s.event_count
               d == s.drained
               u == s.unsync
               q == s.dropped
    <2>1. (((x - e) - d - u) + q) - (((x - f) - d - u) + q) = f - e
      <3>1. e \in Int /\ f \in Int /\ x \in Int /\ d \in Int /\ u \in Int /\ q \in Int
        BY <1>5
      <3> HIDE DEF e, f, x, d, u, q
      <3> QED BY <3>1
    <2>2. Missed(snaps[1], s) = (x - e) - d - u /\ Missed(snaps[b], s) = (x - f) - d - u
      BY DEF Missed
    <2> QED BY <2>1, <2>2
  <1>7. CASE b = 1
    <2>1. off = 0
      BY <1>5, <1>6, <1>7
    <2> QED BY <1>2, <1>4, <1>7, <2>1 DEF b
  <1>8. CASE b # 1
    <2> DEFINE p == snaps[b - 1]
               a == FirstOf(p.of)
    <2>1. b - 1 \in DOMAIN snaps /\ b \in DOMAIN snaps /\ b - 1 < b /\ 1 \in DOMAIN snaps
      BY <1>2, <1>3, <1>8
    <2>2. a \in 1 .. b - 1 /\ a \in DOMAIN snaps
      BY <1>1, <1>2, <2>1, FirstOfRun
    <2>3. /\ p.event_count - snaps[a].event_count - p.drained - p.unsync
               = (p.refused - snaps[a].refused) + (p.left - snaps[a].left) + p.cut
          /\ snaps[a].refused <= p.refused
      BY <2>1, SinceFirst
    <2> HIDE DEF a
    <2>4. p.event_count <= snaps[b].event_count
      BY <1>1, <2>1 DEF SnapsRise
    <2>5. snaps[1].event_count <= snaps[a].event_count
      <3>1. CASE a = 1
        BY <1>5, <3>1
      <3>2. CASE a # 1
        <4>1. 1 < a
          BY <2>2, <3>2
        <4> QED BY <1>1, <2>1, <2>2, <4>1 DEF SnapsRise
      <3> QED BY <3>1, <3>2
    <2>6. /\ p.event_count \in Int /\ p.drained \in Int /\ p.unsync \in Nat /\ p.refused \in Int /\ p.cut \in Nat
          /\ p.left \in 0 .. Depth /\ snaps[a].left \in 0 .. Depth /\ snaps[a].refused \in Int /\ snaps[a].event_count \in Int
      <3>1. /\ p.event_count \in Nat /\ p.drained \in Nat /\ p.unsync \in Nat /\ p.refused \in Nat /\ p.cut \in {0, 1}
            /\ p.left \in 0 .. Depth
        BY <1>1, <2>1, SnapNumbers
      <3>2. snaps[a].left \in 0 .. Depth /\ snaps[a].refused \in Nat /\ snaps[a].event_count \in Nat
        BY <1>1, <2>2, SnapNumbers
      <3> QED BY SMTT(30), <3>1, <3>2
    <2>7. snaps[b].event_count - snaps[1].event_count >= p.drained - Depth
      <3> DEFINE e == p.event_count
                 f == snaps[a].event_count
                 d == p.drained
                 u == p.unsync
                 g == p.refused
                 h == snaps[a].refused
                 l == p.left
                 k == snaps[a].left
                 c == p.cut
                 y == snaps[b].event_count
                 z == snaps[1].event_count
      <3>1. /\ e \in Int /\ f \in Int /\ d \in Int /\ u \in Nat /\ g \in Int /\ h \in Int
            /\ l \in 0 .. Depth /\ k \in 0 .. Depth /\ c \in Nat /\ y \in Int /\ z \in Int /\ Depth \in Nat
        BY <1>5, <2>6, Sizes
      <3>2. e - f - d - u = (g - h) + (l - k) + c /\ h <= g /\ e <= y /\ z <= f
        BY <2>3, <2>4, <2>5
      <3>3. y - z >= d - Depth
        <4> HIDE DEF e, f, d, u, g, h, l, k, c, y, z
        <4>1. l \in Int /\ k \in Int /\ l - k >= -Depth
          BY <3>1
        <4> QED BY <3>1, <3>2, <4>1
      <3> QED BY <3>3
    <2> HIDE DEF off
    <2>8. off >= p.drained - Depth
      BY <1>6, <2>7
    <2> QED BY <1>2, <1>4, <1>8, <2>8 DEF b, off
  <1> QED BY <1>7, <1>8


LEMMA ReportFollows == LogInv => ReportTellsTheLoss
  <1> SUFFICES ASSUME LogInv, snaps # <<>> PROVE ReportTells
    BY DEF ReportTellsTheLoss
  <1> DEFINE n == Len(snaps)
             s == snaps[n]
             b == FirstOf(s.of)
             base == snaps[b]
             lost == s.refused - base.refused
             r == Reconcile(snaps)
             missed == Missed(base, s)
             visible == b = 1 \/ snaps[b - 1].drained > 0
  <1>1. TypeOK /\ kept = "log"
    BY DEF LogInv, TypeOK, Kept
  <1>2. n \in Nat \ {0} /\ n \in DOMAIN snaps /\ DOMAIN snaps = 1 .. n /\ Last(snaps) = s
    BY <1>1, LastSnapshot
  <1>3. b \in DOMAIN snaps
    BY <1>1, <1>2, FirstOfRun
  <1>4. ASSUME visible PROVE RunStart(snaps) = b
    BY <1>1, <1>4, RunSeen
  <1>5. missed = lost + (s.left - base.left) + s.cut /\ lost \in Nat /\ missed \in Int
    <2>1. /\ s.event_count - base.event_count - s.drained - s.unsync = lost + (s.left - base.left) + s.cut
          /\ base.refused <= s.refused
      BY <1>1, <1>2, SinceFirst
    <2>2. /\ s.event_count \in Nat /\ base.event_count \in Nat /\ s.drained \in Nat /\ s.unsync \in Nat
          /\ s.refused \in Nat /\ base.refused \in Nat
      BY <1>1, <1>2, <1>3, SnapNumbers
    <2>3. missed = s.event_count - base.event_count - s.drained - s.unsync
      BY DEF Missed
    <2> QED BY SMTT(30), <2>1, <2>2, <2>3
  <1>6. /\ missed - lost \in -Depth .. Depth + s.cut
        /\ missed > Residual + s.cut => lost > 0
        /\ Abs(missed) > Residual => s.cut > 0 \/ lost > 0
    <2>1. s.left \in 0 .. Depth /\ base.left \in 0 .. Depth /\ s.cut \in {0, 1}
      BY <1>1, <1>2, <1>3, SnapNumbers
    <2> HIDE DEF missed, lost
    <2> QED BY <1>5, <2>1, MissedMeans
  <1>7. ASSUME visible PROVE r.missed_hw = missed /\ (r.suspicious => Abs(missed) > Residual)
    <2>1. Head(SubSeq(snaps, b, n)) = base /\ Last(SubSeq(snaps, b, n)) = s
      BY <1>1, <1>2, <1>4, <1>7, RunRead
    <2> QED BY <1>4, <1>7, <2>1 DEF Reconcile
  <1>8. ASSUME visible, n > 1
        PROVE  LET phantom == Last(MissedCurve(snaps)) - (r.missed_hw + s.dropped)
               IN  IF b = 1 THEN phantom = 0 ELSE phantom >= snaps[b - 1].drained - Depth
    <2>1. LET off == Last(MissedCurve(snaps)) - (missed + s.dropped)
          IN  IF b = 1 THEN off = 0 ELSE off >= snaps[b - 1].drained - Depth
      BY <1>1, <1>2, <1>8, CurveOff
    <2> QED BY <1>7, <1>8, <2>1
  <1>9. r.decoded - r.accounted = s.held /\ (Passed(snaps, <<>>, <<>>, <<>>) <=> s.held <= Residual)
    BY <1>1, <1>2, LedgerShort
  <1> HIDE DEF r, missed
  <1>10. visible => /\ r.missed_hw - lost \in -Depth .. Depth + s.cut
                    /\ r.missed_hw > Residual + s.cut => lost > 0
                    /\ r.suspicious => s.cut > 0 \/ lost > 0
    BY <1>6, <1>7
  <1> HIDE DEF lost, base, visible, b, n, s
  <1>11. visible => RunStart(snaps) = b
    BY <1>4
  <1>12. visible /\ n > 1 => IF b = 1 THEN Last(MissedCurve(snaps)) - (r.missed_hw + s.dropped) = 0
                             ELSE Last(MissedCurve(snaps)) - (r.missed_hw + s.dropped) >= snaps[b - 1].drained - Depth
    BY <1>8
  <1> USE DEF lost, base, visible, b, n
  <1> QED BY <1>2, <1>9, <1>10, <1>11, <1>12 DEF ReportTells, r, s

\* Whenever the publisher is down, the report on what its log then holds tells what
\* the hardware lost (stats_report.py:41-97, plot_stats.py:35-53, qa_report.py:234-254).
THEOREM ReportRight == Spec => []ReportTellsTheLoss
  <1> QED BY LogInvariance, ReportFollows, PTL
=============================================================================
