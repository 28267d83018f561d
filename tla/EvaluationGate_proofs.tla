------------------------ MODULE EvaluationGate_proofs ------------------------
(***************************************************************************)
(* The quantiles of every report are ordered, and a gated run never lets   *)
(* the baseline slip: for sets of cases of any size, whatever the system   *)
(* answers to them and however long it takes.                              *)
(***************************************************************************)
EXTENDS EvaluationGate, FiniteSetTheorems, WellFoundedInduction, TLAPS

-----------------------------------------------------------------------------
\* Order statistics: what Ordered says of timings that carry n positions or fewer.

\* A set of natural numbers that is not empty has a least element.
LEMMA LeastExists ==
  ASSUME NEW S \in SUBSET Nat, S # {}
  PROVE  \E i \in S : \A j \in S : i <= j
<1> DEFINE Less == {ss \in Nat \X Nat : ss[1] < ss[2]}
<1>1. IsWellFoundedOn(Less, Nat)
  BY NatLessThanWellFounded, Zenon DEF OpToRel
<1>2. \E i \in S : \A j \in S : ~ (<< j, i >> \in Less)
  <2> HIDE DEF Less
  <2> QED  BY <1>1, WFMin, Zenon
<1>3. \A i, j \in Nat : << j, i >> \in Less <=> j < i
  OBVIOUS
<1> HIDE DEF Less
<1>4. PICK i \in S : \A j \in S : ~ (<< j, i >> \in Less)
  BY <1>2
<1>5. \A j \in S : ~ (j < i)
  BY <1>3, <1>4
<1> QED
  BY <1>5

\* Timings: a time for each of some positions of a list of n cases.
IsTimings(f, n) == DOMAIN f \subseteq 1 .. n /\ f \in [DOMAIN f -> Nat]

\* Some sample is not exceeded by any other.  The least length of which this
\* were false would leave a shorter one of which it were false, too.
LEMMA SlowestExists ==
  ASSUME NEW n \in Nat, NEW f, IsTimings(f, n), DOMAIN f # {}
  PROVE  \E j \in DOMAIN f : \A i \in DOMAIN f : f[i] <= f[j]
<1> DEFINE First(m) == DOMAIN f \cap (1 .. m)
           Fine(m)  == First(m) # {} => \E j \in First(m) : \A i \in First(m) : f[i] <= f[j]
           bad      == {m \in Nat : ~ Fine(m)}
<1>1. bad = {}
  <2> SUFFICES ASSUME bad # {} PROVE FALSE
    OBVIOUS
  <2>1. PICK m \in bad : \A other \in bad : m <= other
    <3> bad \in SUBSET Nat
      OBVIOUS
    <3> HIDE DEF bad
    <3> QED  BY LeastExists
  <2>2. m \in Nat /\ ~ Fine(m)
    OBVIOUS
  <2>3. m # 0
    <3>1. First(0) = {}
      OBVIOUS
    <3> QED  BY <2>2, <3>1
  <2>4. m - 1 \in Nat /\ m - 1 \notin bad
    BY <2>1, <2>2, <2>3
  <2>5. Fine(m - 1)
    BY <2>4
  <2>6. First(m) = First(m - 1) \union (DOMAIN f \cap {m})
    BY <2>2, <2>3
  <2>7. \A i \in DOMAIN f : f[i] \in Nat
    BY DEF IsTimings
  <2>8. CASE m \notin DOMAIN f
    <3>1. First(m) = First(m - 1)
      BY <2>6, <2>8
    <3> QED  BY <2>2, <2>5, <3>1
  <2>9. CASE m \in DOMAIN f /\ First(m - 1) = {}
    <3>1. First(m) = {m}
      BY <2>6, <2>9
    <3>2. f[m] <= f[m]
      BY <2>7, <2>9
    <3> QED  BY <2>2, <3>1, <3>2
  <2>10. CASE m \in DOMAIN f /\ First(m - 1) # {}
    <3>1. PICK j \in First(m - 1) : \A i \in First(m - 1) : f[i] <= f[j]
      BY <2>5, <2>10
    <3> DEFINE slowest == IF f[m] <= f[j] THEN j ELSE m
    <3>2. First(m) = First(m - 1) \union {m} /\ First(m - 1) \subseteq DOMAIN f
      BY <2>6, <2>10
    <3> HIDE DEF First
    <3>3. f[m] \in Nat /\ f[j] \in Nat /\ \A i \in First(m - 1) : f[i] \in Nat
      BY <2>7, <2>10, <3>2
    <3>4. slowest \in First(m) /\ \A i \in First(m) : f[i] <= f[slowest]
      BY <3>1, <3>2, <3>3
    <3> QED  BY <2>2, <3>4
  <2> QED
    BY <2>8, <2>9, <2>10
<1>2. Fine(n)
  BY <1>1
<1>3. First(n) = DOMAIN f
  BY DEF IsTimings
<1> QED
  BY <1>2, <1>3

\* There are finitely many samples.
LEMMA SamplesFinite ==
  ASSUME NEW n \in Nat, NEW f, IsTimings(f, n), NEW S \in SUBSET DOMAIN f
  PROVE  /\ IsFiniteSet(S) /\ Cardinality(S) \in Nat
         /\ Cardinality(S) <= Cardinality(DOMAIN f)
<1>1. IsFiniteSet(1 .. n)
  BY FS_Interval
<1>2. IsFiniteSet(DOMAIN f)
  BY <1>1, FS_Subset DEF IsTimings
<1> QED
  BY <1>2, FS_Subset, FS_CardinalityType

\* Ordered is a sample, more than index samples do not exceed it, and it is the
\* least such sample; cite it whenever the index is within the list.
LEMMA OrderedFits ==
  ASSUME NEW n \in Nat, NEW f, IsTimings(f, n),
         NEW index \in Nat, index < Cardinality(DOMAIN f)
  PROVE  /\ Ordered(f, index) \in Nat
         /\ Ordered(f, index) \in Reached(f, index)
         /\ \A other \in Reached(f, index) : Ordered(f, index) <= other
<1>1. DOMAIN f # {}
  BY FS_EmptySet
<1>2. PICK j \in DOMAIN f : \A i \in DOMAIN f : f[i] <= f[j]
  BY <1>1, SlowestExists
<1>3. AtMost(f, f[j]) = DOMAIN f
  BY <1>2 DEF AtMost
<1>4. f[j] \in Reached(f, index)
  BY <1>3 DEF Reached
<1>5. Reached(f, index) \in SUBSET Nat
  BY DEF Reached, IsTimings
<1>6. \E ms \in Reached(f, index) : \A other \in Reached(f, index) : ms <= other
  BY <1>4, <1>5, LeastExists
<1>7. /\ Ordered(f, index) \in Reached(f, index)
      /\ \A other \in Reached(f, index) : Ordered(f, index) <= other
  BY <1>6, Zenon DEF Ordered
<1> QED
  BY <1>5, <1>7

\* Ordered is the element a sorted list has at the index: at most index samples
\* are below it, and more than index are not above it.
LEMMA OrderedIsSorted ==
  ASSUME NEW n \in Nat, NEW f, IsTimings(f, n),
         NEW index \in Nat, index < Cardinality(DOMAIN f)
  PROVE  /\ Cardinality({i \in DOMAIN f : f[i] < Ordered(f, index)}) <= index
         /\ index < Cardinality(AtMost(f, Ordered(f, index)))
<1> DEFINE below == {i \in DOMAIN f : f[i] < Ordered(f, index)}
<1>1. /\ Ordered(f, index) \in Nat
      /\ Ordered(f, index) \in Reached(f, index)
      /\ \A other \in Reached(f, index) : Ordered(f, index) <= other
  BY OrderedFits
<1>2. index < Cardinality(AtMost(f, Ordered(f, index)))
  BY <1>1 DEF Reached
<1>3. ASSUME index < Cardinality(below) PROVE FALSE
  <2> DEFINE g == [i \in below |-> f[i]]
  <2>1. IsTimings(g, n) /\ DOMAIN g = below
    BY DEF IsTimings
  <2>2. below # {}
    BY <1>3, FS_EmptySet
  <2> HIDE DEF below
  <2>3. PICK j \in below : \A i \in below : g[i] <= g[j]
    BY <2>1, <2>2, SlowestExists
  <2>4. \A i \in below : f[i] <= f[j]
    BY <2>3
  <2>5. below \subseteq AtMost(f, f[j]) /\ j \in DOMAIN f /\ f[j] < Ordered(f, index)
    BY <2>4 DEF AtMost, below
  <2>6. AtMost(f, f[j]) \in SUBSET DOMAIN f
    BY DEF AtMost
  <2>7. IsFiniteSet(AtMost(f, f[j])) /\ Cardinality(AtMost(f, f[j])) \in Nat
    BY <2>6, SamplesFinite
  <2>8. Cardinality(below) <= Cardinality(AtMost(f, f[j])) /\ Cardinality(below) \in Nat
    BY <2>5, <2>7, FS_Subset, FS_CardinalityType
  <2>9. f[j] \in Reached(f, index)
    BY <1>3, <2>5, <2>7, <2>8 DEF Reached
  <2>10. f[j] \in Nat
    BY <2>5 DEF IsTimings
  <2> QED  BY <1>1, <2>5, <2>9, <2>10
<1>4. Cardinality(below) \in Nat
  BY SamplesFinite
<1> QED
  BY <1>2, <1>3, <1>4

\* A later element of the sorted list is not below an earlier one.
LEMMA OrderedGrows ==
  ASSUME NEW n \in Nat, NEW f, IsTimings(f, n),
         NEW first \in Nat, NEW later \in Nat,
         first <= later, later < Cardinality(DOMAIN f)
  PROVE  Ordered(f, first) <= Ordered(f, later)
<1>1. Cardinality(DOMAIN f) \in Nat
  BY SamplesFinite
<1>2. first < Cardinality(DOMAIN f)
  BY <1>1
<1>3. Ordered(f, later) \in Reached(f, later)
  BY OrderedFits
<1>4. \A ms \in Reached(f, later) : ms \in Reached(f, first)
  <2> SUFFICES ASSUME NEW ms \in Reached(f, later) PROVE ms \in Reached(f, first)
    OBVIOUS
  <2>1. Cardinality(AtMost(f, ms)) \in Nat
    BY SamplesFinite DEF AtMost
  <2> QED  BY <2>1 DEF Reached
<1> QED
  BY <1>2, <1>3, <1>4, OrderedFits

-----------------------------------------------------------------------------
\* The quantiles of LatencyStats.

\* The index of the p95 is inside the list, and not before the median's.
LEMMA P95IndexFits ==
  ASSUME NEW count \in Nat \ {0}
  PROVE  /\ P95Index(count) \in Nat /\ P95Index(count) <= count - 1
         /\ count \div 2 \in Nat /\ (count - 1) \div 2 \in Nat
         /\ (count - 1) \div 2 <= count \div 2
         /\ count > 1 => count \div 2 <= P95Index(count)
         /\ count = 1 => P95Index(count) = 0
<1> DEFINE last == count - 1
           down == (19 * last) \div 20
           half == count \div 2
<1>1. last \in Nat /\ down \in Nat /\ 20 * down <= 19 * last /\ 19 * last < 20 * down + 20
  OBVIOUS
<1>2. half \in Nat /\ 2 * half <= count /\ count < 2 * half + 2
  OBVIOUS
<1>3. Rounded95(last) \in {down, down + 1}
  BY DEF Rounded95
<1>4. count = 2 => Rounded95(last) = 1
  BY DEF Rounded95
<1>5. count > 2 => half <= down
  <2> HIDE DEF down, half
  <2> QED  BY <1>1, <1>2
<1>6. count > 1 => half <= Rounded95(last)
  <2> HIDE DEF down
  <2>1. count = 2 \/ count > 2 \/ ~ (count > 1)
    OBVIOUS
  <2>2. count = 2 => half = 1
    OBVIOUS
  <2> HIDE DEF half, last
  <2> QED  BY <1>1, <1>2, <1>3, <1>4, <1>5, <2>1, <2>2
<1>7. (count - 1) \div 2 \in Nat /\ (count - 1) \div 2 <= half
  OBVIOUS
<1>8. count > 1 => half <= count - 1
  BY <1>2
<1> HIDE DEF down, half
<1> QED
  BY <1>1, <1>2, <1>3, <1>6, <1>7, <1>8 DEF P95Index, half

OrderedQuantiles(l) == l.twice_p50 <= 2 * l.p95 /\ l.p95 <= l.max

\* Whatever was timed, the median is not above the p95 nor the p95 above the
\* maximum (LatencyStats.from_samples).
THEOREM LatencyStatsOrdered ==
  ASSUME NEW n \in Nat, NEW f, IsTimings(f, n)
  PROVE  /\ LatencyStats(f) \in [count : Nat, twice_p50 : Nat, p95 : Nat, max : Nat]
         /\ OrderedQuantiles(LatencyStats(f))
<1> DEFINE count == Cardinality(DOMAIN f)
<1>1. count \in Nat
  BY SamplesFinite
<1>2. CASE count = 0
  BY <1>2 DEF LatencyStats, OrderedQuantiles
<1>3. CASE count # 0
  <2> DEFINE low   == (count - 1) \div 2
             high  == count \div 2
             slow  == P95Index(count)
  <2>1. /\ low \in Nat /\ high \in Nat /\ slow \in Nat
        /\ low <= high /\ slow <= count - 1
        /\ count > 1 => high <= slow
        /\ count = 1 => slow = 0
    BY <1>1, <1>3, P95IndexFits
  <2>a. high < count
    BY <1>1, <1>3
  <2> HIDE DEF count, low, high, slow
  <2>2. /\ Ordered(f, low) \in Nat /\ Ordered(f, high) \in Nat
        /\ Ordered(f, slow) \in Nat /\ Ordered(f, count - 1) \in Nat
    BY <1>1, <1>3, <2>1, <2>a, OrderedFits DEF count
  <2>3. Ordered(f, low) <= Ordered(f, high)
    BY <1>1, <2>1, <2>a, OrderedGrows DEF count
  <2>4. Ordered(f, slow) <= Ordered(f, count - 1)
    BY <1>1, <1>3, <2>1, OrderedGrows DEF count
  <2>5. high <= slow
    <3>1. count = 1 => high = 0
      BY DEF high
    <3> QED  BY <1>1, <1>3, <2>1, <3>1
  <2>6. Ordered(f, high) <= Ordered(f, slow)
    BY <1>1, <1>3, <2>1, <2>5, OrderedGrows DEF count
  <2>7. LatencyStats(f) = [count |-> count, twice_p50 |-> Ordered(f, low) + Ordered(f, high),
                           p95 |-> Ordered(f, slow), max |-> Ordered(f, count - 1)]
    BY <1>3 DEF LatencyStats, count, low, high, slow
  <2> QED  BY <1>1, <2>2, <2>3, <2>4, <2>6, <2>7 DEF OrderedQuantiles
<1> QED
  BY <1>2, <1>3

\* What is known of a result, of a report, and of the set of results a report is
\* put together from.
SoundResult(r) == r \in MetricResult /\ OrderedQuantiles(r.latency)
SoundReport(results) ==
  IsReport(results) /\ \A name \in DOMAIN results : SoundResult(results[name])

\* A count of cases is a number.
LEMMA CountIsNat ==
  ASSUME NEW S, NEW cases \in Seq(S), NEW verdicts
  PROVE  Count(cases, verdicts) \in Nat
<1>1. PICK n \in Nat : DOMAIN cases = 1 .. n
  <2>1. DOMAIN cases = 1 .. Len(cases) /\ Len(cases) \in Nat
    OBVIOUS
  <2> QED  BY <2>1
<1>2. IsFiniteSet(1 .. n)
  BY FS_Interval
<1>3. IsFiniteSet({i \in DOMAIN cases : cases[i].verdict \in verdicts})
  BY <1>1, <1>2, FS_Subset
<1> QED
  BY <1>3, FS_CardinalityType DEF Count

\* Measuring a list of timed cases, crashes among them or not.
LEMMA MeasureIsSound ==
  ASSUME NEW cases, cases \in Seq(Case) \/ cases \in Seq(Utterance)
  PROVE  SoundResult(Measure(cases))
<1> DEFINE n == Len(cases)
<1>1. /\ n \in Nat /\ DOMAIN cases = 1 .. n
      /\ \A i \in DOMAIN cases : cases[i].ms \in Nat
  <2>1. \A i \in DOMAIN cases : cases[i] \in Case \/ cases[i] \in Utterance
    OBVIOUS
  <2> QED  BY <2>1 DEF Case, Utterance
<1>2. IsTimings(Timed(cases), n)
  <2> HIDE DEF n
  <2> QED  BY <1>1 DEF IsTimings, Timed
<1>3. Count(cases, {"hit"}) \in Nat /\ Count(cases, Verdict) \in Nat
  BY CountIsNat
<1>4. /\ LatencyStats(Timed(cases)) \in [count : Nat, twice_p50 : Nat, p95 : Nat, max : Nat]
      /\ OrderedQuantiles(LatencyStats(Timed(cases)))
  <2> HIDE DEF n
  <2> QED  BY <1>1, <1>2, LatencyStatsOrdered
<1> QED
  BY <1>3, <1>4 DEF Measure, MetricResult, SoundResult

\* Every report is put together from measured results.
LEMMA ReportIsSound ==
  ASSUME NEW intent \in IntentResults, NEW real \in UtteranceResults,
         NEW retrieval, retrieval = {} \/ \E r \in RetrievalResults : retrieval = {r}
  PROVE  SoundReport(Report(intent, retrieval, real))
<1> DEFINE report0 == Report(intent, retrieval, real)
<1>1. SoundResult(intent) /\ SoundResult(real)
  BY EvaluationAssumption, MeasureIsSound DEF IntentResults, UtteranceResults
<1>2. \A r \in RetrievalResults : SoundResult(r)
  BY EvaluationAssumption, MeasureIsSound DEF RetrievalResults
<1>3. retrieval # {} => SoundResult(CHOOSE r \in retrieval : TRUE)
  <2> SUFFICES ASSUME retrieval # {} PROVE SoundResult(CHOOSE r \in retrieval : TRUE)
    OBVIOUS
  <2>1. \E r : r \in retrieval
    OBVIOUS
  <2>2. (CHOOSE r \in retrieval : TRUE) \in retrieval
    BY <2>1, Zenon
  <2> QED  BY <1>2, <2>2
<1>4. \A name \in DOMAIN report0 : SoundResult(report0[name])
  BY <1>1, <1>3, Zenon DEF Report
<1>5. DOMAIN report0 \in SUBSET Name /\ report0 = [name \in DOMAIN report0 |-> report0[name]]
  BY DEF Report, Name
<1>6. report0 \in [DOMAIN report0 -> MetricResult]
  <2> HIDE DEF report0
  <2> QED  BY <1>4, <1>5 DEF SoundResult
<1>7. IsReport(report0)
  <2> HIDE DEF report0
  <2> QED  BY <1>5, <1>6 DEF IsReport
<1> QED
  BY <1>4, <1>7, Zenon DEF SoundReport

-----------------------------------------------------------------------------
\* The command, run after run.

\* The baseline is a report of some earlier run.
GateInv == TypeOK /\ SoundReport(baseline) /\ SoundReport(report)

\* A run keeps the baseline or puts its own report in its place.
LEMMA RunConcludes ==
  ASSUME Next
  PROVE  \E measured, gated, save :
           SoundReport(measured) /\ gated \in BOOLEAN /\ Conclude(measured, gated, save)
<1>1. PICK retrieval :
        /\ retrieval = {} \/ \E r \in RetrievalResults : retrieval = {r}
        /\ Main(retrieval)
  BY DEF Next, Run, RunNoRetrieval
<1>2. PICK intent \in IntentResults, real \in UtteranceResults, gated \in BOOLEAN, save \in BOOLEAN :
        Conclude(Report(intent, retrieval, real), gated, save)
  BY <1>1 DEF Main
<1> QED
  BY <1>1, <1>2, ReportIsSound

LEMMA GateInvHolds == Spec => []GateInv
<1>1. Init => GateInv
  <2>1. NoMetrics = [name \in {} |-> 0]
    BY DEF NoMetrics
  <2>2. DOMAIN NoMetrics = {} /\ NoMetrics \in [{} -> MetricResult]
    BY <2>1
  <2>3. SoundReport(NoMetrics)
    BY <2>2 DEF SoundReport, IsReport
  <2> QED  BY <2>3 DEF Init, GateInv, TypeOK, SoundReport
<1>2. GateInv /\ [Next]_vars => GateInv'
  <2> SUFFICES ASSUME GateInv, [Next]_vars PROVE GateInv'
    OBVIOUS
  <2>1. CASE Next
    <3>1. PICK measured, gated, save :
            SoundReport(measured) /\ gated \in BOOLEAN /\ Conclude(measured, gated, save)
      BY <2>1, RunConcludes
    <3>2. /\ report' = measured /\ gate' = gated /\ exit' \in {0, 1}
          /\ baseline' = measured \/ baseline' = baseline
      BY <3>1 DEF Conclude
    <3>3. SoundReport(report') /\ SoundReport(baseline')
      BY <3>1, <3>2 DEF GateInv
    <3> QED  BY <3>1, <3>2, <3>3 DEF GateInv, TypeOK, SoundReport
  <2>2. CASE UNCHANGED vars
    BY <2>2 DEF vars, GateInv, TypeOK, SoundReport, IsReport
  <2> QED  BY <2>1, <2>2
<1> QED
  BY <1>1, <1>2, PTL DEF Spec

\* The quantiles of every report are ordered, for any cases and any times
\* (LatencyStats.from_samples).
THEOREM QuantilesAlwaysOrdered == Spec => []QuantilesOrdered
<1>1. GateInv => QuantilesOrdered
  BY DEF GateInv, SoundReport, SoundResult, OrderedQuantiles, QuantilesOrdered
<1> QED
  BY <1>1, GateInvHolds, PTL

\* A result does not regress against itself.
LEMMA NoRegressionAgainstItself ==
  ASSUME NEW r \in MetricResult
  PROVE  ~ LessAccurate(r, r) /\ ~ Slower(r, r)
<1>1. r.correct \in Nat /\ r.total \in Nat /\ r.latency.p95 \in Nat
  BY DEF MetricResult
<1>2. ~ Slower(r, r)
  BY <1>1 DEF Slower
<1> DEFINE n == IF r.total = 0 THEN 1 ELSE r.total
<1>3. n \in Nat /\ n >= 1 /\ 20 * r.correct * n \in Int
  BY <1>1
<1>4. n * n > 0 /\ n * n \in Int
  <2> HIDE DEF n
  <2> QED  BY <1>3
<1>5. ~ (20 * r.correct * n < 20 * r.correct * n - n * n)
  <2> HIDE DEF n
  <2> QED  BY <1>3, <1>4
<1>6. ~ LessAccurate(r, r)
  BY <1>5 DEF LessAccurate
<1> QED
  BY <1>2, <1>6

\* The gate: a run with --gate never moves the baseline by more than the
\* tolerances, and one that fails leaves it untouched (main).
THEOREM GateHolds == Spec => GatedBaselineHolds
<1> DEFINE Held ==
      gate' =>
        /\ exit' = 1 => UNCHANGED baseline
        /\ \A name \in DOMAIN baseline \intersect DOMAIN baseline' :
             /\ ~ LessAccurate(baseline'[name], baseline[name])
             /\ ~ Slower(baseline'[name], baseline[name])
<1>1. ASSUME GateInv, Next PROVE Held
  <2>1. PICK measured, gated, save : Conclude(measured, gated, save)
    BY <1>1, RunConcludes
  <2>2. exit' = 1 => UNCHANGED baseline
    BY <2>1 DEF Conclude
  <2>3. CASE baseline' = baseline
    <3>1. \A name \in DOMAIN baseline : baseline[name] \in MetricResult
      BY <1>1 DEF GateInv, SoundReport, SoundResult
    <3> QED  BY <2>2, <2>3, <3>1, NoRegressionAgainstItself
  <2>4. CASE baseline' = measured /\ exit' = 0 /\ gate'
    <3>1. Regressions(measured, baseline) = {}
      BY <2>1, <2>4 DEF Conclude
    <3> QED  BY <2>2, <2>4, <3>1 DEF Regressions
  <2>5. gate' => baseline' = baseline \/ (baseline' = measured /\ exit' = 0)
    BY <2>1 DEF Conclude
  <2> QED  BY <2>3, <2>4, <2>5
<1>2. GateInv /\ [Next]_vars => [Held]_vars
  BY <1>1
<1>3. Spec => [][Held]_vars
  BY <1>2, GateInvHolds, PTL DEF Spec
<1> QED
  BY <1>3 DEF GatedBaselineHolds
=============================================================================
