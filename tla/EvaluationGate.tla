--------------------------- MODULE EvaluationGate ---------------------------
(***************************************************************************)
(* python -m evaluation: what it measures, how a run is compared with the  *)
(* baseline that an earlier one saved, and when it replaces the baseline.  *)
(*                                                                         *)
(* A step is a whole run of the command.  What the system answers to a     *)
(* case, and how long it takes, is open: that is what changes between      *)
(* runs.  Latencies are whole milliseconds; means, the lists of misses and *)
(* the printed report are left out, and so is Langfuse, which only reads.  *)
(***************************************************************************)
EXTENDS Integers, Sequences, FiniteSets

CONSTANTS
  IntentRuns, RetrievalRuns,  \* how the cases of a set may turn out
  UtteranceRuns               \* the same for the corpus of real utterances

\* A case: what came of it and how long it took; only utterances crash or go unscored.
Verdict == {"hit", "miss"}
Case    == [verdict : Verdict, ms : Nat]
Utterance == [verdict : Verdict \union {"crash", "unscored"}, ms : Nat]

ASSUME EvaluationAssumption ==
  /\ IntentRuns \subseteq Seq(Case) /\ RetrievalRuns \subseteq Seq(Case)
  /\ UtteranceRuns \subseteq Seq(Utterance)

VARIABLES
  baseline,  \* data/eval_baseline.json: a result per metric it holds
  report,    \* the results of the last run
  gate,      \* whether it was run with --gate
  exit       \* its exit code

vars == << baseline, report, gate, exit >>

NoMetrics == << >>   \* no file, or no run yet

Init == baseline = NoMetrics /\ report = NoMetrics /\ gate = FALSE /\ exit = 0

-----------------------------------------------------------------------------
\* LatencyStats.

\* round(0.95 * last): a half goes to the even neighbour.
Rounded95(last) ==
  LET twentieths == 19 * last
      down == twentieths \div 20
      rest == twentieths % 20 IN
  IF rest > 10 \/ (rest = 10 /\ down % 2 = 1) THEN down + 1 ELSE down

\* Mutant: the index of the median.
P95IndexMedian(count) == (count - 1) \div 2

P95Index(count) ==
  IF Rounded95(count - 1) < count - 1 THEN Rounded95(count - 1) ELSE count - 1

(***************************************************************************)
(* sorted(samples)[index]: the least of the times that more than index     *)
(* samples do not exceed.                                                  *)
(***************************************************************************)
AtMost(samples, ms) == {i \in DOMAIN samples : samples[i] <= ms}
Reached(samples, index) ==
  {ms \in {samples[i] : i \in DOMAIN samples} : index < Cardinality(AtMost(samples, ms))}
Ordered(samples, index) ==
  CHOOSE ms \in Reached(samples, index) : \A other \in Reached(samples, index) : ms <= other

\* from_samples; p50 is doubled, for the median of an even number may be a half.
LatencyStats(samples) ==
  LET count == Cardinality(DOMAIN samples) IN
  IF count = 0 THEN [count |-> 0, twice_p50 |-> 0, p95 |-> 0, max |-> 0]
  ELSE [count     |-> count,
        twice_p50 |-> Ordered(samples, (count - 1) \div 2) + Ordered(samples, count \div 2),
        p95       |-> Ordered(samples, P95Index(count)),
        max       |-> Ordered(samples, count - 1)]

-----------------------------------------------------------------------------
\* The metrics.

Count(cases, verdicts) == Cardinality({i \in DOMAIN cases : cases[i].verdict \in verdicts})

\* A crash is neither scored nor timed, a case without an expectation only timed.
Timed(cases) ==
  [i \in {j \in DOMAIN cases : cases[j].verdict # "crash"} |-> cases[i].ms]

\* measure_intent, measure_retrieval, run_real_utterance_eval.
Measure(cases) ==
  [correct |-> Count(cases, {"hit"}),
   total   |-> Count(cases, Verdict),
   latency |-> LatencyStats(Timed(cases))]

IntentResults    == {Measure(cases) : cases \in IntentRuns}
RetrievalResults == {Measure(cases) : cases \in RetrievalRuns}
UtteranceResults == {Measure(cases) : cases \in UtteranceRuns}

\* run_all without a retriever measures intent only; no corpus, no third metric.
Report(intent, retrieval, real) ==
  LET named == {"intent_accuracy"}
                 \union (IF retrieval = {} THEN {} ELSE {"retrieval_p_at_1"})
                 \union (IF real.total = 0 THEN {} ELSE {"real_utterance_accuracy"}) IN
  [name \in named |->
     IF name = "intent_accuracy" THEN intent
     ELSE IF name = "retrieval_p_at_1" THEN CHOOSE r \in retrieval : TRUE
     ELSE real]

-----------------------------------------------------------------------------
\* The gate.

\* accuracy < prior - ACCURACY_TOLERANCE (0.05), as whole numbers; no case, accuracy 0.
\* The code compares floats, which may differ from this where both sides are
\* equal: 0.6 < 0.65 - 0.05 is true of them.
LessAccurate(now, prior) ==
  LET n == IF now.total = 0 THEN 1 ELSE now.total
      p == IF prior.total = 0 THEN 1 ELSE prior.total IN
  20 * now.correct * p < 20 * prior.correct * n - n * p

\* LATENCY_TOLERANCE_FACTOR 1.5 over a baseline of LATENCY_FLOOR_MS 5 or more.
Slower(now, prior) == prior.latency.p95 >= 5 /\ 2 * now.latency.p95 > 3 * prior.latency.p95

\* compare_to_baseline; a metric without a prior is skipped.
Regressions(now, prior) ==
  {name \in DOMAIN now \intersect DOMAIN prior :
     LessAccurate(now[name], prior[name]) \/ Slower(now[name], prior[name])}

\* Mutant: the baseline is saved before the gate is asked.
ConcludeSavedFirst(measured, gated, save) ==
  /\ report' = measured /\ gate' = gated
  /\ exit' = IF gated /\ Regressions(measured, baseline) # {} THEN 1 ELSE 0
  /\ baseline' = IF save THEN measured ELSE baseline

\* The end of main: a regression returns before --save is looked at.
Conclude(measured, gated, save) ==
  /\ report' = measured /\ gate' = gated
  /\ exit' = IF gated /\ Regressions(measured, baseline) # {} THEN 1 ELSE 0
  /\ baseline' = IF save /\ exit' = 0 THEN measured ELSE baseline

Main(retrieval) ==
  \E intent \in IntentResults, real \in UtteranceResults, gated, save \in BOOLEAN :
    Conclude(Report(intent, retrieval, real), gated, save)

Run            == \E r \in RetrievalResults : Main({r})
RunNoRetrieval == Main({})

Next == Run \/ RunNoRetrieval
Spec == Init /\ [][Next]_vars

-----------------------------------------------------------------------------
\* Properties.

Name == {"intent_accuracy", "retrieval_p_at_1", "real_utterance_accuracy"}
MetricResult ==
  [correct : Nat, total : Nat,
   latency : [count : Nat, twice_p50 : Nat, p95 : Nat, max : Nat]]
IsReport(results) == \E names \in SUBSET Name : results \in [names -> MetricResult]

TypeOK == IsReport(baseline) /\ IsReport(report) /\ gate \in BOOLEAN /\ exit \in {0, 1}

(***************************************************************************)
(* A run with --gate, saving or not, never moves the baseline of a metric  *)
(* by more than the tolerance, and one that fails leaves it untouched, so  *)
(* that the same run would fail again (main, compare_to_baseline).         *)
(***************************************************************************)
GatedBaselineHolds ==
  [][gate' =>
       /\ exit' = 1 => UNCHANGED baseline
       /\ \A name \in DOMAIN baseline \intersect DOMAIN baseline' :
            /\ ~LessAccurate(baseline'[name], baseline[name])
            /\ ~Slower(baseline'[name], baseline[name])]_vars

(***************************************************************************)
(* For any number and order of samples the quantiles are ordered: the      *)
(* median is not above the p95, nor the p95 above the maximum              *)
(* (LatencyStats.from_samples, index arithmetic for small sets).           *)
(***************************************************************************)
QuantilesOrdered ==
  \A name \in DOMAIN report :
    LET l == report[name].latency IN l.twice_p50 <= 2 * l.p95 /\ l.p95 <= l.max
=============================================================================
