-------------------------- MODULE MCEvaluationGate --------------------------
(***************************************************************************)
(* The instance of EvaluationGate that TLC checks: sets of twenty-two      *)
(* cases, where one miss is within the tolerance and two are not, sets of  *)
(* one to thirty-one cases in rising or falling order of time, and a       *)
(* corpus with crashes or with nothing scored, which is reported like a    *)
(* missing one.                                                            *)
(***************************************************************************)
EXTENDS EvaluationGate

Hit(ms)  == [verdict |-> "hit", ms |-> ms]
Miss(ms) == [verdict |-> "miss", ms |-> ms]

Misses(n, ms) == [i \in 1 .. 22 |-> IF i <= n THEN Miss(ms) ELSE Hit(ms)]

MCIntentRuns ==
  {Misses(n, 6) : n \in 0 .. 2} \union {Misses(0, ms) : ms \in {4, 9, 10}}
  \union {[i \in 1 .. n |-> Hit(i)] : n \in {1, 3, 12}}
  \union {[i \in 1 .. n |-> Hit(n - i)] : n \in {2, 11, 31}}

MCRetrievalRuns == {Misses(1, 6), Misses(3, 6)}

Crash    == [verdict |-> "crash", ms |-> 0]
Unscored == [verdict |-> "unscored", ms |-> 8]

MCUtteranceRuns == {<< Unscored >>, << Hit(1), Miss(9), Unscored >>, << Hit(1), Crash >>}
=============================================================================
