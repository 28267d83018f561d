--------------------- MODULE IntentClassification_proofs ---------------------
(***************************************************************************)
(* Every message the rules classify is classified as promised, whatever    *)
(* set of texts the users draw from.                                       *)
(***************************************************************************)
EXTENDS IntentClassification, IntentRules_proofs

\* Once the message is classified, the result is the rules' for its text.
ByTheRules ==
  intent # None =>
    /\ intent = ClassifyIntentRuleBased(text, types)
    /\ extra_intents = CleanExtraIntents(intent, RuleBasedExtraIntents(text, types, intent))

Given == text \in Text /\ types \subseteq EntityType /\ (intent = None => extra_intents = << >>)

LEMMA NoneIsNoLabel == None \notin IntentLabel /\ None \notin ToolDrivenIntents
  BY DEF None, IntentLabel, ChainableIntents, ToolDrivenIntents

LEMMA RulesApplied == Spec => [](Given /\ ByTheRules)
<1>1. Init => Given /\ ByTheRules
  BY TextsAssumption DEF Init, Given, ByTheRules
<1>2. Given /\ ByTheRules /\ [Next]_vars => (Given /\ ByTheRules)'
  <2>1. SUFFICES ASSUME Given, ByTheRules, [Next]_vars
                 PROVE  (Given /\ ByTheRules)'
    OBVIOUS
  <2>2. CASE ClassifyIntent
    <3>1. intent' # None
      BY <2>1, <2>2, PrimaryIntent, NoneIsNoLabel DEF ClassifyIntent, Given
    <3> QED  BY <2>1, <2>2, <3>1 DEF ClassifyIntent, Given, ByTheRules
  <2>3. CASE UNCHANGED vars
    BY <2>1, <2>3 DEF vars, Given, ByTheRules
  <2> QED  BY <2>1, <2>2, <2>3 DEF Next
<1> QED  BY <1>1, <1>2, PTL DEF Spec

\* The queue, seen from the candidates it was made of.
LEMMA QueueOfCandidates ==
  ASSUME Given, ByTheRules, intent # None
  PROVE  /\ extra_intents \in Seq(ChainableIntents)
         /\ \A i, j \in DOMAIN extra_intents : i # j => extra_intents[i] # extra_intents[j]
         /\ \A i \in DOMAIN extra_intents :
              /\ extra_intents[i] \in ExtraCandidates(text, types, intent)
              /\ \A label \in (ExtraCandidates(text, types, intent) \cap ChainableIntents) \ Served :
                   Scores(text, types)[label] <= Scores(text, types)[extra_intents[i]]
<1> DEFINE raw    == RuleBasedExtraIntents(text, types, intent)
           scores == Scores(text, types)
<1>1. text \in Text /\ extra_intents = CleanExtraIntents(intent, raw)
  BY DEF Given, ByTheRules
<1>2. PICK n \in Nat :
        /\ DOMAIN raw = 1 .. n
        /\ \A i \in 1 .. n : raw[i] \in ExtraCandidates(text, types, intent)
        /\ \A label \in ExtraCandidates(text, types, intent) : \E i \in 1 .. n : raw[i] = label
        /\ \A i, j \in 1 .. n : i < j => scores[raw[j]] <= scores[raw[i]]
  BY <1>1, ExtrasAreCandidates
<1>3. FilteredQueue(intent, raw, extra_intents)
  <2> HIDE DEF raw
  <2> QED  BY <1>1, <1>2, CleanExtraIntentsQueue
<1> HIDE DEF raw
<1>4. \A label \in ExtraCandidates(text, types, intent) : scores[label] \in Nat
  BY <1>1, ScoresType DEF ExtraCandidates
<1> HIDE DEF scores
<1>5. ASSUME NEW i \in DOMAIN extra_intents,
             NEW label \in (ExtraCandidates(text, types, intent) \cap ChainableIntents) \ Served
      PROVE  scores[label] <= scores[extra_intents[i]]
  <2>1. PICK position \in DOMAIN raw :
          /\ extra_intents[i] = raw[position]
          /\ \A p \in DOMAIN raw :
               \/ raw[p] \notin ChainableIntents \ {intent}
               \/ \E j \in DOMAIN extra_intents : extra_intents[j] = raw[p]
               \/ position <= p
    BY <1>3 DEF FilteredQueue
  <2>2. PICK p \in 1 .. n : raw[p] = label
    BY <1>2, <1>5
  <2>3. label # intent /\ \A j \in DOMAIN extra_intents : extra_intents[j] # label
    BY <1>5 DEF Served
  <2>4. position \in 1 .. n /\ position <= p
    BY <1>2, <1>5, <2>1, <2>2, <2>3
  <2> QED  BY <1>2, <1>4, <2>1, <2>2, <2>4
<1>6. \A i \in DOMAIN extra_intents : extra_intents[i] \in ExtraCandidates(text, types, intent)
  BY <1>2, <1>3 DEF FilteredQueue
<1> QED  BY <1>3, <1>5, <1>6 DEF scores, FilteredQueue

\* The primary intent is a label, the queue a sequence of chainable ones.
THEOREM ClassifierTypeCorrect == Spec => []TypeOK
<1>1. Given /\ ByTheRules => TypeOK
  <2>1. SUFFICES ASSUME Given, ByTheRules  PROVE TypeOK
    OBVIOUS
  <2>2. CASE intent = None
    BY <2>1, <2>2 DEF TypeOK, Given
  <2>3. CASE intent # None
    BY <2>1, <2>3, PrimaryIntent, QueueOfCandidates DEF TypeOK, Given, ByTheRules
  <2> QED  BY <2>2, <2>3
<1> QED  BY <1>1, RulesApplied, PTL

\* An action is never chosen at a score some label that does not act shares.
THEOREM TiesNeverAct == Spec => []TieNeverActs
<1>1. Given /\ ByTheRules => TieNeverActs
  BY PrimaryIntent, NoneIsNoLabel DEF TieNeverActs, Given, ByTheRules
<1> QED  BY <1>1, RulesApplied, PTL

\* A further intent that acts was asked for in words, so at most the primary
\* one rests on an entity alone.
THEOREM EntitiesStartOneTool == Spec => []EntityStartsOneTool
<1>1. Given /\ ByTheRules => EntityStartsOneTool
  <2>1. SUFFICES ASSUME Given, ByTheRules,
                        NEW one \in Served \cap ToolDrivenIntents,
                        one # intent
                 PROVE  text.hits[one] # 0
    BY DEF EntityStartsOneTool
  <2>2. PICK i \in DOMAIN extra_intents : one = extra_intents[i]
    BY <2>1 DEF Served
  <2>3. intent # None
    BY <2>1, <2>2 DEF Given
  <2>4. one \in ExtraCandidates(text, types, intent)
    BY <2>1, <2>2, <2>3, QueueOfCandidates
  <2>5. BoostTypes[one] # {}
    BY <2>1, SixLabels DEF BoostTypes, ToolDrivenIntents
  <2> QED  BY <2>1, <2>4, <2>5 DEF ExtraCandidates, Given, Text
<1> QED  BY <1>1, RulesApplied, PTL

\* Of the candidates the strongest are served.
THEOREM StrongestAreKept == Spec => []StrongestKept
<1>1. Given /\ ByTheRules => StrongestKept
  <2>1. SUFFICES ASSUME Given, ByTheRules  PROVE StrongestKept
    OBVIOUS
  <2>2. CASE intent = None
    BY <2>1, <2>2 DEF StrongestKept, Given
  <2>3. CASE intent # None
    BY <2>1, <2>3, QueueOfCandidates DEF StrongestKept
  <2> QED  BY <2>2, <2>3
<1> QED  BY <1>1, RulesApplied, PTL
=============================================================================
