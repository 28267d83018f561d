---------------------------- MODULE IntentRules -----------------------------
(***************************************************************************)
(* The rule-based intent classifier: the path every message takes without  *)
(* an LLM, and the fallback when the LLM's answer cannot be used.          *)
(*                                                                         *)
(* A text is reduced to what the rules look at: how many keywords of each  *)
(* label it contains, the labels one of whose several-word phrases it      *)
(* contains, and its tone.  Which words they are is left out.              *)
(***************************************************************************)
EXTENDS IntentLabels, FiniteSets

\* The labels that have keywords, in the order the dictionary lists them.
LabelOrder == << "RAG_QUERY", "ACCOUNT_ACTION", "TRANSACTION_ACTION", "CARD_ACTION",
                 "SMALL_TALK", "ESCALATE" >>
ScoredLabel == {LabelOrder[i] : i \in DOMAIN LabelOrder}
Rank(label) == CHOOSE i \in DOMAIN LabelOrder : LabelOrder[i] = label

EntityType == RecallableTypes \union {"ACCOUNT_TYPE"}

\* The entity types that count as evidence for a label.
BoostTypes == [label \in ScoredLabel |->
  IF label = "CARD_ACTION" THEN {"CARD_LAST4"}
  ELSE IF label = "ACCOUNT_ACTION" THEN {"IBAN", "ACCOUNT_TYPE"}
  ELSE IF label = "TRANSACTION_ACTION" THEN {"IBAN"} ELSE {}]

Tone == {"greeting_shorthand", "complaint", "plain"}

\* A phrase that is found is one of the keywords that are counted.
Text == {spoken \in [hits    : [ScoredLabel -> Nat],
                   phrases : SUBSET ScoredLabel,
                   tone    : Tone] :
           \A label \in spoken.phrases : spoken.hits[label] > 0}

-----------------------------------------------------------------------------
\* One point per keyword, one more for a supporting entity.
Scores(text, types) == [label \in ScoredLabel |->
  text.hits[label] + IF BoostTypes[label] \cap types # {} THEN 1 ELSE 0]

FirstOf(labels) == CHOOSE label \in labels : \A other \in labels : Rank(label) <= Rank(other)

\* Mutant: the first of the best labels wins, whatever it would do.
ResolveTieByOrder(scores) ==
  FirstOf({label \in ScoredLabel : \A other \in ScoredLabel : scores[other] <= scores[label]})

\* Of the labels with the best score one that does not act wins.
ResolveTie(scores) ==
  LET tied      == {label \in ScoredLabel :
                      \A other \in ScoredLabel : scores[other] <= scores[label]}
      nonAction == tied \ ToolDrivenIntents
  IN  IF nonAction # {} THEN FirstOf(nonAction) ELSE FirstOf(tied)

ClassifyIntentRuleBased(text, types) ==
  LET scores == Scores(text, types)
      best   == ResolveTie(scores)
  IN  IF text.tone = "greeting_shorthand" THEN "SMALL_TALK"
      ELSE IF text.tone = "complaint" THEN "ESCALATE"
      ELSE IF scores[best] = 0 THEN "OUT_OF_SCOPE" ELSE best

\* Mutant: an entity is enough for a second intent.
ExtraCandidatesUncorroborated(text, types, primary) ==
  {label \in ScoredLabel \ {primary} : Scores(text, types)[label] >= 1}

\* A further intent that acts needs a phrase of several words of its own.
ExtraCandidates(text, types, primary) ==
  {label \in ScoredLabel \ {primary} :
     /\ Scores(text, types)[label] >= 1
     /\ BoostTypes[label] # {} => label \in text.phrases}

\* Mutant: the candidates are left in the order of the dictionary.
RuleBasedExtraIntentsUnsorted(text, types, primary) ==
  SelectSeq(LabelOrder, LAMBDA label : label \in ExtraCandidates(text, types, primary))

\* The candidates by falling score; equal scores keep the dictionary's order.
RuleBasedExtraIntents(text, types, primary) ==
  LET candidates == ExtraCandidates(text, types, primary)
      scores     == Scores(text, types)
      Precedes(a, b) == \/ scores[a] > scores[b]
                        \/ scores[a] = scores[b] /\ Rank(a) < Rank(b)
  IN  [n \in 1 .. Cardinality(candidates) |->
         CHOOSE label \in candidates :
           Cardinality({other \in candidates : Precedes(other, label)}) = n - 1]
=============================================================================
