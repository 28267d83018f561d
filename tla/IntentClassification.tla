------------------------ MODULE IntentClassification ------------------------
(***************************************************************************)
(* One message classified by the rules of IntentRules: the primary intent  *)
(* and the queue of further intents that intent_agent keeps of it.         *)
(***************************************************************************)
EXTENDS IntentRules

CONSTANTS Texts   \* the texts a message may have

ASSUME TextsAssumption == Texts \subseteq Text

VARIABLES text, types, intent, extra_intents

vars == << text, types, intent, extra_intents >>

Init ==
  /\ text \in Texts
  /\ types \in SUBSET EntityType
  /\ intent = None /\ extra_intents = << >>

\* classify_intent and the filter intent_agent puts on its further intents.
ClassifyIntent ==
  /\ intent = None
  /\ intent' = ClassifyIntentRuleBased(text, types)
  /\ extra_intents' = CleanExtraIntents(intent', RuleBasedExtraIntents(text, types, intent'))
  /\ UNCHANGED << text, types >>

Next == ClassifyIntent

Spec == Init /\ [][Next]_vars

-----------------------------------------------------------------------------
\* Properties.

\* The intents the message is given.
Served == {intent} \union {extra_intents[i] : i \in DOMAIN extra_intents}

TypeOK ==
  /\ text \in Text
  /\ types \subseteq EntityType
  /\ intent \in IntentLabel \union {None}
  /\ extra_intents \in Seq(ChainableIntents)

\* A score an action shares with a label that only talks never acts: blocking a
\* card by mistake cannot be undone, a needless hand-off can (_resolve_tie).
TieNeverActs ==
  intent \in ToolDrivenIntents =>
    \A label \in ScoredLabel \ ToolDrivenIntents :
      Scores(text, types)[label] < Scores(text, types)[intent]

\* One entity starts one tool: of the tools a message runs at most one has no
\* keyword of its own in the text (the shared boost of an IBAN).
EntityStartsOneTool ==
  \A one, other \in Served \cap ToolDrivenIntents :
    text.hits[one] = 0 /\ text.hits[other] = 0 => one = other

\* Cutting the queue to two keeps the strongest: no chainable candidate left out
\* has a higher score than one that is served.
StrongestKept ==
  \A i \in DOMAIN extra_intents :
    \A label \in (ExtraCandidates(text, types, intent) \cap ChainableIntents) \ Served :
      Scores(text, types)[label] <= Scores(text, types)[extra_intents[i]]
=============================================================================
