---------------------------- MODULE IntentLabels ----------------------------
(***************************************************************************)
(* The vocabulary the agents share: the seven intent labels, the entity    *)
(* types a banking tool is addressed by, the slot a paused tool request    *)
(* waits for and the stages of the scripted hand-off to a human.  The      *)
(* modules about the agents extend this one.                               *)
(***************************************************************************)
EXTENDS Integers, Sequences

\* What the supervisor treats as "a tool has to run".
ToolDrivenIntents == {"ACCOUNT_ACTION", "TRANSACTION_ACTION", "CARD_ACTION"}

\* Intents that may share a turn with others; a hand-off to a human or an
\* out-of-scope message is never chained.
ChainableIntents == ToolDrivenIntents \union {"RAG_QUERY", "SMALL_TALK"}

IntentLabel == ChainableIntents \union {"ESCALATE", "OUT_OF_SCOPE"}

\* The absence of a value (Python's None) in a field of strings.
None == "None"

-----------------------------------------------------------------------------
\* Slots: which entity a tool-driven intent cannot run without.

RecallableTypes == {"IBAN", "CARD_LAST4"}

RequiredEntity(intent) ==
  IF intent = "CARD_ACTION" THEN "CARD_LAST4" ELSE "IBAN"

\* A paused request: the intent to resume and the entity type it waits for.
\* Everything else a PendingEntityRequest carries is left to the modules that
\* have a property about it.
PendingRequest == [intent : ToolDrivenIntents, entity_type : RecallableTypes]
NoPending      == [intent |-> None, entity_type |-> None]

-----------------------------------------------------------------------------
\* The scripted hand-off to a human agent.

ScriptStage == {"verifying", "awaiting_issue", "resolved"}
Stage       == ScriptStage \union {None}

-----------------------------------------------------------------------------
\* The queue of further intents one message may carry.

\* Mutants: any label is chained; a repeated label is chained twice.
KeptPositionsUnfiltered(primary, raw) ==
  {i \in DOMAIN raw : raw[i] # primary /\ \A j \in 1 .. (i - 1) : raw[j] # raw[i]}
KeptPositionsRepeating(primary, raw) ==
  {i \in DOMAIN raw : raw[i] \in ChainableIntents \ {primary}}

\* The positions of `raw' that survive the filter: chainable, not the primary
\* intent, and the first occurrence of their label.
KeptPositions(primary, raw) ==
  {i \in DOMAIN raw : /\ raw[i] \in ChainableIntents \ {primary}
                      /\ \A j \in 1 .. (i - 1) : raw[j] # raw[i]}

Earliest(S) == CHOOSE i \in S : \A j \in S : i <= j

\* Mutant: the queue is not cut off.
CleanExtraIntentsUncut(primary, raw) ==
  SelectSeq(raw, LAMBDA label : label \in ChainableIntents \ {primary})

\* At most two further intents are taken, in the order the classifier gave.
CleanExtraIntents(primary, raw) ==
  LET kept   == KeptPositions(primary, raw)
      first  == Earliest(kept)
      second == Earliest(kept \ {first})
  IN  CASE kept = {}      -> << >>
        [] kept = {first} -> << raw[first] >>
        [] OTHER          -> << raw[first], raw[second] >>
=============================================================================
