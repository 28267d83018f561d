--------------------------- MODULE TurnInvariant ----------------------------
(***************************************************************************)
(* Why TurnGraph keeps its invariants: what is true at each node of a turn *)
(* in progress.  Every part is inductive relative to TypeOK and the parts  *)
(* before it; TurnGraph_proofs has the proofs.                             *)
(***************************************************************************)
EXTENDS TurnGraph

\* The nodes before the supervisor, the ones its loop consists of and the ones
\* after the last draft.
Fetching == {"memory_load", "ner_agent", "intent_agent"}
Serving  == {"supervisor", "advance_intent"} \union WorkerNode
Closing  == {"guardrail", "memory_save"}

InSequence(S) == {S[i] : i \in DOMAIN S}

\* Nothing of an earlier turn is left in the state a turn starts from.
FreshTurn ==
  node \in Fetching =>
    /\ intent = None /\ extra_intents = << >> /\ intent_source = None
    /\ pending_entity_request = NoPending
    /\ draft_answer = << >> /\ collected_drafts = << >>
    /\ ~ tool_agent_done /\ ~ worker_pass_done /\ iteration_count = 0
    /\ answered = << >> /\ asked = {}

\* What the router has established about a node when it chose it.
Routed ==
  /\ node = "tool_agent" =>
       intent \in ToolDrivenIntents /\ ~ tool_agent_done /\ carried_escalation_stage = None
  /\ node = "rag_agent" => intent = "RAG_QUERY" /\ ~ worker_pass_done
  /\ node = "smalltalk" =>
       intent = "SMALL_TALK" /\ ~ worker_pass_done /\ carried_escalation_stage = None
  /\ node = "advance_intent" => intent \in ChainableIntents /\ PassDone /\ extra_intents # << >>
  /\ node \in {"supervisor", "escalate", "synthesizer"} => intent \in IntentLabel
  /\ node = "escalate" /\ intent \in ChainableIntents => carried_escalation_stage # None
  /\ node = "synthesizer" => collected_drafts # << >>
  /\ node \in {"advance_intent", "synthesizer"} =>
       carried_escalation_stage \in {None, "awaiting_issue"}
  /\ node \in Closing => intent # None

\* An intent that cannot be chained is the only one of its message, so nothing
\* was answered or asked before it.
Unchained ==
  node \in {"supervisor", "escalate"} /\ intent \notin ChainableIntents =>
    /\ pending_entity_request = NoPending
    /\ answered = << >> /\ asked = {}

\* A turn either follows an open script or leaves a slot request, never both.
ThreadsApart ==
  node # "idle" =>
    /\ carried_pending_request = NoPending \/ carried_escalation_stage = None
    /\ \/ pending_entity_request = NoPending
       \/ carried_escalation_stage = None /\ escalation_stage = None

\* The iteration limit is reached by a finished tool pass, and nothing is
\* served after it.
LimitMeansDone ==
  node # "idle" /\ AtIterationLimit =>
    /\ node \in {"supervisor", "synthesizer"} \union Closing
    /\ intent \in ToolDrivenIntents /\ tool_agent_done
    /\ carried_escalation_stage = None

\* Only the escalate node moves the stage, and only to one that follows.
StageFollows ==
  /\ node \in {"ner_agent", "intent_agent", "escalate", "synthesizer"} \union Serving =>
       escalation_stage = carried_escalation_stage
  /\ node \in Closing =>
       /\ escalation_stage \in Script!Follow(carried_escalation_stage)
       /\ Handoff \notin AnsweredIntents => escalation_stage = carried_escalation_stage

\* No step count exceeds what the queue still allows: four nodes per intent.
StepBound ==
  LET queued == 4 * Len(extra_intents) IN
  /\ Len(extra_intents) <= 2
  /\ node = "memory_load"                => steps = 0
  /\ node = "ner_agent"                  => steps = 1
  /\ node = "intent_agent"               => steps = 2
  /\ node = "supervisor" /\ ~ PassDone   => steps <= 11 - queued
  /\ node \in WorkerNode                 => steps <= 12 - queued
  /\ node = "supervisor" /\ PassDone     => steps <= 13 - queued
  /\ node = "advance_intent"             => steps <= 14 - queued
  /\ node \in {"synthesizer", "escalate"} => steps <= 14
  /\ node = "guardrail"                  => steps <= 15
  /\ node = "memory_save"                => steps <= 16
  /\ steps <= MaxTurnSteps

\* The limit's flag is out of reach: guardrail raises it for a tool pass that is
\* not done, and the router leaves the loop at the limit only after one that is.
LimitNeverReported == "ESCALATED_ITERATION_LIMIT" \notin guardrail_flags

\* The text is the turn's answers, or what a model has made of several of them.
SpeaksForTurn(text) ==
  \/ text = answered
  \/ ~ deployment.fake /\ collected_drafts # << >> /\ text = << Merged >>

\* The answers written so far are the collected drafts and the draft in hand, in
\* that order; after the loop, outside a script, the draft speaks for them.
DraftsKept ==
  /\ node \in {"synthesizer"} \union Serving => answered = collected_drafts \o draft_answer
  /\ node \in WorkerNode \/ (node = "supervisor" /\ ~ PassDone) => draft_answer = << >>
  /\ node \in Closing /\ carried_escalation_stage = None => SpeaksForTurn(draft_answer)
  /\ node = "memory_save" /\ carried_escalation_stage = None /\ guardrail_flags \subseteq {"PII_REDACTED"}
       => SpeaksForTurn(final_answer)

\* The intents answered, the one in hand and the queued ones are all different.
PlanDistinct ==
  /\ NoIntentServedTwice
  /\ \A i, j \in DOMAIN extra_intents : i # j => extra_intents[i] # extra_intents[j]
  /\ node \in Serving =>
       /\ intent \notin InSequence(extra_intents)
       /\ AnsweredIntents \cap InSequence(extra_intents) = {}
       /\ ~ PassDone => intent \notin AnsweredIntents
  /\ node \in {"escalate"} \union Serving => Handoff \notin AnsweredIntents

\* With a session account only a card is asked for, and that request stays
\* until the turn is saved.
AskedRemembered ==
  node # "idle" /\ deployment.session =>
    /\ asked \subseteq {pending_entity_request}
    /\ asked \subseteq {[intent |-> "CARD_ACTION", entity_type |-> "CARD_LAST4"]}

\* A request waits for the entity its own tool needs, and only the
\* deterministic mode leaves one.
WellFormedRequest(request) ==
  request # NoPending => deployment.fake /\ request.entity_type = RequiredEntity(request.intent)

RequestsWellFormed ==
  /\ WellFormedRequest(stored.pending)
  /\ WellFormedRequest(carried_pending_request)
  /\ WellFormedRequest(pending_entity_request)

\* A turn that fills a slot has one tool pass to do and then the one answer.
SlotFillRuns ==
  intent_source = "slot_fill" /\ node # "idle" =>
    /\ carried_pending_request # NoPending /\ carried_pending_request.entity_type \in entities
    /\ pending_entity_request = NoPending /\ extra_intents = << >> /\ collected_drafts = << >>
    /\ node \in {"supervisor", "tool_agent"} \union Closing
    /\ intent = carried_pending_request.intent
    /\ answered = IF tool_agent_done THEN << intent >> ELSE << >>
    /\ node \in Closing => tool_agent_done

\* LangGraph has not ended the turn.
NotGivenUp == outcome # "recursion_error"

\* The inductive invariant.
IInv ==
  /\ TypeOK /\ FreshTurn /\ Routed /\ Unchained /\ ThreadsApart /\ OneOpenThread
  /\ LimitMeansDone /\ LimitNeverReported /\ StageFollows /\ StepBound
  /\ DraftsKept /\ PlanDistinct /\ ScriptRunsNoTool
  /\ AskedRemembered /\ RequestsWellFormed /\ SlotFillRuns
=============================================================================
