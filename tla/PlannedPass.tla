---------------------------- MODULE PlannedPass -----------------------------
(***************************************************************************)
(* TurnGraph has a planned pass through tool_agent as one step of a turn;  *)
(* PlannedTools has what happens in it.  Here the two are composed: a pass *)
(* begins in a turn that has come to tool_agent, and its end is the update *)
(* that _reasoning_tool_call returns to the graph.                         *)
(***************************************************************************)
EXTENDS PlannedTools

CONSTANT turn   \* the state of TurnGraph when its node is tool_agent

\* The graph is within its recursion limit, and the model is a real one.
ASSUME TurnAssumption ==
  ~turn.deployment.fake /\ turn.steps < turn.deployment.recursion_limit

\* Mutant: the calls write to the state of the graph as they are made.
EndedOrCalling(value, otherwise) == IF pc \in {"call", "done"} THEN value ELSE otherwise

\* The update is returned at the end; until then the state is as it was.
Ended(value, otherwise) == IF pc = "done" THEN value ELSE otherwise

\* The draft speaks to the intent that was routed here, whatever its text.
PassDraft == IF draft_answer = "empty" THEN << >> ELSE << turn.intent >>

Turn == INSTANCE TurnGraph WITH
  Deployments <- {turn.deployment}, RawExtras <- {turn.extra_intents},
  node <- CASE pc = "done" -> "supervisor" [] pc = "lost" -> "idle" [] OTHER -> "tool_agent",
  outcome <- IF pc = "lost" THEN "lost" ELSE turn.outcome,
  entities <- TypesOf(entities),
  draft_answer <- Ended(PassDraft, turn.draft_answer),
  iteration_count <- Ended(turn.iteration_count + Len(collected), turn.iteration_count),
  tool_agent_done <- Ended(TRUE, turn.tool_agent_done),
  answered <- Ended(turn.answered \o PassDraft, turn.answered),
  steps <- Ended(turn.steps + 1, turn.steps),
  \* a pass leaves the rest as it is
  deployment <- turn.deployment, stored <- turn.stored,
  carried_pending_request <- turn.carried_pending_request,
  carried_escalation_stage <- turn.carried_escalation_stage,
  user_query <- turn.user_query, intent <- turn.intent,
  intent_source <- turn.intent_source, extra_intents <- turn.extra_intents,
  pending_entity_request <- turn.pending_entity_request,
  escalation_stage <- turn.escalation_stage,
  collected_drafts <- turn.collected_drafts, worker_pass_done <- turn.worker_pass_done,
  final_answer <- turn.final_answer, guardrail_flags <- turn.guardrail_flags,
  asked <- turn.asked

(***************************************************************************)
(* What TurnGraph takes for granted of a planned pass is true of it: as    *)
(* far as the turn can see it is one step, ReasonOverTools, with no more   *)
(* records than that allows, or the loss of the turn; and nothing of it is *)
(* seen before it ends (_reasoning_tool_call returns one update).          *)
(***************************************************************************)
PassIsToolAgent ==
  [][pc = "ner" \/ Turn!ToolAgent \/ Turn!TurnLost]_(Turn!vars)
=============================================================================
