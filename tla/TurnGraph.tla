----------------------------- MODULE TurnGraph ------------------------------
(***************************************************************************)
(* One conversation served turn after turn by the compiled agent graph.    *)
(*                                                                         *)
(* `node' is the graph node that runs next; each node is one action, and   *)
(* the assignments of an action are the partial update its handler         *)
(* returns.  What a worker writes is abstracted to the intent it answers:  *)
(* a draft is the sequence of intents it speaks to, so that losing,        *)
(* repeating or reordering an answer is visible and its wording is not;    *)
(* what a model makes of several drafts is one more text, whatever it says.*)
(* Between turns only `stored' survives: the slot request and the hand-off *)
(* stage of the conversation's context.  (The history of messages and      *)
(* concurrent turns of one conversation are the subject of                 *)
(* ConversationMemory.)                                                    *)
(***************************************************************************)
EXTENDS IntentLabels

CONSTANTS
  MaxAgentIterations,  \* settings.max_agent_iterations
  Deployments,         \* the configurations under study, see Deployment
  RawExtras            \* lists of further intents the classifier may return

\* fake: the deterministic mode without an LLM provider.
\* session: settings.demo_account_id names an account.
\* recursion_limit: LangGraph's bound on the node executions of a run.
Deployment == [fake : BOOLEAN, session : BOOLEAN, recursion_limit : Nat \ {0}]

ASSUME LimitsAssumption == MaxAgentIterations \in Nat \ {0}

ASSUME InputsAssumption ==
  /\ Deployments \subseteq Deployment
  /\ RawExtras \subseteq Seq(IntentLabel)

ToolCallsPerHop == 3

\* How split_cancellation reads a message: no cancellation, nothing but a
\* cancellation, or a cancellation followed by another request.
Query == {"request", "cancel", "cancel_and_request"}

\* How intent_agent came to its intent (the summary of its trace step).
IntentSource == {"cancelled_continued", "cancelled", "slot_fill", "follow_up", "classified"}

Handoff == "HANDOFF"   \* the answer of the escalate node, whatever its text
Merged  == "MERGED"    \* a text the model makes of several drafts, whatever it keeps of them
Answer  == ChainableIntents \union {Handoff, Merged}

WorkerNode == {"rag_agent", "tool_agent", "smalltalk"}
Node == {"idle", "memory_load", "ner_agent", "intent_agent", "supervisor", "escalate",
         "advance_intent", "synthesizer", "guardrail", "memory_save"} \union WorkerNode

GuardrailFlag == {"PII_REDACTED", "FINANCIAL_ADVICE_BLOCKED", "ESCALATED_ITERATION_LIMIT",
                  "NO_DRAFT_PRODUCED", "PROMPT_INJECTION_DETECTED", "MODEL_IDENTITY_REDACTED"}

VARIABLES
  deployment,      \* the configuration the process was started with
  stored,          \* the conversation's context in the memory backend
  node,            \* the graph node that runs next; "idle" between turns
  \* GraphState: what memory_load, ner_agent and intent_agent leave behind
  carried_pending_request, carried_escalation_stage,
  user_query, entities, intent, intent_source, extra_intents,
  \* GraphState: what the workers leave behind
  pending_entity_request, escalation_stage,
  draft_answer, collected_drafts, tool_agent_done, worker_pass_done, iteration_count,
  \* GraphState: what guardrail leaves behind
  final_answer, guardrail_flags,
  \* history of the turn, for the properties
  steps,           \* node executions so far
  answered,        \* the answers written, in the order they were written
  asked,           \* the slot requests the user was asked to fill
  outcome          \* how the last turn ended

memoryVars  == << carried_pending_request, carried_escalation_stage >>
intentVars  == << user_query, entities, intent, intent_source, extra_intents >>
passVars    == << draft_answer, collected_drafts, tool_agent_done, worker_pass_done,
                  iteration_count >>
carryVars   == << pending_entity_request, escalation_stage >>
resultVars  == << final_answer, guardrail_flags >>
historyVars == << answered, asked, outcome >>

vars == << deployment, stored, node, memoryVars, intentVars, passVars, carryVars, resultVars,
           steps, historyVars >>

Context == [pending : PendingRequest \union {NoPending}, stage : Stage]
EmptyContext == [pending |-> NoPending, stage |-> None]

\* new_state is the GraphState a turn starts from; Init describes the process
\* before its first request with the same values.
Init ==
  /\ deployment \in Deployments
  /\ stored = EmptyContext
  /\ node = "idle"
  /\ carried_pending_request = NoPending /\ carried_escalation_stage = None
  /\ user_query = "request" /\ entities = {}
  /\ intent = None /\ intent_source = None /\ extra_intents = << >>
  /\ pending_entity_request = NoPending /\ escalation_stage = None
  /\ draft_answer = << >> /\ collected_drafts = << >>
  /\ tool_agent_done = FALSE /\ worker_pass_done = FALSE
  /\ iteration_count = 0
  /\ final_answer = << >> /\ guardrail_flags = {}
  /\ steps = 0 /\ answered = << >> /\ asked = {} /\ outcome = None

\* A chat request: a fresh GraphState enters the graph at memory_load.
ChatRequest ==
  /\ node = "idle"
  /\ node' = "memory_load"
  /\ user_query' \in Query /\ entities' = {}
  /\ carried_pending_request' = NoPending /\ carried_escalation_stage' = None
  /\ intent' = None /\ intent_source' = None /\ extra_intents' = << >>
  /\ pending_entity_request' = NoPending /\ escalation_stage' = None
  /\ draft_answer' = << >> /\ collected_drafts' = << >>
  /\ tool_agent_done' = FALSE /\ worker_pass_done' = FALSE
  /\ iteration_count' = 0
  /\ final_answer' = << >> /\ guardrail_flags' = {}
  /\ steps' = 0 /\ answered' = << >> /\ asked' = {} /\ outcome' = "running"
  /\ UNCHANGED << deployment, stored >>

\* The graph executes node n and goes on to node m.
Transition(n, m) ==
  /\ node = n
  /\ steps < deployment.recursion_limit
  /\ node' = m
  /\ steps' = steps + 1
  /\ UNCHANGED deployment

\* Mutant: the stage is not carried over for turns that never reach escalate.
MemoryLoadForgettingStage ==
  /\ Transition("memory_load", "ner_agent")
  /\ \E context \in {stored, EmptyContext} :
       /\ carried_pending_request' = context.pending
       /\ carried_escalation_stage' = context.stage
  /\ UNCHANGED << stored, intentVars, passVars, carryVars, resultVars, historyVars >>

\* The context is read from the backend; a backend that cannot be reached
\* yields an empty context instead of an error.
MemoryLoad ==
  /\ Transition("memory_load", "ner_agent")
  /\ \E context \in {stored, EmptyContext} :
       /\ carried_pending_request' = context.pending
       /\ carried_escalation_stage' = context.stage
       /\ escalation_stage' = context.stage
  /\ UNCHANGED << stored, intentVars, passVars, pending_entity_request, resultVars, historyVars >>

\* Whatever the message and the recalled history mention.
NerAgent ==
  /\ Transition("ner_agent", "intent_agent")
  /\ entities' \in SUBSET RecallableTypes
  /\ UNCHANGED << stored, memoryVars, user_query, intent, intent_source, extra_intents, passVars,
                  carryVars, resultVars, historyVars >>

\* The message as split_cancellation leaves it: the rest of a cancelled
\* message is a message of its own, whatever it then reads as.
IntentAgent ==
  LET pending == carried_pending_request
      waiting == pending # NoPending
      Classified(new, extras, source) ==
        /\ intent' = new
        /\ extra_intents' = extras
        /\ intent_source' = source
  IN
  /\ Transition("intent_agent", "supervisor")
  /\ pending_entity_request' = NoPending
  /\ \/ /\ waiting /\ user_query = "cancel_and_request"
        /\ \E new \in IntentLabel : Classified(new, << >>, "cancelled_continued")
        /\ user_query' \in Query
     \/ /\ waiting /\ user_query = "cancel"
        /\ Classified("SMALL_TALK", << >>, "cancelled")
        /\ UNCHANGED user_query
     \/ /\ waiting /\ user_query = "request" /\ pending.entity_type \in entities
        /\ Classified(pending.intent, << >>, "slot_fill")
        /\ UNCHANGED user_query
     \/ /\ ~ (waiting /\ (user_query # "request" \/ pending.entity_type \in entities))
        /\ \/ \E new \in IntentLabel, raw \in RawExtras :
                Classified(new, CleanExtraIntents(new, raw), "classified")
           \/ Classified("RAG_QUERY", << >>, "follow_up")   \* an out-of-scope follow-up
        /\ UNCHANGED user_query
  /\ UNCHANGED << stored, memoryVars, entities, passVars, escalation_stage, resultVars,
                  historyVars >>

-----------------------------------------------------------------------------
\* The supervisor's routing decision.

FinishOnly == IF collected_drafts # << >> THEN "synthesizer" ELSE "guardrail"

\* Mutant: the last intent's pass ends without the synthesizer.
AdvanceOrGuardrail == IF extra_intents # << >> THEN "advance_intent" ELSE "guardrail"

AdvanceOrFinish == IF extra_intents # << >> THEN "advance_intent" ELSE FinishOnly

\* Mutants: an awaited issue lets every intent through; a resolved script is
\* not closed by the next turn.
ScriptTakesTurnUnlessAwaiting == carried_escalation_stage \notin {None, "awaiting_issue"}
ScriptTakesTurnUntilResolved ==
  /\ carried_escalation_stage \in {"verifying", "awaiting_issue"}
  /\ ~ (carried_escalation_stage = "awaiting_issue" /\ intent = "RAG_QUERY")

\* An active hand-off script takes the turn whatever its intent, except for a
\* question the knowledge base can answer while the user's issue is awaited.
ScriptTakesTurn ==
  /\ carried_escalation_stage # None
  /\ ~ (carried_escalation_stage = "awaiting_issue" /\ intent = "RAG_QUERY")

AtIterationLimit == iteration_count >= MaxAgentIterations

WorkerFor(i) ==
  IF i \in ToolDrivenIntents THEN "tool_agent"
  ELSE IF i = "RAG_QUERY" THEN "rag_agent" ELSE "smalltalk"

PassDone == IF intent \in ToolDrivenIntents THEN tool_agent_done ELSE worker_pass_done

Route ==
  IF ScriptTakesTurn \/ intent \notin ChainableIntents THEN "escalate"
  ELSE IF intent \in ToolDrivenIntents /\ AtIterationLimit THEN FinishOnly
  ELSE IF ~ PassDone THEN WorkerFor(intent) ELSE AdvanceOrFinish

Supervisor ==
  /\ Transition("supervisor", Route)
  /\ UNCHANGED << stored, memoryVars, intentVars, passVars, carryVars, resultVars, historyVars >>

\* The next queued intent becomes the active one; the finished draft is kept
\* for the synthesizer.
AdvanceIntent ==
  /\ Transition("advance_intent", "supervisor")
  /\ intent' = Head(extra_intents)
  /\ extra_intents' = Tail(extra_intents)
  /\ collected_drafts' = collected_drafts \o draft_answer
  /\ draft_answer' = << >>
  /\ worker_pass_done' = FALSE
  /\ tool_agent_done' = FALSE
  /\ UNCHANGED << stored, memoryVars, user_query, entities, intent_source, iteration_count,
                  carryVars, resultVars, historyVars >>

-----------------------------------------------------------------------------
\* The workers.

\* Mutant: the worker does not say that its pass is done.
RagAgentForgettingPass ==
  /\ Transition("rag_agent", "supervisor")
  /\ draft_answer' = << intent >>
  /\ answered' = Append(answered, intent)
  /\ UNCHANGED << stored, memoryVars, intentVars, collected_drafts, tool_agent_done,
                  worker_pass_done, iteration_count, carryVars, resultVars, asked, outcome >>

RagAgent ==
  /\ Transition("rag_agent", "supervisor")
  /\ draft_answer' = << intent >>
  /\ worker_pass_done' = TRUE
  /\ answered' = Append(answered, intent)
  /\ UNCHANGED << stored, memoryVars, intentVars, collected_drafts, tool_agent_done,
                  iteration_count, carryVars, resultVars, asked, outcome >>

SmallTalk ==
  /\ Transition("smalltalk", "supervisor")
  /\ draft_answer' = << intent >>
  /\ worker_pass_done' = TRUE
  /\ answered' = Append(answered, intent)
  /\ UNCHANGED << stored, memoryVars, intentVars, collected_drafts, tool_agent_done,
                  iteration_count, carryVars, resultVars, asked, outcome >>

\* Mutant: an entity the user gives is not looked at.
EntityAvailableInSession == RequiredEntity(intent) = "IBAN" /\ deployment.session

\* The session knows the customer's account, so only a card is ever asked
\* for when there is one.
EntityAvailable ==
  \/ RequiredEntity(intent) \in entities
  \/ RequiredEntity(intent) = "IBAN" /\ deployment.session

\* Without the entity its tool needs the agent asks for it.
AskForEntity ==
  LET request == [intent |-> intent, entity_type |-> RequiredEntity(intent)] IN
  /\ deployment.fake /\ ~ EntityAvailable
  /\ draft_answer' = << intent >>
  /\ pending_entity_request' = request
  /\ asked' = asked \union {request}
  /\ UNCHANGED iteration_count

\* Mutant: a tool call drops the request of an earlier intent of the message.
CallMappedToolClearing ==
  /\ deployment.fake /\ EntityAvailable
  /\ draft_answer' = << intent >>
  /\ iteration_count' = iteration_count + 1
  /\ pending_entity_request' = NoPending
  /\ UNCHANGED asked

\* One tool call, successful or not: either way it ends in a written answer.
CallMappedTool ==
  /\ deployment.fake /\ EntityAvailable
  /\ draft_answer' = << intent >>
  /\ iteration_count' = iteration_count + 1
  /\ UNCHANGED << pending_entity_request, asked >>

\* The model plans its calls: at most ToolCallsPerHop in each of at most
\* MaxAgentIterations hops, and a concluding text that may be empty.
ReasonOverTools ==
  /\ ~ deployment.fake
  /\ draft_answer' \in {<< intent >>, << >>}
  /\ \E calls \in 0 .. (ToolCallsPerHop * MaxAgentIterations) :
       iteration_count' = iteration_count + calls
  /\ UNCHANGED << pending_entity_request, asked >>

ToolAgent ==
  /\ Transition("tool_agent", "supervisor")
  /\ AskForEntity \/ CallMappedTool \/ ReasonOverTools
  /\ tool_agent_done' = TRUE
  /\ answered' = answered \o draft_answer'
  /\ UNCHANGED << stored, memoryVars, intentVars, collected_drafts, worker_pass_done,
                  escalation_stage, resultVars, outcome >>

\* The scripted hand-off.  Outside the script a hand-off request starts it, an
\* unanswered slot request is repeated, anything else is out of scope.
EscalateAgent ==
  LET stage    == carried_escalation_stage
      pending  == carried_pending_request
      Step(next) == /\ intent' = "ESCALATE"
                    /\ escalation_stage' = next
                    /\ UNCHANGED pending_entity_request
      Outside  == /\ escalation_stage' = None
                  /\ UNCHANGED intent
      cancelled == user_query \in {"cancel", "cancel_and_request"}
  IN
  /\ Transition("escalate", "guardrail")
  /\ draft_answer' = << Handoff >>
  /\ answered' = Append(answered, Handoff)
  /\ \/ stage \in {"verifying", "awaiting_issue"} /\ cancelled /\ Step(None)
     \/ stage = "verifying" /\ ~ cancelled /\ Step("awaiting_issue")  \* four digits given
     \/ stage = "verifying" /\ ~ cancelled /\ Step("verifying")       \* asked again
     \/ stage = "awaiting_issue" /\ ~ cancelled /\ Step("resolved")
     \/ stage = "resolved" /\ Step(None)
     \/ stage = None /\ intent = "ESCALATE" /\ Step("verifying")
     \/ /\ stage = None /\ intent # "ESCALATE" /\ pending # NoPending
        /\ Outside /\ pending_entity_request' = pending
     \/ /\ stage = None /\ intent # "ESCALATE" /\ pending = NoPending
        /\ Outside /\ UNCHANGED pending_entity_request
  /\ UNCHANGED << stored, memoryVars, user_query, entities, intent_source, extra_intents,
                  collected_drafts, tool_agent_done, worker_pass_done, iteration_count,
                  resultVars, asked, outcome >>

\* The drafts one after the other; or what the model merges them into, which
\* nothing compares with them.  An unreachable model leaves the drafts.
Synthesizer ==
  /\ Transition("synthesizer", "guardrail")
  /\ \/ draft_answer' = collected_drafts \o draft_answer
     \/ ~ deployment.fake /\ draft_answer' = << Merged >>
  /\ UNCHANGED << stored, memoryVars, intentVars, collected_drafts, tool_agent_done,
                  worker_pass_done, iteration_count, carryVars, resultVars, historyVars >>

\* The last word on the answer: a template in place of the draft, or the
\* draft itself with its numbers masked where it has any.
Guardrail ==
  LET exhausted == AtIterationLimit /\ intent # None /\ ~ tool_agent_done
      Resolve(answer, flags) == final_answer' = answer /\ guardrail_flags' = flags
  IN
  /\ Transition("guardrail", "memory_save")
  /\ \/ exhausted /\ Resolve(<< >>, {"ESCALATED_ITERATION_LIMIT"})
     \/ ~ exhausted /\ Resolve(<< >>, {"PROMPT_INJECTION_DETECTED"})
     \/ ~ exhausted /\ draft_answer = << >> /\ Resolve(<< >>, {"NO_DRAFT_PRODUCED"})
     \/ /\ ~ exhausted /\ draft_answer # << >>
        /\ \/ \E flag \in {"FINANCIAL_ADVICE_BLOCKED", "MODEL_IDENTITY_REDACTED"} :
                Resolve(<< >>, {flag})
           \/ \E flags \in {{}, {"PII_REDACTED"}} : Resolve(draft_answer, flags)
  /\ UNCHANGED << stored, memoryVars, intentVars, passVars, carryVars, historyVars >>

\* The turn is persisted and answered.  A failing backend swallows the write.
MemorySave ==
  /\ Transition("memory_save", "idle")
  /\ \/ stored' = [pending |-> pending_entity_request, stage |-> escalation_stage]
     \/ UNCHANGED stored
  /\ outcome' = "answered"
  /\ UNCHANGED << memoryVars, intentVars, passVars, carryVars, resultVars, answered, asked >>

-----------------------------------------------------------------------------
\* What ends a turn or a context without the graph's doing.

\* LangGraph gives up on a run that exceeds its bound; the request fails.
RecursionError ==
  /\ node # "idle" /\ steps >= deployment.recursion_limit
  /\ node' = "idle" /\ outcome' = "recursion_error"
  /\ UNCHANGED << deployment, stored, memoryVars, intentVars, passVars, carryVars, resultVars,
                  steps, answered, asked >>

\* The process dies, or a node raises: the turn ends without being saved.
TurnLost ==
  /\ node # "idle"
  /\ node' = "idle" /\ outcome' = "lost"
  /\ UNCHANGED << deployment, stored, memoryVars, intentVars, passVars, carryVars, resultVars,
                  steps, answered, asked >>

\* The context expires, or goes with the process or the backend that held it.
ContextLost ==
  /\ stored # EmptyContext
  /\ stored' = EmptyContext
  /\ UNCHANGED << deployment, node, memoryVars, intentVars, passVars, carryVars, resultVars,
                  steps, historyVars >>

GraphStep ==
  \/ MemoryLoad \/ NerAgent \/ IntentAgent \/ Supervisor \/ AdvanceIntent
  \/ RagAgent \/ ToolAgent \/ SmallTalk \/ EscalateAgent
  \/ Synthesizer \/ Guardrail \/ MemorySave \/ RecursionError

Next == ChatRequest \/ GraphStep \/ TurnLost \/ ContextLost

Spec == Init /\ [][Next]_vars

\* The graph runtime keeps executing a run it has started; requests, faults
\* and the loss of a context are never owed.
FairSpec == Spec /\ WF_vars(GraphStep)

-----------------------------------------------------------------------------
\* Properties.

\* Every field has its type.
TypeOK ==
  /\ deployment \in Deployments
  /\ stored \in Context
  /\ node \in Node
  /\ carried_pending_request \in PendingRequest \union {NoPending}
  /\ carried_escalation_stage \in Stage
  /\ user_query \in Query
  /\ entities \subseteq RecallableTypes
  /\ intent \in IntentLabel \union {None}
  /\ intent_source \in IntentSource \union {None}
  /\ extra_intents \in Seq(ChainableIntents)
  /\ pending_entity_request \in PendingRequest \union {NoPending}
  /\ escalation_stage \in Stage
  /\ draft_answer \in Seq(Answer)
  /\ collected_drafts \in Seq(Answer)
  /\ tool_agent_done \in BOOLEAN
  /\ worker_pass_done \in BOOLEAN
  /\ iteration_count \in Nat
  /\ final_answer \in Seq(Answer)
  /\ guardrail_flags \subseteq GuardrailFlag
  /\ steps \in Nat
  /\ answered \in Seq(Answer)
  /\ asked \subseteq PendingRequest
  /\ outcome \in {None, "running", "answered", "lost", "recursion_error"}

TurnDone == node = "memory_save"

\* The user reads the draft: guardrail put no template in its place.
DraftDelivered == TurnDone /\ guardrail_flags \subseteq {"PII_REDACTED"}

AnsweredIntents == {answered[i] : i \in DOMAIN answered}

\* A turn that leaves requests of its message unserved because of the iteration
\* limit is not answered like a complete one: its response carries the limit's
\* flag, as dto.py says of errors at the level of the agents, or at least one
\* that replaced the draft.  The code does neither: a run shows the turn.
LimitReported ==
  TurnDone /\ AtIterationLimit /\ extra_intents # << >> => ~ DraftDelivered

\* A slot request and a hand-off script never wait for the same message, so the
\* next message has one reading.  This relies on the script keeping every tool
\* pass out of the turn, and on the retry prompt clearing the stage.
OneOpenThread == stored.pending = NoPending \/ stored.stage = None

\* While a hand-off script is open no banking tool runs, whatever the message
\* was classified as and whatever else is queued behind it (ADR-013).
ScriptRunsNoTool ==
  carried_escalation_stage # None => AnsweredIntents \cap ToolDrivenIntents = {}

\* A question answered while the user's issue is awaited leaves the script where
\* it was: the stage is carried over although escalate_node never ran.
DetourKeepsStage ==
  TurnDone /\ carried_escalation_stage # None /\ Handoff \notin AnsweredIntents
    => escalation_stage = carried_escalation_stage

\* No intent is served twice in a turn, so no banking tool runs twice for one
\* message in the deterministic mode.
NoIntentServedTwice ==
  \A i, j \in DOMAIN answered : i # j => answered[i] # answered[j]

\* Every way out of the loop takes every answer along: what the synthesizer
\* merges, with a model or without, is all that was answered in the turn, once
\* and in the order of the queue; and outside a script the reply is those
\* answers, unless a model has put its own text in the place of several drafts.
EveryAnswerDelivered ==
  /\ node = "synthesizer" => collected_drafts \o draft_answer = answered
  /\ DraftDelivered /\ carried_escalation_stage = None =>
       \/ final_answer = answered
       \/ ~ deployment.fake /\ collected_drafts # << >> /\ final_answer = << Merged >>

\* With a session account at most a card is asked for, and the request the user
\* was asked to fill is the one that is saved, also when other intents of the
\* same message are served after the question.
QuestionRemembered ==
  TurnDone /\ deployment.session => asked \subseteq {pending_entity_request}

\* A message that fills the open slot completes exactly the paused request and
\* leaves nothing open.
SlotFillCompletes ==
  TurnDone /\ intent_source = "slot_fill"
    => /\ answered = << carried_pending_request.intent >>
       /\ pending_entity_request = NoPending

\* A turn executes at most seventeen nodes, whatever the classifier returns.
MaxTurnSteps == 17
TurnIsShort == steps <= MaxTurnSteps

\* The graph carries the hand-off out as EscalationScript promises it.
Script == INSTANCE EscalationScript WITH
            stage <- stored.stage,
            seen  <- IF node \in {"idle", "memory_load"} THEN "NoTurn"
                     ELSE carried_escalation_stage

ImplementsScript == Script!Spec

\* Unless it is lost, a turn that entered the graph is answered.
TurnAnswered ==
  (node = "memory_load" /\ deployment.recursion_limit >= MaxTurnSteps)
    ~> (outcome \in {"answered", "lost"})

=============================================================================
