-------------------------- MODULE TurnGraph_proofs --------------------------
(***************************************************************************)
(* TurnGraph keeps its invariants, and carries the hand-off out as         *)
(* EscalationScript promises it, for every iteration limit, every set of   *)
(* deployments and whatever lists of intents the classifier returns.       *)
(***************************************************************************)
EXTENDS TurnInvariant, IntentRules_proofs, SequenceTheorems, TLAPS

-----------------------------------------------------------------------------
\* The queue of further intents.

\* Whatever the classifier lists, the queue is short, holds chainable labels
\* only, repeats none and leaves out the primary intent.
LEMMA CleanExtraIntentsFits ==
  ASSUME NEW primary \in IntentLabel, NEW raw \in Seq(IntentLabel),
         NEW queue, queue = CleanExtraIntents(primary, raw)
  PROVE  /\ queue \in Seq(ChainableIntents) /\ Len(queue) <= 2
         /\ primary \notin InSequence(queue)
         /\ \A i, j \in DOMAIN queue : i # j => queue[i] # queue[j]
<1>1. Len(raw) \in Nat /\ DOMAIN raw = 1 .. Len(raw)
  OBVIOUS
<1> QED
  BY <1>1, CleanExtraIntentsQueue DEF FilteredQueue, InSequence

-----------------------------------------------------------------------------
\* The routing decision, read from the node it leads to.

\* What the supervisor knows when it has chosen a node.
LEMMA RouteChosen ==
  /\ Route \in WorkerNode \union {"escalate", "advance_intent", "synthesizer", "guardrail"}
  /\ Route = "escalate" => ScriptTakesTurn \/ intent \notin ChainableIntents
  /\ Route # "escalate" => ~ ScriptTakesTurn /\ intent \in ChainableIntents
  /\ Route \in WorkerNode => Route = WorkerFor(intent) /\ ~ PassDone
  /\ Route = "tool_agent" => intent \in ToolDrivenIntents /\ ~ AtIterationLimit
  /\ Route = "rag_agent" => intent = "RAG_QUERY"
  /\ Route = "smalltalk" => intent = "SMALL_TALK"
  /\ Route = "advance_intent" =>
       /\ PassDone /\ extra_intents # << >>
       /\ intent \notin ToolDrivenIntents \/ ~ AtIterationLimit
  /\ Route \in {"synthesizer", "guardrail"} =>
       PassDone \/ (intent \in ToolDrivenIntents /\ AtIterationLimit)
  /\ Route = "synthesizer" => collected_drafts # << >>
  /\ Route = "guardrail" => collected_drafts = << >>
  BY DEF Route, WorkerFor, AdvanceOrFinish, FinishOnly, WorkerNode, ChainableIntents

-----------------------------------------------------------------------------
\* Type correctness, and what the router has established about each node.

\* The update a node makes to its state leaves every field typed: a draft speaks
\* for an intent that can be answered because the router chose the worker by it.
LEMMA TypeStep ==
  ASSUME TypeOK, Routed, [Next]_vars
  PROVE  TypeOK'
<1> USE DEF TypeOK, Transition, memoryVars, intentVars, passVars, carryVars, resultVars,
            historyVars
<1>1. CASE ChatRequest
  <2>1. /\ extra_intents' \in Seq(ChainableIntents) /\ draft_answer' \in Seq(Answer)
        /\ collected_drafts' \in Seq(Answer) /\ final_answer' \in Seq(Answer)
        /\ answered' \in Seq(Answer)
    BY <1>1, EmptySeq DEF ChatRequest
  <2> QED
    BY <1>1, <2>1 DEF ChatRequest, Node, Stage
<1>2. CASE MemoryLoad
  BY <1>2 DEF MemoryLoad, Node, WorkerNode, Context, EmptyContext, Stage
<1>3. CASE NerAgent
  BY <1>3 DEF NerAgent, Node, WorkerNode
<1>4. CASE IntentAgent
  <2>1. /\ intent' \in IntentLabel
        /\ extra_intents' \in Seq(ChainableIntents)
        /\ intent_source' \in IntentSource
        /\ user_query' \in Query
    <3>1. << >> \in Seq(ChainableIntents)
      BY EmptySeq
    <3>2. carried_pending_request # NoPending => carried_pending_request.intent \in IntentLabel
      BY DEF PendingRequest, IntentLabel, ChainableIntents
    <3>3. "SMALL_TALK" \in IntentLabel /\ "RAG_QUERY" \in IntentLabel
      BY DEF IntentLabel, ChainableIntents
    <3>4. \A new \in IntentLabel, raw \in RawExtras :
            CleanExtraIntents(new, raw) \in Seq(ChainableIntents)
      BY CleanExtraIntentsFits, InputsAssumption
    <3> QED  BY <1>4, <3>1, <3>2, <3>3, <3>4 DEF IntentAgent, IntentSource
  <2> QED
    BY <1>4, <2>1 DEF IntentAgent, Node
<1>5. CASE Supervisor
  BY <1>5 DEF Supervisor, Route, WorkerFor, AdvanceOrFinish, FinishOnly, Node, WorkerNode
<1>6. CASE AdvanceIntent
  <2>1. /\ Head(extra_intents) \in ChainableIntents
        /\ Tail(extra_intents) \in Seq(ChainableIntents)
    BY <1>6, HeadTailProperties DEF AdvanceIntent, Routed
  <2>2. collected_drafts \o draft_answer \in Seq(Answer) /\ << >> \in Seq(Answer)
    BY ConcatProperties, EmptySeq
  <2>3. /\ intent' \in IntentLabel /\ extra_intents' \in Seq(ChainableIntents)
        /\ collected_drafts' \in Seq(Answer) /\ draft_answer' \in Seq(Answer)
    BY <1>6, <2>1, <2>2 DEF AdvanceIntent, IntentLabel
  <2>4. tool_agent_done' \in BOOLEAN /\ worker_pass_done' \in BOOLEAN
    BY <1>6, Zenon DEF AdvanceIntent
  <2>5. /\ node' \in Node /\ steps' \in Nat
        /\ UNCHANGED << deployment, stored, memoryVars, user_query, entities, intent_source,
                        iteration_count, carryVars, resultVars, historyVars >>
    BY <1>6 DEF AdvanceIntent, Node
  <2> QED
    BY <2>3, <2>4, <2>5


<1>7. CASE RagAgent
  <2>1. intent \in Answer
    BY <1>7 DEF RagAgent, Routed, Answer, ChainableIntents
  <2> QED
    BY <1>7, <2>1 DEF RagAgent, Node
<1>8. CASE ToolAgent
  <2>1. intent \in ToolDrivenIntents /\ intent \in Answer
    BY <1>8 DEF ToolAgent, Routed, Answer, ChainableIntents
  <2>2. << intent >> \in Seq(Answer) /\ << >> \in Seq(Answer)
    BY <2>1, EmptySeq
  <2>3. [intent |-> intent, entity_type |-> RequiredEntity(intent)] \in PendingRequest
    BY <2>1 DEF PendingRequest, RequiredEntity, RecallableTypes
  <2>4. draft_answer' \in Seq(Answer)
    BY <1>8, <2>2 DEF ToolAgent, AskForEntity, CallMappedTool, ReasonOverTools
  <2>5. /\ iteration_count' \in Nat
        /\ pending_entity_request' \in PendingRequest \union {NoPending}
        /\ asked' \subseteq PendingRequest
    BY <1>8, <2>3, LimitsAssumption
       DEF ToolAgent, AskForEntity, CallMappedTool, ReasonOverTools, ToolCallsPerHop
  <2>6. answered \o draft_answer' \in Seq(Answer)
    BY <2>4, ConcatProperties
  <2> QED
    BY <1>8, <2>4, <2>5, <2>6 DEF ToolAgent, Node
<1>9. CASE SmallTalk
  <2>1. intent \in Answer
    BY <1>9 DEF SmallTalk, Routed, Answer, ChainableIntents
  <2> QED
    BY <1>9, <2>1 DEF SmallTalk, Node
<1>10. CASE EscalateAgent
  BY <1>10 DEF EscalateAgent, Node, Answer, IntentLabel, Stage, ScriptStage
<1>11. CASE Synthesizer
  <2>1. collected_drafts \o draft_answer \in Seq(Answer) /\ << Merged >> \in Seq(Answer)
    BY ConcatProperties DEF Answer
  <2>2. draft_answer' \in Seq(Answer)
    BY <1>11, <2>1 DEF Synthesizer
  <2> QED
    BY <1>11, <2>2 DEF Synthesizer, Node
<1>12. CASE Guardrail
  <2>1. final_answer' \in Seq(Answer) /\ guardrail_flags' \subseteq GuardrailFlag
    BY <1>12, EmptySeq DEF Guardrail, GuardrailFlag
  <2> QED
    BY <1>12, <2>1 DEF Guardrail, Node
<1>13. CASE MemorySave
  BY <1>13 DEF MemorySave, Node, Context
<1>14. CASE RecursionError
  BY <1>14 DEF RecursionError, Node
<1>15. CASE TurnLost
  BY <1>15 DEF TurnLost, Node
<1>16. CASE ContextLost
  BY <1>16 DEF ContextLost, Context, EmptyContext, Stage
<1>17. CASE UNCHANGED vars
  BY <1>17 DEF vars
<1> QED
  BY <1>1, <1>2, <1>3, <1>4, <1>5, <1>6, <1>7, <1>8, <1>9, <1>10, <1>11, <1>12, <1>13, <1>14, <1>15, <1>16, <1>17 DEF Next, GraphStep

\* The router's choice of a node still holds when the node runs.
LEMMA RoutedStep ==
  ASSUME TypeOK, Routed, [Next]_vars
  PROVE  Routed'
<1> USE DEF Transition, memoryVars, intentVars, passVars, carryVars, resultVars, historyVars
<1>1. CASE ChatRequest
  BY <1>1 DEF ChatRequest, Routed, Closing
<1>2. CASE MemoryLoad
  BY <1>2 DEF MemoryLoad, Routed, Closing
<1>3. CASE NerAgent
  BY <1>3 DEF NerAgent, Routed, Closing
<1>4. CASE IntentAgent
  <2>1. intent' \in IntentLabel
    BY <1>4, TypeStep DEF IntentAgent, TypeOK, PendingRequest, IntentLabel, ChainableIntents
  <2> QED
    BY <1>4, <2>1 DEF IntentAgent, Routed, Closing, PassDone
<1>5. CASE Supervisor
  BY <1>5, RouteChosen DEF Supervisor, ScriptTakesTurn, Routed, Closing, PassDone, WorkerNode,
              ChainableIntents, ToolDrivenIntents, IntentLabel, None
<1>6. CASE AdvanceIntent
  <2>1. Head(extra_intents) \in IntentLabel
    BY <1>6, HeadTailProperties DEF AdvanceIntent, Routed, TypeOK, IntentLabel
  <2> QED
    BY <1>6, <2>1 DEF AdvanceIntent, Routed, Closing
<1>7. CASE RagAgent
  BY <1>7 DEF RagAgent, Routed, Closing, IntentLabel, ChainableIntents
<1>8. CASE ToolAgent
  BY <1>8 DEF ToolAgent, Routed, Closing, IntentLabel, ChainableIntents
<1>9. CASE SmallTalk
  BY <1>9 DEF SmallTalk, Routed, Closing, IntentLabel, ChainableIntents
<1>10. CASE EscalateAgent
  BY <1>10 DEF EscalateAgent, Routed, Closing, IntentLabel, ChainableIntents, ToolDrivenIntents,
               None
<1>11. CASE Synthesizer
  BY <1>11 DEF Synthesizer, Routed, Closing, IntentLabel, ChainableIntents, ToolDrivenIntents,
               None
<1>12. CASE Guardrail
  BY <1>12 DEF Guardrail, Routed, Closing
<1>13. CASE MemorySave
  BY <1>13 DEF MemorySave, Routed, Closing
<1>14. CASE RecursionError
  BY <1>14 DEF RecursionError, Routed, Closing
<1>15. CASE TurnLost
  BY <1>15 DEF TurnLost, Routed, Closing
<1>16. CASE ContextLost
  BY <1>16 DEF ContextLost, Routed, PassDone
<1>17. CASE UNCHANGED vars
  BY <1>17 DEF vars, Routed, PassDone
<1> QED
  BY <1>1, <1>2, <1>3, <1>4, <1>5, <1>6, <1>7, <1>8, <1>9, <1>10, <1>11, <1>12, <1>13, <1>14, <1>15, <1>16, <1>17 DEF Next, GraphStep

-----------------------------------------------------------------------------
\* What a turn starts from, and what an unchained intent finds.

\* memory_load, ner_agent and intent_agent leave the workers' fields alone.
LEMMA FreshStep ==
  ASSUME FreshTurn, [Next]_vars
  PROVE  FreshTurn'
<1> USE DEF Transition, memoryVars, intentVars, passVars, carryVars, resultVars, historyVars
<1>1. CASE ChatRequest
  BY <1>1 DEF ChatRequest, FreshTurn, Fetching
<1>2. CASE MemoryLoad
  BY <1>2 DEF MemoryLoad, FreshTurn, Fetching
<1>3. CASE NerAgent
  BY <1>3 DEF NerAgent, FreshTurn, Fetching
<1>4. CASE IntentAgent
  BY <1>4 DEF IntentAgent, FreshTurn, Fetching
<1>5. CASE Supervisor
  BY <1>5, RouteChosen DEF Supervisor, WorkerNode, FreshTurn, Fetching
<1>6. CASE AdvanceIntent
  BY <1>6 DEF AdvanceIntent, FreshTurn, Fetching
<1>7. CASE RagAgent
  BY <1>7 DEF RagAgent, FreshTurn, Fetching
<1>8. CASE ToolAgent
  BY <1>8 DEF ToolAgent, FreshTurn, Fetching
<1>9. CASE SmallTalk
  BY <1>9 DEF SmallTalk, FreshTurn, Fetching
<1>10. CASE EscalateAgent
  BY <1>10 DEF EscalateAgent, FreshTurn, Fetching
<1>11. CASE Synthesizer
  BY <1>11 DEF Synthesizer, FreshTurn, Fetching
<1>12. CASE Guardrail
  BY <1>12 DEF Guardrail, FreshTurn, Fetching
<1>13. CASE MemorySave
  BY <1>13 DEF MemorySave, FreshTurn, Fetching
<1>14. CASE RecursionError
  BY <1>14 DEF RecursionError, FreshTurn, Fetching
<1>15. CASE TurnLost
  BY <1>15 DEF TurnLost, FreshTurn, Fetching
<1>16. CASE ContextLost
  BY <1>16 DEF ContextLost, FreshTurn, Fetching
<1>17. CASE UNCHANGED vars
  BY <1>17 DEF vars, FreshTurn, Fetching
<1> QED
  BY <1>1, <1>2, <1>3, <1>4, <1>5, <1>6, <1>7, <1>8, <1>9, <1>10, <1>11, <1>12, <1>13, <1>14, <1>15, <1>16, <1>17 DEF Next, GraphStep

\* Only the primary intent of a message can be unchainable, and with it no
\* worker has run.
LEMMA UnchainedStep ==
  ASSUME TypeOK, Routed, FreshTurn, Unchained, [Next]_vars
  PROVE  Unchained'
<1> USE DEF Transition, memoryVars, intentVars, passVars, carryVars, resultVars, historyVars
<1>1. CASE ChatRequest
  BY <1>1 DEF ChatRequest, Unchained
<1>2. CASE MemoryLoad
  BY <1>2 DEF MemoryLoad, Unchained
<1>3. CASE NerAgent
  BY <1>3 DEF NerAgent, Unchained
<1>4. CASE IntentAgent
  BY <1>4 DEF IntentAgent, Unchained, FreshTurn, Fetching
<1>5. CASE Supervisor
  BY <1>5, RouteChosen DEF Supervisor, WorkerNode, Unchained
<1>6. CASE AdvanceIntent
  <2>1. Head(extra_intents) \in ChainableIntents
    BY <1>6, HeadTailProperties DEF AdvanceIntent, Routed, TypeOK
  <2> QED
    BY <1>6, <2>1 DEF AdvanceIntent, Unchained
<1>7. CASE RagAgent
  BY <1>7 DEF RagAgent, Unchained, Routed, ChainableIntents
<1>8. CASE ToolAgent
  BY <1>8 DEF ToolAgent, Unchained, Routed, ChainableIntents
<1>9. CASE SmallTalk
  BY <1>9 DEF SmallTalk, Unchained, Routed, ChainableIntents
<1>10. CASE EscalateAgent
  BY <1>10 DEF EscalateAgent, Unchained
<1>11. CASE Synthesizer
  BY <1>11 DEF Synthesizer, Unchained
<1>12. CASE Guardrail
  BY <1>12 DEF Guardrail, Unchained
<1>13. CASE MemorySave
  BY <1>13 DEF MemorySave, Unchained
<1>14. CASE RecursionError
  BY <1>14 DEF RecursionError, Unchained
<1>15. CASE TurnLost
  BY <1>15 DEF TurnLost, Unchained
<1>16. CASE ContextLost
  BY <1>16 DEF ContextLost, Unchained
<1>17. CASE UNCHANGED vars
  BY <1>17 DEF vars, Unchained
<1> QED
  BY <1>1, <1>2, <1>3, <1>4, <1>5, <1>6, <1>7, <1>8, <1>9, <1>10, <1>11, <1>12, <1>13, <1>14, <1>15, <1>16, <1>17 DEF Next, GraphStep

-----------------------------------------------------------------------------
\* The stage of the hand-off script.

\* The moves the script allows.  (The steps of _step in escalate_agent.)
LEMMA FollowMoves ==
  /\ \A s : None \in Script!Follow(s)
  /\ "verifying" \in Script!Follow(None)
  /\ "verifying" \in Script!Follow("verifying")
  /\ "awaiting_issue" \in Script!Follow("verifying")
  /\ "awaiting_issue" \in Script!Follow("awaiting_issue")
  /\ "resolved" \in Script!Follow("awaiting_issue")
  BY DEF Script!Follow, Script!Moves, Script!ScriptStage, Script!None, None

\* The stage is carried unchanged to the supervisor and through its loop; the
\* escalate node alone moves it, and only to a stage that follows.
LEMMA StageStep ==
  ASSUME TypeOK, Routed, StageFollows, [Next]_vars
  PROVE  StageFollows'
<1> USE DEF Transition, memoryVars, intentVars, passVars, carryVars, resultVars, historyVars
<1>1. CASE ChatRequest
  BY <1>1 DEF ChatRequest, StageFollows, Closing, Serving, WorkerNode, AnsweredIntents
<1>2. CASE MemoryLoad
  BY <1>2 DEF MemoryLoad, StageFollows, Closing, Serving, WorkerNode, AnsweredIntents
<1>3. CASE NerAgent
  BY <1>3 DEF NerAgent, StageFollows, Closing, Serving, WorkerNode, AnsweredIntents
<1>4. CASE IntentAgent
  BY <1>4 DEF IntentAgent, StageFollows, Closing, Serving, WorkerNode, AnsweredIntents
<1>5. CASE Supervisor
  <2>1. Route \in Closing => Route = "guardrail" /\ carried_escalation_stage \in {None, "awaiting_issue"}
    BY <1>5, RouteChosen DEF ScriptTakesTurn, Closing, WorkerNode
  <2> QED
    BY <1>5, <2>1, RouteChosen, FollowMoves
       DEF Supervisor, StageFollows, Closing, Serving, WorkerNode, AnsweredIntents
<1>6. CASE AdvanceIntent
  BY <1>6 DEF AdvanceIntent, StageFollows, Closing, Serving, WorkerNode, AnsweredIntents
<1>7. CASE RagAgent
  BY <1>7 DEF RagAgent, StageFollows, Closing, Serving, WorkerNode, AnsweredIntents
<1>8. CASE ToolAgent
  BY <1>8 DEF ToolAgent, StageFollows, Closing, Serving, WorkerNode, AnsweredIntents
<1>9. CASE SmallTalk
  BY <1>9 DEF SmallTalk, StageFollows, Closing, Serving, WorkerNode, AnsweredIntents
<1>10. CASE EscalateAgent
  <2>1. escalation_stage' \in Script!Follow(carried_escalation_stage)
    BY <1>10, FollowMoves DEF EscalateAgent
  <2>2. Handoff \in AnsweredIntents'
    <3>1. answered \in Seq(Answer) /\ answered' = Append(answered, Handoff)
      BY <1>10 DEF EscalateAgent, TypeOK
    <3> HIDE DEF Handoff
    <3> QED  BY <3>1 DEF AnsweredIntents
  <2> QED
    BY <1>10, <2>1, <2>2 DEF EscalateAgent, StageFollows, Closing, Serving, WorkerNode
<1>11. CASE Synthesizer
  BY <1>11, FollowMoves
     DEF Synthesizer, StageFollows, Closing, Serving, WorkerNode, Routed, AnsweredIntents
<1>12. CASE Guardrail
  BY <1>12 DEF Guardrail, StageFollows, Closing, Serving, WorkerNode, AnsweredIntents
<1>13. CASE MemorySave
  BY <1>13 DEF MemorySave, StageFollows, Closing, Serving, WorkerNode, AnsweredIntents
<1>14. CASE RecursionError
  BY <1>14 DEF RecursionError, StageFollows, Closing, Serving, WorkerNode, AnsweredIntents
<1>15. CASE TurnLost
  BY <1>15 DEF TurnLost, StageFollows, Closing, Serving, WorkerNode, AnsweredIntents
<1>16. CASE ContextLost
  BY <1>16 DEF ContextLost, StageFollows, Closing, Serving, WorkerNode, AnsweredIntents
<1>17. CASE UNCHANGED vars
  BY <1>17 DEF vars, StageFollows, Closing, Serving, WorkerNode, AnsweredIntents
<1> QED
  BY <1>1, <1>2, <1>3, <1>4, <1>5, <1>6, <1>7, <1>8, <1>9, <1>10, <1>11, <1>12, <1>13, <1>14, <1>15, <1>16, <1>17 DEF Next, GraphStep

-----------------------------------------------------------------------------
\* One open thread.

\* A tool pass and an open script never meet in one turn, so what the turn
\* leaves behind is at most one of a slot request and a stage.
LEMMA ThreadsStep ==
  ASSUME TypeOK, Routed, FreshTurn, Unchained, StageFollows, ThreadsApart, OneOpenThread, [Next]_vars
  PROVE  ThreadsApart' /\ OneOpenThread'
<1> USE DEF Transition, memoryVars, intentVars, passVars, carryVars, resultVars, historyVars
<1>1. CASE ChatRequest
  BY <1>1 DEF ChatRequest, ThreadsApart, OneOpenThread
<1>2. CASE MemoryLoad
  BY <1>2 DEF MemoryLoad, ThreadsApart, OneOpenThread, FreshTurn, Fetching, EmptyContext
<1>3. CASE NerAgent
  BY <1>3 DEF NerAgent, ThreadsApart, OneOpenThread
<1>4. CASE IntentAgent
  BY <1>4 DEF IntentAgent, ThreadsApart, OneOpenThread
<1>5. CASE Supervisor
  BY <1>5 DEF Supervisor, ThreadsApart, OneOpenThread
<1>6. CASE AdvanceIntent
  BY <1>6 DEF AdvanceIntent, ThreadsApart, OneOpenThread
<1>7. CASE RagAgent
  BY <1>7 DEF RagAgent, ThreadsApart, OneOpenThread
<1>8. CASE ToolAgent
  BY <1>8 DEF ToolAgent, AskForEntity, CallMappedTool, ReasonOverTools, ThreadsApart,
              OneOpenThread, Routed, StageFollows, Serving, WorkerNode
<1>9. CASE SmallTalk
  BY <1>9 DEF SmallTalk, ThreadsApart, OneOpenThread
<1>10. CASE EscalateAgent
  BY <1>10 DEF EscalateAgent, ThreadsApart, OneOpenThread, Unchained, Routed, ChainableIntents,
               ToolDrivenIntents
<1>11. CASE Synthesizer
  BY <1>11 DEF Synthesizer, ThreadsApart, OneOpenThread
<1>12. CASE Guardrail
  BY <1>12 DEF Guardrail, ThreadsApart, OneOpenThread
<1>13. CASE MemorySave
  BY <1>13 DEF MemorySave, ThreadsApart, OneOpenThread
<1>14. CASE RecursionError
  BY <1>14 DEF RecursionError, ThreadsApart, OneOpenThread
<1>15. CASE TurnLost
  BY <1>15 DEF TurnLost, ThreadsApart, OneOpenThread
<1>16. CASE ContextLost
  BY <1>16 DEF ContextLost, ThreadsApart, OneOpenThread, EmptyContext
<1>17. CASE UNCHANGED vars
  BY <1>17 DEF vars, ThreadsApart, OneOpenThread
<1> QED
  BY <1>1, <1>2, <1>3, <1>4, <1>5, <1>6, <1>7, <1>8, <1>9, <1>10, <1>11, <1>12, <1>13, <1>14, <1>15, <1>16, <1>17 DEF Next, GraphStep

-----------------------------------------------------------------------------
\* The iteration limit.

\* The count is only raised by a tool pass, and once it has reached the limit
\* the router neither starts a pass nor takes another intent from the queue.
LEMMA LimitStep ==
  ASSUME TypeOK, Routed, FreshTurn, LimitMeansDone, [Next]_vars
  PROVE  LimitMeansDone'
<1> USE DEF Transition, memoryVars, intentVars, passVars, carryVars, resultVars, historyVars
<1>1. CASE ChatRequest
  BY <1>1, LimitsAssumption DEF ChatRequest, LimitMeansDone, AtIterationLimit
<1>2. CASE MemoryLoad
  BY <1>2, LimitsAssumption DEF MemoryLoad, LimitMeansDone, AtIterationLimit, FreshTurn, Fetching
<1>3. CASE NerAgent
  BY <1>3, LimitsAssumption DEF NerAgent, LimitMeansDone, AtIterationLimit, FreshTurn, Fetching
<1>4. CASE IntentAgent
  BY <1>4, LimitsAssumption DEF IntentAgent, LimitMeansDone, AtIterationLimit, FreshTurn, Fetching
<1>5. CASE Supervisor
  BY <1>5, RouteChosen DEF Supervisor, LimitMeansDone, AtIterationLimit, ScriptTakesTurn, Closing,
                            WorkerNode, PassDone, ChainableIntents, ToolDrivenIntents
<1>6. CASE AdvanceIntent
  BY <1>6 DEF AdvanceIntent, LimitMeansDone, AtIterationLimit, Closing
<1>7. CASE RagAgent
  BY <1>7 DEF RagAgent, LimitMeansDone, AtIterationLimit, Closing
<1>8. CASE ToolAgent
  BY <1>8 DEF ToolAgent, LimitMeansDone, AtIterationLimit, Closing, Routed
<1>9. CASE SmallTalk
  BY <1>9 DEF SmallTalk, LimitMeansDone, AtIterationLimit, Closing
<1>10. CASE EscalateAgent
  BY <1>10 DEF EscalateAgent, LimitMeansDone, AtIterationLimit, Closing
<1>11. CASE Synthesizer
  BY <1>11 DEF Synthesizer, LimitMeansDone, AtIterationLimit, Closing
<1>12. CASE Guardrail
  BY <1>12 DEF Guardrail, LimitMeansDone, AtIterationLimit, Closing
<1>13. CASE MemorySave
  BY <1>13 DEF MemorySave, LimitMeansDone, AtIterationLimit, Closing
<1>14. CASE RecursionError
  BY <1>14 DEF RecursionError, LimitMeansDone, AtIterationLimit, Closing
<1>15. CASE TurnLost
  BY <1>15 DEF TurnLost, LimitMeansDone, AtIterationLimit, Closing
<1>16. CASE ContextLost
  BY <1>16 DEF ContextLost, LimitMeansDone, AtIterationLimit, Closing
<1>17. CASE UNCHANGED vars
  BY <1>17 DEF vars, LimitMeansDone, AtIterationLimit, Closing
<1> QED
  BY <1>1, <1>2, <1>3, <1>4, <1>5, <1>6, <1>7, <1>8, <1>9, <1>10, <1>11, <1>12, <1>13, <1>14, <1>15, <1>16, <1>17 DEF Next, GraphStep

\* guardrail never finds the limit reached before a pass was done.
LEMMA LimitReportStep ==
  ASSUME TypeOK, Routed, LimitMeansDone, LimitNeverReported, [Next]_vars
  PROVE  LimitNeverReported'
<1> USE DEF Transition, memoryVars, intentVars, passVars, carryVars, resultVars, historyVars
<1>1. CASE ChatRequest
  BY <1>1 DEF ChatRequest, LimitNeverReported
<1>2. CASE MemoryLoad
  BY <1>2 DEF MemoryLoad, LimitNeverReported
<1>3. CASE NerAgent
  BY <1>3 DEF NerAgent, LimitNeverReported
<1>4. CASE IntentAgent
  BY <1>4 DEF IntentAgent, LimitNeverReported
<1>5. CASE Supervisor
  BY <1>5 DEF Supervisor, LimitNeverReported
<1>6. CASE AdvanceIntent
  BY <1>6 DEF AdvanceIntent, LimitNeverReported
<1>7. CASE RagAgent
  BY <1>7 DEF RagAgent, LimitNeverReported
<1>8. CASE ToolAgent
  BY <1>8 DEF ToolAgent, LimitNeverReported
<1>9. CASE SmallTalk
  BY <1>9 DEF SmallTalk, LimitNeverReported
<1>10. CASE EscalateAgent
  BY <1>10 DEF EscalateAgent, LimitNeverReported
<1>11. CASE Synthesizer
  BY <1>11 DEF Synthesizer, LimitNeverReported
<1>12. CASE Guardrail
  BY <1>12 DEF Guardrail, LimitNeverReported, LimitMeansDone
<1>13. CASE MemorySave
  BY <1>13 DEF MemorySave, LimitNeverReported
<1>14. CASE RecursionError
  BY <1>14 DEF RecursionError, LimitNeverReported
<1>15. CASE TurnLost
  BY <1>15 DEF TurnLost, LimitNeverReported
<1>16. CASE ContextLost
  BY <1>16 DEF ContextLost, LimitNeverReported
<1>17. CASE UNCHANGED vars
  BY <1>17 DEF vars, LimitNeverReported
<1> QED
  BY <1>1, <1>2, <1>3, <1>4, <1>5, <1>6, <1>7, <1>8, <1>9, <1>10, <1>11, <1>12, <1>13, <1>14, <1>15, <1>16, <1>17 DEF Next, GraphStep

-----------------------------------------------------------------------------
\* The length of a turn.

\* Every intent costs the loop four nodes and the queue never grows, so the
\* steps taken and the steps the queue still allows add up to a constant.
LEMMA StepBoundStep ==
  ASSUME TypeOK, Routed, FreshTurn, StepBound, [Next]_vars
  PROVE  StepBound'
<1> USE DEF Transition, memoryVars, intentVars, passVars, carryVars, resultVars, historyVars
<1>1. CASE ChatRequest
  <2>1. Len(extra_intents') = 0
    BY <1>1, EmptySeq DEF ChatRequest
  <2> QED
    BY <1>1, <2>1 DEF ChatRequest, StepBound, MaxTurnSteps, WorkerNode
<1>2. CASE MemoryLoad
  BY <1>2 DEF MemoryLoad, StepBound, TypeOK, MaxTurnSteps, WorkerNode
<1>3. CASE NerAgent
  BY <1>3 DEF NerAgent, StepBound, TypeOK, MaxTurnSteps, WorkerNode
<1>4. CASE IntentAgent
  <2>1. Len(extra_intents') \in Nat /\ Len(extra_intents') <= 2
    <3>1. Len(<< >>) = 0
      BY EmptySeq
    <3>2. \A new \in IntentLabel, raw \in RawExtras :
            /\ Len(CleanExtraIntents(new, raw)) \in Nat
            /\ Len(CleanExtraIntents(new, raw)) <= 2
      <4> TAKE new \in IntentLabel, raw \in RawExtras
      <4>1. /\ CleanExtraIntents(new, raw) \in Seq(ChainableIntents)
            /\ Len(CleanExtraIntents(new, raw)) <= 2
        BY CleanExtraIntentsFits, InputsAssumption
      <4> QED  BY <4>1, LenProperties
    <3> QED  BY <1>4, <3>1, <3>2 DEF IntentAgent
  <2>2. ~ PassDone'
    BY <1>4 DEF IntentAgent, FreshTurn, Fetching, PassDone
  <2>3. node' = "supervisor" /\ steps' = 3
    BY <1>4 DEF IntentAgent, StepBound
  <2> QED
    BY <2>1, <2>2, <2>3 DEF StepBound, MaxTurnSteps, WorkerNode
<1>5.
 CASE Supervisor
  <2>1. PassDone' = PassDone
    BY <1>5 DEF Supervisor, PassDone
  <2>2. Len(extra_intents) \in Nat
    BY LenProperties DEF TypeOK
  <2> QED
    BY <1>5, <2>1, <2>2, RouteChosen DEF Supervisor, StepBound, TypeOK, MaxTurnSteps, WorkerNode
<1>6. CASE AdvanceIntent
  <2>1. Len(extra_intents) \in Nat /\ Len(extra_intents') = Len(extra_intents) - 1
    BY <1>6, HeadTailProperties, LenProperties DEF AdvanceIntent, Routed, TypeOK
  <2>2. ~ PassDone'
    BY <1>6 DEF AdvanceIntent, PassDone
  <2>3. node' = "supervisor" /\ steps' = steps + 1 /\ steps \in Nat
        /\ steps <= 14 - 4 * Len(extra_intents) /\ Len(extra_intents) <= 2
    BY <1>6 DEF AdvanceIntent, StepBound, TypeOK
  <2> QED
    BY <2>1, <2>2, <2>3 DEF StepBound, MaxTurnSteps, WorkerNode

<1>7. CASE RagAgent
  <2>1. PassDone' /\ Len(extra_intents) \in Nat
    BY <1>7, LenProperties DEF RagAgent, PassDone, Routed, TypeOK, ToolDrivenIntents
  <2> QED
    BY <1>7, <2>1 DEF RagAgent, StepBound, TypeOK, MaxTurnSteps, WorkerNode
<1>8. CASE ToolAgent
  <2>1. PassDone' /\ Len(extra_intents) \in Nat
    BY <1>8, LenProperties DEF ToolAgent, PassDone, Routed, TypeOK, ToolDrivenIntents
  <2> QED
    BY <1>8, <2>1 DEF ToolAgent, StepBound, TypeOK, MaxTurnSteps, WorkerNode
<1>9. CASE SmallTalk
  <2>1. PassDone' /\ Len(extra_intents) \in Nat
    BY <1>9, LenProperties DEF SmallTalk, PassDone, Routed, TypeOK, ToolDrivenIntents
  <2> QED
    BY <1>9, <2>1 DEF SmallTalk, StepBound, TypeOK, MaxTurnSteps, WorkerNode
<1>10. CASE EscalateAgent
  BY <1>10 DEF EscalateAgent, StepBound, TypeOK, MaxTurnSteps, WorkerNode
<1>11. CASE Synthesizer
  BY <1>11 DEF Synthesizer, StepBound, TypeOK, MaxTurnSteps, WorkerNode
<1>12. CASE Guardrail
  BY <1>12 DEF Guardrail, StepBound, TypeOK, MaxTurnSteps, WorkerNode
<1>13. CASE MemorySave
  BY <1>13 DEF MemorySave, StepBound, TypeOK, MaxTurnSteps, WorkerNode
<1>14. CASE RecursionError
  BY <1>14 DEF RecursionError, StepBound, TypeOK, MaxTurnSteps, WorkerNode
<1>15. CASE TurnLost
  BY <1>15 DEF TurnLost, StepBound, TypeOK, MaxTurnSteps, WorkerNode
<1>16. CASE ContextLost
  BY <1>16 DEF ContextLost, StepBound, PassDone
<1>17. CASE UNCHANGED vars
  BY <1>17 DEF vars, StepBound, PassDone
<1> QED
  BY <1>1, <1>2, <1>3, <1>4, <1>5, <1>6, <1>7, <1>8, <1>9, <1>10, <1>11, <1>12, <1>13, <1>14, <1>15, <1>16, <1>17 DEF Next, GraphStep

-----------------------------------------------------------------------------
\* What was answered is what is delivered.

\* Every worker adds to the draft in hand what it adds to the answers, and every
\* move of a draft keeps the order.
LEMMA DraftsStep ==
  ASSUME TypeOK, Routed, FreshTurn, Unchained, DraftsKept, [Next]_vars
  PROVE  DraftsKept'
<1> USE DEF Transition, memoryVars, intentVars, passVars, carryVars, resultVars, historyVars
<1>1. CASE ChatRequest
  BY <1>1 DEF ChatRequest, DraftsKept, Serving, WorkerNode, Closing, SpeaksForTurn
<1>2. CASE MemoryLoad
  BY <1>2 DEF MemoryLoad, DraftsKept, Serving, WorkerNode, Closing, SpeaksForTurn
<1>3. CASE NerAgent
  BY <1>3 DEF NerAgent, DraftsKept, Serving, WorkerNode, Closing, SpeaksForTurn
<1>4. CASE IntentAgent
  <2>1. << >> = << >> \o << >>
    BY ConcatEmptySeq, EmptySeq
  <2> QED
    BY <1>4, <2>1 DEF IntentAgent, FreshTurn, Fetching, DraftsKept, Serving, Closing, WorkerNode
<1>5. CASE Supervisor
  <2>1. PassDone' = PassDone
    BY <1>5 DEF Supervisor, PassDone
  <2>2. collected_drafts = << >> => answered = draft_answer
    BY <1>5, ConcatEmptySeq DEF Supervisor, DraftsKept, Serving, TypeOK
  <2> QED
    BY <1>5, <2>1, <2>2, RouteChosen DEF Supervisor, DraftsKept, Serving, WorkerNode, Closing, SpeaksForTurn
<1>6. CASE AdvanceIntent
  <2>1. answered = collected_drafts'
    BY <1>6 DEF AdvanceIntent, DraftsKept, Serving
  <2>2. collected_drafts' = collected_drafts' \o << >>
    BY TypeStep, ConcatEmptySeq DEF TypeOK
  <2> QED
    BY <1>6, <2>1, <2>2 DEF AdvanceIntent, DraftsKept, Serving, WorkerNode, Closing, SpeaksForTurn
<1>7. CASE RagAgent
  <2>1. answered = collected_drafts
    BY <1>7, ConcatEmptySeq DEF RagAgent, DraftsKept, Serving, WorkerNode, TypeOK
  <2>2. answered' = collected_drafts \o draft_answer'
    BY <1>7, <2>1, AppendProperties DEF RagAgent, TypeOK
  <2>3. PassDone'
    BY <1>7 DEF RagAgent, PassDone, Routed, ToolDrivenIntents
  <2> QED
    BY <1>7, <2>2, <2>3 DEF RagAgent, DraftsKept, Serving, WorkerNode, Closing, SpeaksForTurn
<1>8. CASE ToolAgent
  <2>1. answered = collected_drafts
    BY <1>8, ConcatEmptySeq DEF ToolAgent, DraftsKept, Serving, WorkerNode, TypeOK
  <2>2. answered' = collected_drafts \o draft_answer'
    BY <1>8, <2>1, AppendProperties DEF ToolAgent, TypeOK
  <2>3. PassDone'
    BY <1>8 DEF ToolAgent, PassDone, Routed, ToolDrivenIntents
  <2> QED
    BY <1>8, <2>2, <2>3 DEF ToolAgent, DraftsKept, Serving, WorkerNode, Closing, SpeaksForTurn
<1>9. CASE SmallTalk
  <2>1. answered = collected_drafts
    BY <1>9, ConcatEmptySeq DEF SmallTalk, DraftsKept, Serving, WorkerNode, TypeOK
  <2>2. answered' = collected_drafts \o draft_answer'
    BY <1>9, <2>1, AppendProperties DEF SmallTalk, TypeOK
  <2>3. PassDone'
    BY <1>9 DEF SmallTalk, PassDone, Routed, ToolDrivenIntents
  <2> QED
    BY <1>9, <2>2, <2>3 DEF SmallTalk, DraftsKept, Serving, WorkerNode, Closing, SpeaksForTurn
<1>10. CASE EscalateAgent
  <2>1. carried_escalation_stage = None => answered = << >>
    BY <1>10 DEF EscalateAgent, Routed, Unchained
  <2>2. Append(<< >>, Handoff) = << Handoff >>
    OBVIOUS
  <2> QED
    BY <1>10, <2>1, <2>2 DEF EscalateAgent, DraftsKept, Serving, WorkerNode, Closing, SpeaksForTurn

<1>11. CASE Synthesizer
  <2>1. collected_drafts # << >> /\ answered = collected_drafts \o draft_answer
    BY <1>11 DEF Synthesizer, Routed, DraftsKept
  <2>2. SpeaksForTurn(draft_answer)'
    BY <1>11, <2>1 DEF Synthesizer, SpeaksForTurn
  <2>3. node' = "guardrail"
    BY <1>11 DEF Synthesizer
  <2> QED
    BY <2>2, <2>3 DEF DraftsKept, Serving, WorkerNode, Closing
<1>12. CASE Guardrail
  <2>1. carried_escalation_stage = None /\ guardrail_flags' \subseteq {"PII_REDACTED"}
          => SpeaksForTurn(final_answer')
    BY <1>12 DEF Guardrail, DraftsKept, Closing
  <2> QED
    BY <1>12, <2>1 DEF Guardrail, DraftsKept, Serving, WorkerNode, Closing, SpeaksForTurn
<1>13. CASE MemorySave
  BY <1>13 DEF MemorySave, DraftsKept, Serving, WorkerNode, Closing, SpeaksForTurn
<1>14. CASE RecursionError
  BY <1>14 DEF RecursionError, DraftsKept, Serving, WorkerNode, Closing, SpeaksForTurn
<1>15. CASE TurnLost
  BY <1>15 DEF TurnLost, DraftsKept, Serving, WorkerNode, Closing, SpeaksForTurn
<1>16. CASE ContextLost
  BY <1>16 DEF ContextLost, DraftsKept, SpeaksForTurn, PassDone
<1>17. CASE UNCHANGED vars
  BY <1>17 DEF vars, DraftsKept, SpeaksForTurn, PassDone
<1> QED
  BY <1>1, <1>2, <1>3, <1>4, <1>5, <1>6, <1>7, <1>8, <1>9, <1>10, <1>11, <1>12, <1>13, <1>14, <1>15, <1>16, <1>17 DEF Next, GraphStep

\* An answer that is appended is the only new one, and one that was not given
\* before keeps the answers different.
LEMMA AnswerAppended ==
  ASSUME NEW x \in Answer, answered \in Seq(Answer), answered' = Append(answered, x)
  PROVE  /\ AnsweredIntents' \subseteq AnsweredIntents \union {x}
         /\ x \notin AnsweredIntents /\ NoIntentServedTwice => NoIntentServedTwice'

<1>1. /\ Len(answered) \in Nat /\ DOMAIN answered = 1 .. Len(answered)
      /\ answered' \in Seq(Answer) /\ Len(answered') = Len(answered) + 1
      /\ DOMAIN answered' = 1 .. (Len(answered) + 1)
      /\ \A i \in 1 .. Len(answered) : answered'[i] = answered[i]
      /\ answered'[Len(answered) + 1] = x
  BY AppendProperties, LenProperties
<1>2. \A i \in DOMAIN answered' : i \in DOMAIN answered \/ i = Len(answered) + 1
  BY <1>1
<1> QED
  BY <1>1, <1>2 DEF NoIntentServedTwice, AnsweredIntents

\* An intent leaves the plan when it is answered and enters the answers once.
LEMMA PlanStep ==
  ASSUME TypeOK, Routed, FreshTurn, PlanDistinct, [Next]_vars
  PROVE  PlanDistinct'
<1> USE DEF Transition, memoryVars, intentVars, passVars, carryVars, resultVars, historyVars
<1>1. CASE ChatRequest
  BY <1>1 DEF ChatRequest, PlanDistinct, NoIntentServedTwice, Serving, WorkerNode
<1>2. CASE MemoryLoad
  BY <1>2 DEF MemoryLoad, PlanDistinct, NoIntentServedTwice, Serving, WorkerNode
<1>3. CASE NerAgent
  BY <1>3 DEF NerAgent, PlanDistinct, NoIntentServedTwice, Serving, WorkerNode
<1>4. CASE IntentAgent
  <2>1. /\ intent' \notin InSequence(extra_intents')
        /\ \A i, j \in DOMAIN extra_intents' : i # j => extra_intents'[i] # extra_intents'[j]
    <3>1. CASE extra_intents' = << >>
      BY <3>1 DEF InSequence
    <3>2. CASE extra_intents' # << >>
      <4>1. PICK new \in IntentLabel, raw \in RawExtras :
              intent' = new /\ extra_intents' = CleanExtraIntents(new, raw)
        BY <1>4, <3>2 DEF IntentAgent
      <4> QED  BY <4>1, CleanExtraIntentsFits, InputsAssumption
    <3> QED  BY <3>1, <3>2
  <2>2. AnsweredIntents' = {} /\ NoIntentServedTwice'
    BY <1>4 DEF IntentAgent, FreshTurn, Fetching, AnsweredIntents, NoIntentServedTwice
  <2> QED
    BY <2>1, <2>2 DEF PlanDistinct
<1>5. CASE Supervisor
  <2>1. PassDone' = PassDone
    BY <1>5 DEF Supervisor, PassDone
  <2> HIDE DEF Handoff
  <2> QED
    BY <1>5, <2>1 DEF Supervisor, PlanDistinct, NoIntentServedTwice, AnsweredIntents, Serving, WorkerNode
<1>6. CASE AdvanceIntent
  <2>1. extra_intents \in Seq(ChainableIntents) /\ extra_intents # << >>
    BY <1>6 DEF AdvanceIntent, Routed, TypeOK
  <2>2. /\ Len(extra_intents) \in Nat \ {0} /\ DOMAIN extra_intents = 1 .. Len(extra_intents)
        /\ Len(extra_intents') = Len(extra_intents) - 1
        /\ DOMAIN extra_intents' = 1 .. (Len(extra_intents) - 1)
        /\ \A i \in 1 .. (Len(extra_intents) - 1) : extra_intents'[i] = extra_intents[i + 1]
        /\ intent' = extra_intents[1]
    BY <1>6, <2>1, HeadTailProperties, LenProperties, EmptySeq DEF AdvanceIntent
  <2>3. \A i, j \in DOMAIN extra_intents : i # j => extra_intents[i] # extra_intents[j]
    BY DEF PlanDistinct
  <2>4. /\ intent' \notin InSequence(extra_intents')
        /\ \A i, j \in DOMAIN extra_intents' : i # j => extra_intents'[i] # extra_intents'[j]
        /\ intent' \in InSequence(extra_intents)
        /\ InSequence(extra_intents') \subseteq InSequence(extra_intents)
    <3>1. 1 \in DOMAIN extra_intents
      BY <2>2
    <3>2. \A i \in DOMAIN extra_intents' :
            i \in Nat /\ i + 1 \in DOMAIN extra_intents \ {1} /\ extra_intents'[i] = extra_intents[i + 1]
      BY <2>2
    <3>3. \A i, j \in DOMAIN extra_intents' : i # j => i + 1 # j + 1
      BY <3>2
    <3>4. \A i \in DOMAIN extra_intents' : extra_intents'[i] # intent'
      BY <2>2, <2>3, <3>1, <3>2
    <3>5. \A i, j \in DOMAIN extra_intents' : i # j => extra_intents'[i] # extra_intents'[j]
      BY <2>3, <3>2, <3>3
    <3> QED
      BY <2>2, <3>1, <3>2, <3>4, <3>5 DEF InSequence

  <2>5. /\ NoIntentServedTwice' /\ AnsweredIntents' = AnsweredIntents
        /\ AnsweredIntents \cap InSequence(extra_intents) = {} /\ Handoff \notin AnsweredIntents
    BY <1>6 DEF AdvanceIntent, PlanDistinct, NoIntentServedTwice, AnsweredIntents, Serving, WorkerNode
  <2> QED
    BY <2>4, <2>5 DEF PlanDistinct
<1>7. CASE RagAgent
  <2>1. ~ PassDone /\ PassDone' /\ intent \in ChainableIntents
    BY <1>7 DEF RagAgent, PassDone, Routed, ToolDrivenIntents, ChainableIntents
  <2>2. intent \in Answer /\ intent # Handoff
    BY <2>1 DEF Answer, Handoff, ChainableIntents, ToolDrivenIntents
  <2>3. intent \notin AnsweredIntents /\ intent \notin InSequence(extra_intents)
    BY <1>7, <2>1 DEF RagAgent, PlanDistinct, Serving, WorkerNode
  <2>4. /\ NoIntentServedTwice'
        /\ AnsweredIntents' \subseteq AnsweredIntents \union {intent}
    <3>1. answered' = Append(answered, intent)
      BY <1>7 DEF RagAgent
    <3> QED  BY <2>2, <2>3, <3>1, AnswerAppended DEF TypeOK, PlanDistinct
  <2> HIDE DEF Handoff
  <2> QED
    BY <1>7, <2>1, <2>2, <2>3, <2>4
       DEF RagAgent, PlanDistinct, Serving, WorkerNode, InSequence
<1>8. CASE ToolAgent
  <2>1. ~ PassDone /\ PassDone' /\ intent \in ChainableIntents
    BY <1>8 DEF ToolAgent, PassDone, Routed, ToolDrivenIntents, ChainableIntents
  <2>2. intent \in Answer /\ intent # Handoff
    BY <2>1 DEF Answer, Handoff, ChainableIntents, ToolDrivenIntents
  <2>3. intent \notin AnsweredIntents /\ intent \notin InSequence(extra_intents)
    BY <1>8, <2>1 DEF ToolAgent, PlanDistinct, Serving, WorkerNode
  <2>4. /\ NoIntentServedTwice'
        /\ AnsweredIntents' \subseteq AnsweredIntents \union {intent}
    <3>1. answered' = Append(answered, intent) \/ answered' = answered
      BY <1>8, <2>2, AppendIsConcat, ConcatEmptySeq
         DEF ToolAgent, AskForEntity, CallMappedTool, ReasonOverTools, TypeOK
    <3>2. CASE answered' = answered
      BY <3>2 DEF PlanDistinct, NoIntentServedTwice, AnsweredIntents
    <3>3. CASE answered' = Append(answered, intent)
      BY <2>2, <2>3, <3>3, AnswerAppended DEF TypeOK, PlanDistinct
    <3> QED  BY <3>1, <3>2, <3>3
  <2> HIDE DEF Handoff
  <2> QED
    BY <1>8, <2>1, <2>2, <2>3, <2>4
       DEF ToolAgent, PlanDistinct, Serving, WorkerNode, InSequence
<1>9. CASE SmallTalk
  <2>1. ~ PassDone /\ PassDone' /\ intent \in ChainableIntents
    BY <1>9 DEF SmallTalk, PassDone, Routed, ToolDrivenIntents, ChainableIntents
  <2>2. intent \in Answer /\ intent # Handoff
    BY <2>1 DEF Answer, Handoff, ChainableIntents, ToolDrivenIntents
  <2>3. intent \notin AnsweredIntents /\ intent \notin InSequence(extra_intents)
    BY <1>9, <2>1 DEF SmallTalk, PlanDistinct, Serving, WorkerNode
  <2>4. /\ NoIntentServedTwice'
        /\ AnsweredIntents' \subseteq AnsweredIntents \union {intent}
    <3>1. answered' = Append(answered, intent)
      BY <1>9 DEF SmallTalk
    <3> QED  BY <2>2, <2>3, <3>1, AnswerAppended DEF TypeOK, PlanDistinct
  <2> HIDE DEF Handoff
  <2> QED
    BY <1>9, <2>1, <2>2, <2>3, <2>4
       DEF SmallTalk, PlanDistinct, Serving, WorkerNode, InSequence
<1>10. CASE EscalateAgent
  <2>1. Handoff \in Answer /\ Handoff \notin AnsweredIntents
    BY <1>10 DEF EscalateAgent, PlanDistinct, Answer
  <2>2. NoIntentServedTwice'
    BY <1>10, <2>1, AnswerAppended DEF EscalateAgent, PlanDistinct, TypeOK
  <2> QED
    BY <1>10, <2>2 DEF EscalateAgent, PlanDistinct, Serving, WorkerNode
<1>11. CASE Synthesizer
  BY <1>11 DEF Synthesizer, PlanDistinct, NoIntentServedTwice, Serving, WorkerNode
<1>12. CASE Guardrail
  BY <1>12 DEF Guardrail, PlanDistinct, NoIntentServedTwice, Serving, WorkerNode
<1>13. CASE MemorySave
  BY <1>13 DEF MemorySave, PlanDistinct, NoIntentServedTwice, Serving, WorkerNode
<1>14. CASE RecursionError
  BY <1>14 DEF RecursionError, PlanDistinct, NoIntentServedTwice, Serving, WorkerNode
<1>15. CASE TurnLost
  BY <1>15 DEF TurnLost, PlanDistinct, NoIntentServedTwice, Serving, WorkerNode
<1>16. CASE ContextLost
  BY <1>16 DEF ContextLost, PlanDistinct, PassDone, NoIntentServedTwice, AnsweredIntents
<1>17. CASE UNCHANGED vars
  BY <1>17 DEF vars, PlanDistinct, PassDone, NoIntentServedTwice, AnsweredIntents
<1> QED
  BY <1>1, <1>2, <1>3, <1>4, <1>5, <1>6, <1>7, <1>8, <1>9, <1>10, <1>11, <1>12, <1>13, <1>14, <1>15, <1>16, <1>17 DEF Next, GraphStep

\* No tool worker is chosen while a script is open, and the other workers answer
\* for no tool.
LEMMA ScriptStep ==
  ASSUME TypeOK, Routed, FreshTurn, ScriptRunsNoTool, [Next]_vars
  PROVE  ScriptRunsNoTool'
<1> USE DEF Transition, memoryVars, intentVars, passVars, carryVars, resultVars, historyVars
<1>1. CASE ChatRequest
  BY <1>1 DEF ChatRequest, ScriptRunsNoTool
<1>2. CASE MemoryLoad
  <2>1. AnsweredIntents' = {}
    BY <1>2 DEF MemoryLoad, FreshTurn, Fetching, AnsweredIntents
  <2> QED
    BY <2>1 DEF ScriptRunsNoTool
<1>3. CASE NerAgent
  BY <1>3 DEF NerAgent, ScriptRunsNoTool, AnsweredIntents
<1>4. CASE IntentAgent
  BY <1>4 DEF IntentAgent, ScriptRunsNoTool, AnsweredIntents
<1>5. CASE Supervisor
  BY <1>5 DEF Supervisor, ScriptRunsNoTool, AnsweredIntents
<1>6. CASE AdvanceIntent
  BY <1>6 DEF AdvanceIntent, ScriptRunsNoTool, AnsweredIntents
<1>7. CASE RagAgent
  <2>1. intent \in Answer /\ intent \notin ToolDrivenIntents
    BY <1>7 DEF RagAgent, Routed, Answer, Handoff, ChainableIntents, ToolDrivenIntents
  <2>2. AnsweredIntents' \subseteq AnsweredIntents \union {intent}
    BY <1>7, <2>1, AnswerAppended DEF RagAgent, TypeOK
  <2> QED
    BY <1>7, <2>1, <2>2 DEF RagAgent, ScriptRunsNoTool
<1>8. CASE ToolAgent
  BY <1>8 DEF ToolAgent, Routed, ScriptRunsNoTool
<1>9. CASE SmallTalk
  <2>1. intent \in Answer /\ intent \notin ToolDrivenIntents
    BY <1>9 DEF SmallTalk, Routed, Answer, Handoff, ChainableIntents, ToolDrivenIntents
  <2>2. AnsweredIntents' \subseteq AnsweredIntents \union {intent}
    BY <1>9, <2>1, AnswerAppended DEF SmallTalk, TypeOK
  <2> QED
    BY <1>9, <2>1, <2>2 DEF SmallTalk, ScriptRunsNoTool
<1>10. CASE EscalateAgent
  <2>1. Handoff \in Answer /\ Handoff \notin ToolDrivenIntents
    BY <1>10 DEF EscalateAgent, Routed, Answer, Handoff, ChainableIntents, ToolDrivenIntents
  <2>2. AnsweredIntents' \subseteq AnsweredIntents \union {Handoff}
    BY <1>10, <2>1, AnswerAppended DEF EscalateAgent, TypeOK
  <2> QED
    BY <1>10, <2>1, <2>2 DEF EscalateAgent, ScriptRunsNoTool
<1>11. CASE Synthesizer
  BY <1>11 DEF Synthesizer, ScriptRunsNoTool, AnsweredIntents
<1>12. CASE Guardrail
  BY <1>12 DEF Guardrail, ScriptRunsNoTool, AnsweredIntents
<1>13. CASE MemorySave
  BY <1>13 DEF MemorySave, ScriptRunsNoTool, AnsweredIntents
<1>14. CASE RecursionError
  BY <1>14 DEF RecursionError, ScriptRunsNoTool, AnsweredIntents
<1>15. CASE TurnLost
  BY <1>15 DEF TurnLost, ScriptRunsNoTool, AnsweredIntents
<1>16. CASE ContextLost
  BY <1>16 DEF ContextLost, ScriptRunsNoTool, AnsweredIntents
<1>17. CASE UNCHANGED vars
  BY <1>17 DEF vars, ScriptRunsNoTool, AnsweredIntents
<1> QED
  BY <1>1, <1>2, <1>3, <1>4, <1>5, <1>6, <1>7, <1>8, <1>9, <1>10, <1>11, <1>12, <1>13, <1>14, <1>15, <1>16, <1>17 DEF Next, GraphStep

-----------------------------------------------------------------------------
\* The slot request.

\* A request is only left by the deterministic tool pass of its own intent, and
\* escalate repeats the one it was carried.
LEMMA RequestsStep ==
  ASSUME TypeOK, Routed, FreshTurn, Unchained, AskedRemembered, RequestsWellFormed, [Next]_vars
  PROVE  AskedRemembered' /\ RequestsWellFormed'
<1> USE DEF Transition, memoryVars, intentVars, passVars, carryVars, resultVars, historyVars
<1>1. CASE ChatRequest
  BY <1>1 DEF ChatRequest, AskedRemembered, RequestsWellFormed, WellFormedRequest
<1>2. CASE MemoryLoad
  BY <1>2 DEF MemoryLoad, EmptyContext, FreshTurn, Fetching, AskedRemembered, RequestsWellFormed,
              WellFormedRequest
<1>3. CASE NerAgent
  BY <1>3 DEF NerAgent, AskedRemembered, RequestsWellFormed, WellFormedRequest
<1>4. CASE IntentAgent
  BY <1>4 DEF IntentAgent, FreshTurn, Fetching, AskedRemembered, RequestsWellFormed,
              WellFormedRequest
<1>5. CASE Supervisor
  BY <1>5 DEF Supervisor, AskedRemembered, RequestsWellFormed, WellFormedRequest
<1>6. CASE AdvanceIntent
  BY <1>6 DEF AdvanceIntent, AskedRemembered, RequestsWellFormed, WellFormedRequest
<1>7. CASE RagAgent
  BY <1>7 DEF RagAgent, AskedRemembered, RequestsWellFormed, WellFormedRequest
<1>8. CASE ToolAgent
  <2>1. CASE AskForEntity
    <3>1. deployment.session => intent = "CARD_ACTION" /\ RequiredEntity(intent) = "CARD_LAST4"
      BY <2>1 DEF AskForEntity, EntityAvailable, RequiredEntity
    <3> QED
      BY <1>8, <2>1, <3>1 DEF ToolAgent, AskForEntity, AskedRemembered, RequestsWellFormed,
                              WellFormedRequest
  <2>2. CASE CallMappedTool \/ ReasonOverTools
    BY <1>8, <2>2 DEF ToolAgent, CallMappedTool, ReasonOverTools, AskedRemembered,
                      RequestsWellFormed, WellFormedRequest
  <2> QED
    BY <1>8, <2>1, <2>2 DEF ToolAgent
<1>9. CASE SmallTalk
  BY <1>9 DEF SmallTalk, AskedRemembered, RequestsWellFormed, WellFormedRequest
<1>10. CASE EscalateAgent
  <2>1. pending_entity_request' # pending_entity_request => asked = {}
    BY <1>10 DEF EscalateAgent, Routed, Unchained
  <2>2. pending_entity_request' \in {pending_entity_request, carried_pending_request}
    BY <1>10 DEF EscalateAgent
  <2> QED
    BY <1>10, <2>1, <2>2 DEF EscalateAgent, AskedRemembered, RequestsWellFormed, WellFormedRequest
<1>11. CASE Synthesizer
  BY <1>11 DEF Synthesizer, AskedRemembered, RequestsWellFormed, WellFormedRequest
<1>12. CASE Guardrail
  BY <1>12 DEF Guardrail, AskedRemembered, RequestsWellFormed, WellFormedRequest
<1>13. CASE MemorySave
  BY <1>13 DEF MemorySave, AskedRemembered, RequestsWellFormed, WellFormedRequest
<1>14. CASE RecursionError
  BY <1>14 DEF RecursionError, AskedRemembered, RequestsWellFormed, WellFormedRequest
<1>15. CASE TurnLost
  BY <1>15 DEF TurnLost, AskedRemembered, RequestsWellFormed, WellFormedRequest
<1>16. CASE ContextLost
  BY <1>16 DEF ContextLost, EmptyContext, AskedRemembered, RequestsWellFormed, WellFormedRequest
<1>17. CASE UNCHANGED vars
  BY <1>17 DEF vars, AskedRemembered, RequestsWellFormed, WellFormedRequest
<1> QED
  BY <1>1, <1>2, <1>3, <1>4, <1>5, <1>6, <1>7, <1>8, <1>9, <1>10, <1>11, <1>12, <1>13, <1>14, <1>15, <1>16, <1>17 DEF Next, GraphStep

\* The turn that fills a slot runs its tool pass and nothing else.
LEMMA SlotFillStep ==
  ASSUME TypeOK, Routed, FreshTurn, ThreadsApart, LimitMeansDone, RequestsWellFormed,
         SlotFillRuns, [Next]_vars
  PROVE  SlotFillRuns'
<1> USE DEF Transition, memoryVars, intentVars, passVars, carryVars, resultVars, historyVars
<1>1. CASE ChatRequest
  BY <1>1 DEF ChatRequest, SlotFillRuns, None
<1>2. CASE MemoryLoad
  BY <1>2 DEF MemoryLoad, FreshTurn, Fetching, SlotFillRuns
<1>3. CASE NerAgent
  BY <1>3 DEF NerAgent, FreshTurn, Fetching, SlotFillRuns
<1>4. CASE IntentAgent
  BY <1>4 DEF IntentAgent, FreshTurn, Fetching, SlotFillRuns, Closing
<1>5. CASE Supervisor
  <2> SUFFICES ASSUME intent_source = "slot_fill"
               PROVE  SlotFillRuns'
    BY <1>5 DEF Supervisor, SlotFillRuns
  <2>1. intent \in ToolDrivenIntents /\ carried_escalation_stage = None
    BY <1>5 DEF Supervisor, SlotFillRuns, ThreadsApart, TypeOK, PendingRequest
  <2>2. Route = IF tool_agent_done THEN "guardrail" ELSE "tool_agent"
    BY <1>5, <2>1 DEF Supervisor, SlotFillRuns, LimitMeansDone, Route, ScriptTakesTurn, PassDone,
                      WorkerFor, AdvanceOrFinish, FinishOnly, ChainableIntents
  <2> QED
    BY <1>5, <2>2 DEF Supervisor, SlotFillRuns, Closing
<1>6. CASE AdvanceIntent
  BY <1>6 DEF AdvanceIntent, SlotFillRuns, Closing
<1>7. CASE RagAgent
  BY <1>7 DEF RagAgent, SlotFillRuns, Closing
<1>8. CASE ToolAgent
  <2> SUFFICES ASSUME intent_source = "slot_fill"
               PROVE  SlotFillRuns'
    BY <1>8 DEF ToolAgent, SlotFillRuns
  <2>1. CallMappedTool
    BY <1>8 DEF ToolAgent, SlotFillRuns, RequestsWellFormed, WellFormedRequest, EntityAvailable,
                AskForEntity, ReasonOverTools
  <2>2. answered = << >> /\ answered' = << intent >>
    <3>1. << >> \o << intent >> = << intent >>
      OBVIOUS
    <3> QED  BY <1>8, <2>1, <3>1 DEF ToolAgent, CallMappedTool, SlotFillRuns, Routed
  <2> QED
    BY <1>8, <2>1, <2>2 DEF ToolAgent, CallMappedTool, SlotFillRuns, Closing
<1>9. CASE SmallTalk
  BY <1>9 DEF SmallTalk, SlotFillRuns, Closing
<1>10. CASE EscalateAgent
  BY <1>10 DEF EscalateAgent, SlotFillRuns, Closing
<1>11. CASE Synthesizer
  BY <1>11 DEF Synthesizer, SlotFillRuns, Closing
<1>12. CASE Guardrail
  BY <1>12 DEF Guardrail, SlotFillRuns, Closing
<1>13. CASE MemorySave
  BY <1>13 DEF MemorySave, SlotFillRuns, Closing
<1>14. CASE RecursionError
  BY <1>14 DEF RecursionError, SlotFillRuns, Closing
<1>15. CASE TurnLost
  BY <1>15 DEF TurnLost, SlotFillRuns, Closing
<1>16. CASE ContextLost
  BY <1>16 DEF ContextLost, SlotFillRuns, Closing
<1>17. CASE UNCHANGED vars
  BY <1>17 DEF vars, SlotFillRuns, Closing
<1> QED
  BY <1>1, <1>2, <1>3, <1>4, <1>5, <1>6, <1>7, <1>8, <1>9, <1>10, <1>11, <1>12, <1>13, <1>14, <1>15, <1>16, <1>17 DEF Next, GraphStep

-----------------------------------------------------------------------------
\* The theorems.

\* A conversation starts with nothing stored and no turn in progress.
LEMMA InitInvariant == Init => IInv
<1> SUFFICES ASSUME Init PROVE IInv
  OBVIOUS
<1>1. TypeOK
  BY EmptySeq DEF Init, TypeOK, Context, EmptyContext, Stage, Node, Query
<1>2. node = "idle" /\ steps = 0 /\ answered = << >> /\ extra_intents = << >>
  BY DEF Init
<1>3. FreshTurn /\ Routed /\ Unchained /\ ThreadsApart /\ LimitMeansDone /\ StageFollows
  BY <1>2 DEF FreshTurn, Fetching, Routed, Closing, Unchained, ThreadsApart, LimitMeansDone,
              StageFollows, Serving, WorkerNode
<1>4. StepBound /\ DraftsKept /\ PlanDistinct
  BY <1>2, EmptySeq DEF StepBound, MaxTurnSteps, DraftsKept, PlanDistinct, NoIntentServedTwice,
                        Serving, WorkerNode, Closing
<1>5. OneOpenThread /\ LimitNeverReported /\ ScriptRunsNoTool
  BY DEF Init, EmptyContext, OneOpenThread, LimitNeverReported, ScriptRunsNoTool
<1>6. AskedRemembered /\ RequestsWellFormed /\ SlotFillRuns
  BY DEF Init, EmptyContext, AskedRemembered, RequestsWellFormed, WellFormedRequest, SlotFillRuns
<1> QED
  BY <1>1, <1>3, <1>4, <1>5, <1>6 DEF IInv

\* The parts of IInv hold together after every step.  (Every node of the graph,
\* every loss of a turn or a context.)
THEOREM InvariantHolds == Spec => []IInv
<1>1. IInv /\ [Next]_vars => IInv'
  BY TypeStep, RoutedStep, FreshStep, UnchainedStep, StageStep, ThreadsStep, LimitStep,
     LimitReportStep, StepBoundStep, DraftsStep, PlanStep, ScriptStep, RequestsStep, SlotFillStep
     DEF IInv
<1> QED
  BY <1>1, InitInvariant, PTL DEF Spec

\* Every field keeps its type.
THEOREM TypeCorrect == Spec => []TypeOK
<1>1. IInv => TypeOK
  BY DEF IInv
<1> QED  BY <1>1, InvariantHolds, PTL

\* The iteration limit is reported by no turn, whatever the limit: LimitReported,
\* which a run refutes, fails in every turn that the limit cuts short.
THEOREM LimitIsNeverReported == Spec => []LimitNeverReported
<1>1. IInv => LimitNeverReported
  BY DEF IInv
<1> QED  BY <1>1, InvariantHolds, PTL

\* No conversation ever waits for a slot and for its script at once.
THEOREM ThreadsNeverMeet == Spec => []OneOpenThread
<1>1. IInv => OneOpenThread
  BY DEF IInv
<1> QED  BY <1>1, InvariantHolds, PTL

\* No banking tool runs in a turn that found a script open.
THEOREM ScriptKeepsToolsOut == Spec => []ScriptRunsNoTool
<1>1. IInv => ScriptRunsNoTool
  BY DEF IInv
<1> QED  BY <1>1, InvariantHolds, PTL

\* A knowledge question asked within the script does not disturb it.
THEOREM DetourIsHarmless == Spec => []DetourKeepsStage
<1>1. IInv => DetourKeepsStage
  BY DEF IInv, StageFollows, DetourKeepsStage, TurnDone, Closing
<1> QED  BY <1>1, InvariantHolds, PTL

\* No message has one of its intents served twice.
THEOREM IntentsServedOnce == Spec => []NoIntentServedTwice
<1>1. IInv => NoIntentServedTwice
  BY DEF IInv, PlanDistinct
<1> QED  BY <1>1, InvariantHolds, PTL

\* No draft is lost, repeated or moved on the way to the reply, whatever the
\* length of the queue; what a model writes of them is not bounded by the code.
THEOREM AnswersDelivered == Spec => []EveryAnswerDelivered
<1>1. IInv => EveryAnswerDelivered
  BY DEF IInv, DraftsKept, SpeaksForTurn, Closing, EveryAnswerDelivered, DraftDelivered, TurnDone
<1> QED  BY <1>1, InvariantHolds, PTL

\* The slot the user was asked for is the one the next turn will find.
THEOREM QuestionsRemembered == Spec => []QuestionRemembered
<1>1. IInv => QuestionRemembered
  BY DEF IInv, AskedRemembered, QuestionRemembered, TurnDone
<1> QED  BY <1>1, InvariantHolds, PTL

\* The answer to a slot request completes the request it answers.
THEOREM SlotFillsComplete == Spec => []SlotFillCompletes
<1>1. IInv => SlotFillCompletes
  BY DEF IInv, SlotFillRuns, SlotFillCompletes, TurnDone, Closing
<1> QED  BY <1>1, InvariantHolds, PTL

\* No turn executes more than seventeen nodes.
THEOREM TurnsAreShort == Spec => []TurnIsShort
<1>1. IInv => TurnIsShort
  BY DEF IInv, StepBound, TurnIsShort
<1> QED  BY <1>1, InvariantHolds, PTL

\* LangGraph never gives up on a turn: its bound, 25 unless it is configured,
\* only has to be as large as the longest turn.
THEOREM NoRecursionError ==
  ASSUME \A d \in Deployments : d.recursion_limit >= MaxTurnSteps
  PROVE  Spec => []NotGivenUp
<1>1. Init => NotGivenUp
  BY DEF Init, None, NotGivenUp
<1>2. IInv => ~ RecursionError
  BY InputsAssumption DEF IInv, TypeOK, Deployment, Node, WorkerNode, StepBound, MaxTurnSteps, RecursionError
<1>3. IInv /\ NotGivenUp /\ [Next]_vars => NotGivenUp'
  <2> USE DEF historyVars, NotGivenUp
  <2> SUFFICES ASSUME IInv, NotGivenUp, [Next]_vars
               PROVE  NotGivenUp'
    OBVIOUS
  <2>1. CASE ChatRequest \/ TurnLost \/ ContextLost \/ UNCHANGED vars
    BY <2>1 DEF ChatRequest, TurnLost, ContextLost, vars
  <2>2. CASE GraphStep
    BY <1>2, <2>2 DEF GraphStep, MemoryLoad, NerAgent, IntentAgent, Supervisor, AdvanceIntent,
                      RagAgent, ToolAgent, SmallTalk, EscalateAgent, Synthesizer, Guardrail, MemorySave
  <2> QED  BY <2>1, <2>2 DEF Next
<1> QED
  BY <1>1, <1>3, InvariantHolds, PTL DEF Spec

-----------------------------------------------------------------------------
\* The graph implements the script.

\* Every step of the graph is a step of EscalationScript or leaves the stage and
\* what the turn has read of it alone.
THEOREM ScriptImplemented == Spec => ImplementsScript
<1>1. Init => Script!Init
  BY DEF Init, EmptyContext, Script!Init, Script!None, Script!NoTurn, None
<1> DEFINE seen == IF node \in {"idle", "memory_load"} THEN "NoTurn" ELSE carried_escalation_stage
<1>2. IInv /\ [Next]_vars => [Script!Next]_<< stored.stage, seen >>
  <2> SUFFICES ASSUME IInv, [Next]_vars
               PROVE  Script!Next \/ UNCHANGED << stored.stage, seen >>
    OBVIOUS
  <2> USE DEF Transition, memoryVars
  <2>1. seen # "NoTurn" \/ node \in {"idle", "memory_load"}
    BY DEF IInv, TypeOK, Stage, ScriptStage, None
  <2>2. CASE ChatRequest
    BY <2>2 DEF ChatRequest
  <2>3. CASE MemoryLoad
    <3>1. Script!Read
      BY <2>3 DEF MemoryLoad, EmptyContext, Script!Read, Script!NoTurn, Script!None, None
    <3> QED  BY <3>1 DEF Script!Next
  <2>4. CASE NerAgent
    BY <2>4 DEF NerAgent
  <2>5. CASE IntentAgent
    BY <2>5 DEF IntentAgent
  <2>6. CASE Supervisor
    BY <2>6, RouteChosen DEF Supervisor, WorkerNode
  <2>7. CASE AdvanceIntent \/ RagAgent \/ SmallTalk \/ ToolAgent \/ EscalateAgent \/ Synthesizer
          \/ Guardrail
    BY <2>7 DEF AdvanceIntent, RagAgent, SmallTalk, ToolAgent, EscalateAgent, Synthesizer, Guardrail
  <2>8. CASE MemorySave
    <3>1. seen = carried_escalation_stage /\ seen # "NoTurn" /\ seen' = "NoTurn"
      BY <2>1, <2>8 DEF MemorySave
    <3>2. escalation_stage \in Script!Follow(seen)
      BY <2>8, <3>1 DEF MemorySave, IInv, StageFollows, Closing
    <3>3. stored'.stage = escalation_stage \/ stored' = stored
      BY <2>8 DEF MemorySave
    <3>4. Script!Write \/ Script!Abandon
      BY <3>1, <3>2, <3>3 DEF Script!Write, Script!Abandon, Script!NoTurn
    <3> QED  BY <3>4 DEF Script!Next
  <2>9. CASE RecursionError \/ TurnLost
    <3>1. stored' = stored /\ seen' = "NoTurn"
      BY <2>9 DEF RecursionError, TurnLost
    <3>2. CASE seen = "NoTurn"
      BY <3>1, <3>2
    <3>3. CASE seen # "NoTurn"
      <4>1. Script!Abandon
        BY <3>1, <3>3 DEF Script!Abandon, Script!NoTurn
      <4> QED  BY <4>1 DEF Script!Next
    <3> QED  BY <3>2, <3>3
  <2>10. CASE ContextLost
    <3>1. Script!Forget
      BY <2>10 DEF ContextLost, EmptyContext, Script!Forget, Script!None, None
    <3> QED  BY <3>1 DEF Script!Next
  <2>11. CASE UNCHANGED vars
    BY <2>11 DEF vars
  <2> QED
    BY <2>2, <2>3, <2>4, <2>5, <2>6, <2>7, <2>8, <2>9, <2>10, <2>11 DEF Next, GraphStep
<1> QED
  BY <1>1, <1>2, InvariantHolds, PTL DEF Spec, ImplementsScript, Script!Spec
=============================================================================
