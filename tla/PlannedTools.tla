---------------------------- MODULE PlannedTools ----------------------------
(***************************************************************************)
(* One pass through tool_agent where a real model plans the calls: the     *)
(* identifiers NER finds in the conversation, the hops in which the model  *)
(* proposes tool calls, the check of their arguments against those         *)
(* identifiers, the calls themselves, and the draft the pass ends with.    *)
(* TurnGraph has this pass as one step, ReasonOverTools.                   *)
(*                                                                         *)
(* The model may answer, propose or fail in any way.  A call to the bank   *)
(* is one step with the outcomes that Bank allows.  No slot request is     *)
(* open: a pass like this one never asks for a slot.                       *)
(***************************************************************************)
EXTENDS BankingTools, Sequences

CONSTANTS
  EntityTypeOf,        \* the pattern an identifier matches: IBAN or CARD_LAST4
  Texts,               \* what a message of the user may hold
  Histories,           \* the user's earlier messages that memory kept
  Proposals,           \* the calls the model may propose
  NerInvents,          \* the NER model may report what the message does not hold
  MaxAgentIterations,  \* hops of a pass
  MaxToolCallsPerHop   \* calls of a hop that are looked at

EntityType == {"IBAN", "CARD_LAST4"}
Entity     == [type : EntityType, value : Id]

\* The identifiers of a message; those the patterns of extract_entities match.
Text == {t \in [written : SUBSET Id, matched : SUBSET Id] : t.matched \subseteq t.written}

\* The tools bound to the model: list_cards is not among them.
BoundTool == {"get_balance", "list_transactions", "block_card", "open_support_ticket"}

ASSUME PlannedAssumption ==
  /\ EntityTypeOf \in [Id -> EntityType]
  /\ Texts \subseteq Text /\ Histories \subseteq Seq(Texts)
  /\ Proposals \subseteq Request
  /\ NerInvents \in BOOLEAN
  /\ MaxAgentIterations \in Nat \ {0} /\ MaxToolCallsPerHop \in Nat \ {0}

VARIABLES
  status,            \* of the bank's cards
  before,            \* the same when the pass began, for the properties
  user_query, history,
  entities,          \* what NER found and recalled
  pc,                \* ner, model, call, done; lost if the turn fails
  hop,               \* how many hops have ended
  left,              \* the proposals of this hop still to be looked at
  collected,         \* the pass's ToolCallRecords
  draft_answer

vars == << status, before, user_query, history, entities, pc, hop, left, collected,
           draft_answer >>

NoDraft == "none"
Draft   == {NoDraft, "text", "empty", "raw_outcome", "unsupported"}

Init ==
  /\ status \in CardStatus /\ before = status
  /\ user_query \in Texts /\ history \in Histories
  /\ entities = {} /\ pc = "ner" /\ hop = 0 /\ left = 0
  /\ collected = << >> /\ draft_answer = NoDraft

Goto(from, to) == pc = from /\ pc' = to

-----------------------------------------------------------------------------
\* ner_agent.

\* extract_entities.
Matched(text) == {[type |-> EntityTypeOf[id], value |-> id] : id \in text.matched}

TypesOf(found) == {e.type : e \in found}

\* What the NER model may add; nothing if its call fails.
Reportable(text) == {e \in Entity : e.value \in text.written \/ NerInvents}

\* The newest earlier message that names an identifier of this type.
Naming(messages, type) == {i \in DOMAIN messages : type \in TypesOf(Matched(messages[i]))}
Latest(indices) == {i \in indices : \A j \in indices : j <= i}

(***************************************************************************)
(* _recall_entities_from_history: one of the newest message that has any,  *)
(* for each type the message of the turn has none of.                      *)
(***************************************************************************)
Recallable(messages, found, type) ==
  IF type \in TypesOf(found) \/ Naming(messages, type) = {} THEN {{}}
  ELSE {{e} : e \in {m \in UNION {Matched(messages[i]) : i \in Latest(Naming(messages, type))} :
                       m.type = type}}

NerAgent ==
  /\ Goto("ner", "model")
  /\ \E reported \in SUBSET Reportable(user_query) :
       LET found == Matched(user_query) \union reported IN
       \E iban \in Recallable(history, found, "IBAN"),
          card \in Recallable(history, found, "CARD_LAST4") :
         entities' = found \union iban \union card
  /\ UNCHANGED << status, before, user_query, history, hop, left, collected, draft_answer >>

-----------------------------------------------------------------------------
\* The model's turn in a hop.

Conclude(draft) ==
  /\ Goto("model", "done") /\ draft_answer' = draft
  /\ UNCHANGED << status, before, user_query, history, entities, hop, left, collected >>

\* Without a closing text the last outcome is shown as it is.
Fallback == IF collected = << >> THEN "unsupported" ELSE "raw_outcome"

\* The provider fails, or max_agent_iterations hops have passed.
ModelFails    == hop < MaxAgentIterations /\ Conclude(Fallback)
HopsExhausted == hop = MaxAgentIterations /\ Conclude(Fallback)

\* No tool call: the model's text ends the pass, and it may be empty.
ModelConcludes ==
  /\ hop < MaxAgentIterations
  /\ \E text \in {"text", "empty"} : Conclude(text)

\* Mutant: all proposals of a hop are looked at.
ModelProposesUncut ==
  /\ hop < MaxAgentIterations /\ Goto("model", "call")
  /\ left' \in 1 .. MaxToolCallsPerHop + 1
  /\ UNCHANGED << status, before, user_query, history, entities, hop, collected, draft_answer >>

\* Proposals beyond the first MaxToolCallsPerHop are cut off.
ModelProposes ==
  /\ hop < MaxAgentIterations /\ Goto("model", "call")
  /\ left' \in 1 .. MaxToolCallsPerHop
  /\ UNCHANGED << status, before, user_query, history, entities, hop, collected, draft_answer >>

\* Mutant: a hop counts only once something has been recorded.
HopEndsUncounted ==
  /\ left = 0 /\ Goto("call", "model")
  /\ hop' = IF collected = << >> THEN hop ELSE hop + 1
  /\ UNCHANGED << status, before, user_query, history, entities, left, collected, draft_answer >>

HopEnds ==
  /\ left = 0 /\ Goto("call", "model")
  /\ hop' = hop + 1
  /\ UNCHANGED << status, before, user_query, history, entities, left, collected, draft_answer >>

-----------------------------------------------------------------------------
\* One proposed call.

\* Mutant: block_card is not looked at.
GroundedCardUnchecked(call) ==
  call.tool \in {"get_balance", "list_transactions"} =>
    [type |-> "IBAN", value |-> call.id] \in entities

\* _validate_tool_args.
Grounded(call) ==
  /\ call.tool \in {"get_balance", "list_transactions"} =>
       [type |-> "IBAN", value |-> call.id] \in entities
  /\ call.tool = "block_card" => [type |-> "CARD_LAST4", value |-> call.id] \in entities

Record(call, ok, error) == [tool |-> call.tool, id |-> call.id, ok |-> ok, error |-> error]
NotGrounded == "ARGUMENT_NOT_GROUNDED"

ToolCallRecord ==
  [tool : Tool, id : Id, ok : BOOLEAN, error : ErrorCode \union {"", NotGrounded}]

Take == pc = "call" /\ left > 0 /\ left' = left - 1

\* A name that is not bound costs a look and leaves no record.
UnknownTool(call) ==
  /\ Take /\ call.tool \notin BoundTool
  /\ UNCHANGED << status, before, user_query, history, entities, pc, hop, collected,
                  draft_answer >>

\* Arguments that do not fit the tool's signature: the exception ends the turn.
InvalidArguments ==
  /\ Take /\ pc' = "lost"
  /\ UNCHANGED << status, before, user_query, history, entities, hop, collected, draft_answer >>

RefuseCall(call) ==
  /\ Take /\ call.tool \in BoundTool /\ ~Grounded(call)
  /\ collected' = Append(collected, Record(call, FALSE, NotGrounded))
  /\ UNCHANGED << status, before, user_query, history, entities, pc, hop, draft_answer >>

(***************************************************************************)
(* What a call through a tool client comes to, by the promise of Bank: it  *)
(* is carried out and answered, or there is no answer and nobody knows.    *)
(***************************************************************************)
Outcomes(call) ==
  {[answer |-> a, cards |-> Effect(call, status)] :
      a \in {InMemoryAnswer(call, status), PostgresAnswer(call, status)}}
  \union {[answer |-> Unavailable, cards |-> s] : s \in {status, Effect(call, status)}}

\* Mutant: a call that failed is not collected.
MakeCallSuccessOnly(call) ==
  /\ Take /\ call.tool \in BoundTool /\ Grounded(call)
  /\ \E outcome \in Outcomes(call) :
       /\ status' = outcome.cards
       /\ collected' = IF outcome.answer.ok THEN Append(collected, Record(call, TRUE, ""))
                       ELSE collected
  /\ UNCHANGED << before, user_query, history, entities, pc, hop, draft_answer >>

\* The record keeps ok and error of the tool's own envelope.  (An envelope that
\* came as text would be recorded as ok, whatever it says, mcp_client.py:35-54;
\* mcp_server returns a dict, which a fastmcp with structured results passes on,
\* and so does the repository called in the process.)
MakeCall(call) ==
  /\ Take /\ call.tool \in BoundTool /\ Grounded(call)
  /\ \E outcome \in Outcomes(call) :
       /\ status' = outcome.cards
       /\ collected' =
            Append(collected, Record(call, outcome.answer.ok, outcome.answer.error))
  /\ UNCHANGED << before, user_query, history, entities, pc, hop, draft_answer >>

-----------------------------------------------------------------------------

Next ==
  \/ NerAgent
  \/ ModelFails \/ HopsExhausted \/ ModelConcludes \/ ModelProposes \/ HopEnds
  \/ InvalidArguments
  \/ \E call \in Proposals : UnknownTool(call) \/ RefuseCall(call) \/ MakeCall(call)

Spec     == Init /\ [][Next]_vars
FairSpec == Spec /\ WF_vars(Next)

-----------------------------------------------------------------------------
\* The invariant.

TypeOK ==
  /\ status \in CardStatus /\ before \in CardStatus
  /\ user_query \in Texts /\ history \in Seq(Texts)
  /\ entities \subseteq Entity
  /\ pc \in {"ner", "model", "call", "done", "lost"}
  /\ hop \in 0 .. MaxAgentIterations /\ left \in 0 .. MaxToolCallsPerHop
  /\ collected \in Seq(ToolCallRecord)
  /\ draft_answer \in Draft

Records == {collected[i] : i \in DOMAIN collected}

\* A hop adds MaxToolCallsPerHop records at most.
BudgetInv ==
  /\ pc \in {"ner", "model"} => left = 0
  /\ pc \in {"call", "lost"} => hop < MaxAgentIterations
  /\ Len(collected) + left <=
       MaxToolCallsPerHop * (IF pc \in {"call", "lost"} THEN hop + 1 ELSE hop)

\* What the calls did to the cards is in the records, and nothing else is.
EffectsInv ==
  /\ \A card \in Cards :
       /\ status[card] # before[card] =>
            \E r \in Records : r.tool = "block_card" /\ r.id = card
       /\ (\E r \in Records : r.tool = "block_card" /\ r.id = card /\ r.ok) =>
            status[card] = "blocked"
  /\ draft_answer = "unsupported" => collected = << >>
  /\ pc # "done" => draft_answer = NoDraft

\* Tools that act on an identifier; the records of calls that were made.
ActsOnId(record) == record.tool \in {"get_balance", "list_transactions", "block_card"}
Made(record)     == record.error # NotGrounded

InConversation == user_query.written \union UNION {history[i].written : i \in DOMAIN history}

\* Calls act on entities, and entities come from the conversation unless invented.
GroundingInv ==
  /\ pc = "ner" => entities = {} /\ collected = << >>
  /\ \A r \in Records : ActsOnId(r) /\ Made(r) => \E e \in entities : e.value = r.id
  /\ ~NerInvents => \A e \in entities : e.value \in InConversation

(***************************************************************************)
(* The inductive invariant.  That a pass adds MaxToolCallsPerHop records a *)
(* hop at most is what TurnGraph's ReasonOverTools takes for granted.      *)
(***************************************************************************)
PlannedInv == TypeOK /\ BudgetInv /\ EffectsInv /\ GroundingInv

-----------------------------------------------------------------------------
\* Properties.

(***************************************************************************)
(* The tool_calls of an answered turn say what the pass did to the bank:   *)
(* each card it blocked has a record, even when the answer to the call was *)
(* lost; a record that is ok was carried out; and who is told the request  *)
(* could not be handled has had nothing done (the docstring of             *)
(* _build_tool_specs, and the fallback after the loop).                    *)
(***************************************************************************)
EffectsReported ==
  pc = "done" =>
    /\ \A card \in Cards :
         /\ status[card] # before[card] =>
              \E r \in Records : r.tool = "block_card" /\ r.id = card
         /\ (\E r \in Records : r.tool = "block_card" /\ r.id = card /\ r.ok) =>
              status[card] = "blocked"
    /\ draft_answer = "unsupported" => status = before

(***************************************************************************)
(* No tool runs on an account or a card that never occurs in the           *)
(* conversation (the docstring of _validate_tool_args).                    *)
(***************************************************************************)
GroundedInConversation ==
  \A r \in Records : ActsOnId(r) /\ Made(r) => r.id \in InConversation

(***************************************************************************)
(* "The raw summary given to the MODEL.  It is never shown to the user":   *)
(* the docstring of _format_tool_outcome.                                  *)
(***************************************************************************)
RawOutcomeNeverShown == draft_answer # "raw_outcome"

(***************************************************************************)
(* The pass ends, whatever the model proposes: hops are counted even when  *)
(* nothing was called in them (the loop over range(max_hops)).             *)
(***************************************************************************)
PassEnds == pc = "ner" ~> pc \in {"done", "lost"}

\* The steps a pass has left at most: a hop has one for the model, one for each
\* proposal and one for its end; the NER agent and the last answer come on top.
StepsLeft ==
  LET hops == MaxAgentIterations - hop
      each == MaxToolCallsPerHop + 2 IN
  IF pc = "ner" THEN hops * each + 2
  ELSE IF pc = "model" THEN hops * each + 1
  ELSE IF pc = "call" THEN (hops - 1) * each + left + 2
  ELSE 0

(***************************************************************************)
(* What PassEnds rests on: every step, whatever the model answers, uses up *)
(* a part of a fixed budget, so that no pass is longer than it (the loop   *)
(* over range(max_hops), tool_calls[:_MAX_TOOL_CALLS_PER_HOP]).            *)
(***************************************************************************)
PassShrinks == [][StepsLeft' \in Nat /\ StepsLeft' < StepsLeft]_vars
=============================================================================
