------------------------------ MODULE CardFlow ------------------------------
(***************************************************************************)
(* How a card comes to be blocked: the turns of one conversation, from the *)
(* words of a message to the block_card call and its recorded reason.      *)
(*                                                                         *)
(* TurnGraph leaves open which intent a message has and which entity it    *)
(* names; here both follow from the message, from what the memory kept of  *)
(* earlier ones and from the question a turn asked.  The deployment is the *)
(* one without an LLM; the hand-off to a human, IBANs and account types    *)
(* are left out, and a message names at most one card.                     *)
(***************************************************************************)
EXTENDS IntentRules

CONSTANTS
  Cards, NoCard,  \* card numbers (their last four digits)
  OwnCards,       \* those of the session's account
  BankCards,      \* those of any account of the bank
  Messages,       \* what the user may write
  NoMessage,
  KeptMessages,   \* how many user messages fit into the history limit
  Faults          \* what may go wrong in the instance under study

Fault == {"load", "save_read", "save_write",  \* the memory, see ConversationMemory
          "expire", "bank", "turn"}

(***************************************************************************)
(* What extract_entities finds of a text: one card or none.                *)
(***************************************************************************)
ExtractedCard == Cards \union {NoCard}

(***************************************************************************)
(* A message.  cancel: it begins with a word of NEGATIVE_ANSWERS, and      *)
(* whether a request follows it; text: what the classifier sees of it (of  *)
(* the request, if it cancels); named: the card it names; digits: the card *)
(* it is nothing but the four digits of; affirms: it is one of             *)
(* _AFFIRMATIVE_ANSWERS; follows: it is short and holds a follow-up marker. *)
(***************************************************************************)
UserMessage ==
  {m \in [cancel : {"none", "only", "and_more"}, text : Text,
          named : ExtractedCard, digits : Cards \union {NoCard},
          affirms : BOOLEAN, follows : BOOLEAN] :
     /\ m.text.hits["ESCALATE"] = 0 /\ m.text.tone # "complaint"
     /\ m.cancel # "none" => ~m.affirms /\ m.digits = NoCard
     /\ m.cancel = "only" => m.named = NoCard
     /\ m.affirms => m.named = NoCard /\ m.digits = NoCard
     /\ m.digits # NoCard =>
          /\ m.named = NoCard /\ ~m.follows /\ m.text.tone = "plain"
          /\ \A label \in ScoredLabel : m.text.hits[label] = 0}

ASSUME CardAssumption ==
  /\ OwnCards \subseteq BankCards /\ BankCards \subseteq Cards /\ NoCard \notin Cards
  /\ Messages \subseteq UserMessage /\ NoMessage \notin UserMessage
  /\ KeptMessages \in Nat
  /\ Faults \subseteq Fault

VARIABLES
  cards,                    \* the status of each of the bank's cards
  store,                    \* the conversation's context in Redis
  step,                     \* the node whose turn it is
  user_query, history, carried_pending_request,
  card,                     \* the CARD_LAST4 among the turn's entities
  intents,                  \* what is still to be served
  pending_entity_request,
  \* history, for the properties
  source,                   \* how intent_agent came to the intents
  called, reason            \* the arguments of the turn's block_card call

turnVars == << user_query, history, carried_pending_request, card, intents,
               pending_entity_request, source, called, reason >>
vars     == << cards, store, step, turnVars >>

\* A question about a card: the card it proposes, and the message it is about.
CardQuestion ==
  [proposed_value : OwnCards \union {NoCard}, original_message : UserMessage]
NoQuestion   == [proposed_value |-> NoCard, original_message |-> NoMessage]
EmptyContext == [history |-> << >>, pending |-> NoQuestion]

Step == {"idle", "ner_agent", "intent_agent", "worker", "memory_save"}
Source == {None, "continued", "cancelled", "slot_fill", "follow_up", "classified"}

\* The turn's own state before it reads the memory (new_state).
FreshTurn ==
  /\ card' = NoCard /\ intents' = << >> /\ source' = None
  /\ pending_entity_request' = NoQuestion
  /\ called' = NoCard /\ reason' = NoMessage

Init ==
  /\ cards \in [BankCards -> {"active", "blocked"}]
  /\ store = EmptyContext /\ step = "idle"
  /\ user_query = NoMessage /\ history = << >> /\ carried_pending_request = NoQuestion
  /\ card = NoCard /\ intents = << >> /\ source = None
  /\ pending_entity_request = NoQuestion
  /\ called = NoCard /\ reason = NoMessage

Asked == carried_pending_request # NoQuestion

-----------------------------------------------------------------------------
\* The turn's first nodes.

MemoryLoad(message) ==
  /\ step = "idle" /\ step' = "ner_agent"
  /\ user_query' = message
  /\ \E context \in {store} \union IF "load" \in Faults THEN {EmptyContext} ELSE {} :
       /\ history' = context.history
       /\ carried_pending_request' = context.pending
  /\ FreshTurn
  /\ UNCHANGED << cards, store >>

\* The card of the last message in the history that names one.
RecalledCard(messages) ==
  LET naming == {i \in DOMAIN messages : messages[i] # NoCard} IN
  IF naming = {} THEN NoCard
  ELSE messages[CHOOSE i \in naming : \A j \in naming : j <= i]

\* Mutants: only the proposal is understood; whatever is said means the proposal.
BareAnswerAffirmOnly(message, question) ==
  IF message.affirms THEN question.proposed_value ELSE NoCard
BareAnswerPresumed(message, question) ==
  IF question.proposed_value # NoCard THEN question.proposed_value ELSE message.digits

\* synthesize_bare_answer_entity: the proposal confirmed, or four digits.
BareAnswer(message, question) ==
  IF message.affirms /\ question.proposed_value # NoCard
  THEN question.proposed_value ELSE message.digits

\* Mutant: a card is looked for in the message only.
FoundCardUnrecalled(message, messages, question) ==
  IF message.named # NoCard THEN message.named
  ELSE IF question # NoQuestion THEN BareAnswer(message, question) ELSE NoCard

\* The message's own card, else one of the history, else a bare answer.
FoundCard(message, messages, question) ==
  IF message.named # NoCard THEN message.named
  ELSE IF RecalledCard(messages) # NoCard THEN RecalledCard(messages)
  ELSE IF question # NoQuestion THEN BareAnswer(message, question) ELSE NoCard

NerAgent ==
  /\ step = "ner_agent" /\ step' = "intent_agent"
  /\ card' = FoundCard(user_query, history, carried_pending_request)
  /\ UNCHANGED << cards, store, user_query, history, carried_pending_request, intents,
                  pending_entity_request, source, called, reason >>

-----------------------------------------------------------------------------
\* intent_agent: the branches of intent_node, in their order.

Classified(message, found) ==
  ClassifyIntentRuleBased(message.text, IF found = NoCard THEN {} ELSE {"CARD_LAST4"})

FurtherIntents(message, found, intent) ==
  CleanExtraIntents(intent,
    RuleBasedExtraIntents(message.text, IF found = NoCard THEN {} ELSE {"CARD_LAST4"}, intent))

Serve(how, labels) ==
  /\ step' = "worker"
  /\ source' = how /\ intents' = labels
  /\ UNCHANGED << cards, store, history, carried_pending_request, card,
                  pending_entity_request, called, reason >>

ContinueAfterCancel ==
  /\ Asked /\ user_query.cancel = "and_more"
  /\ user_query' = [user_query EXCEPT !.cancel = "none"]
  /\ Serve("continued", << Classified(user_query, user_query.named) >>)

CancelQuestion ==
  /\ Asked /\ user_query.cancel = "only"
  /\ Serve("cancelled", << "SMALL_TALK" >>)
  /\ UNCHANGED user_query

AnswerQuestion ==
  /\ Asked /\ user_query.cancel = "none" /\ card # NoCard
  /\ Serve("slot_fill", << "CARD_ACTION" >>)
  /\ UNCHANGED user_query

Classify ==
  /\ Asked => user_query.cancel = "none" /\ card = NoCard
  /\ LET intent == Classified(user_query, card) IN
       IF intent = "OUT_OF_SCOPE" /\ user_query.follows /\ history # << >>
       THEN Serve("follow_up", << "RAG_QUERY" >>)
       ELSE Serve("classified", << intent >> \o FurtherIntents(user_query, card, intent))
  /\ UNCHANGED user_query

IntentAgent ==
  /\ step = "intent_agent"
  /\ ContinueAfterCancel \/ CancelQuestion \/ AnswerQuestion \/ Classify

-----------------------------------------------------------------------------
\* The workers, once for each intent to serve.

Serving(labels) ==
  /\ step = "worker" /\ intents # << >> /\ Head(intents) \in labels
  /\ intents' = Tail(intents)
  /\ step' = IF Tail(intents) = << >> THEN "memory_save" ELSE "worker"
  /\ UNCHANGED << store, user_query, history, carried_pending_request, card, source >>

ActiveCards == {c \in OwnCards : cards[c] = "active"}

\* The cards to choose from; a list that cannot be had is an empty one.
ListedCards == {ActiveCards} \union IF "bank" \in Faults THEN {{}} ELSE {}

\* build_card_prompt: a single card in use is proposed.
ProposedCard(usable) ==
  IF Cardinality(usable) = 1 THEN CHOOSE c \in usable : TRUE ELSE NoCard

AskForCard ==
  /\ Serving({"CARD_ACTION"}) /\ card = NoCard
  /\ \E usable \in ListedCards :
       pending_entity_request' =
         [proposed_value |-> ProposedCard(usable), original_message |-> user_query]
  /\ UNCHANGED << cards, called, reason >>

\* Mutant: the reason of an answered question is the answer.
CallReasonOfAnswer == user_query

\* The reason recorded with the block: the request the turn answers for.
CallReason == IF Asked THEN carried_pending_request.original_message ELSE user_query

\* A number that is no card of the bank's is answered with an error.
BlockCard(c) == cards' = [d \in BankCards |-> IF d = c THEN "blocked" ELSE cards[d]]

\* A call that fails is an answer like another; it may have reached the bank.
CallTool(effect) == effect \/ ("bank" \in Faults /\ UNCHANGED cards)

CallBlockCard ==
  /\ Serving({"CARD_ACTION"}) /\ card # NoCard
  /\ called' = card /\ reason' = CallReason
  /\ CallTool(BlockCard(card))
  /\ UNCHANGED pending_entity_request

\* escalate_node without a script: an open question is asked again.
EscalateAgent ==
  /\ Serving({"OUT_OF_SCOPE"})
  /\ pending_entity_request' = carried_pending_request
  /\ UNCHANGED << cards, called, reason >>

\* The passes that leave the cards and the question alone.
OtherWorker ==
  /\ Serving(IntentLabel \ {"CARD_ACTION", "OUT_OF_SCOPE", "ESCALATE"})
  /\ UNCHANGED << cards, pending_entity_request, called, reason >>

Worker == AskForCard \/ CallBlockCard \/ EscalateAgent \/ OtherWorker

-----------------------------------------------------------------------------
\* The end of the turn.

\* Mutant: one message more than fits is kept.
KeptTailInclusive(messages) ==
  SubSeq(messages, IF Len(messages) > KeptMessages THEN Len(messages) - KeptMessages ELSE 1,
         Len(messages))

KeptTail(messages) ==
  SubSeq(messages, IF Len(messages) > KeptMessages THEN Len(messages) - KeptMessages + 1 ELSE 1,
         Len(messages))

\* Of a message only the card it names matters to later turns.
MemorySave ==
  /\ step = "memory_save" /\ step' = "idle"
  /\ \/ \E kept \in {store.history} \union IF "save_read" \in Faults THEN {<< >>} ELSE {} :
          store' = [history |-> KeptTail(Append(kept, user_query.named)),
                    pending |-> pending_entity_request]
     \/ "save_write" \in Faults /\ UNCHANGED store
  /\ UNCHANGED << cards, turnVars >>

TurnLost ==
  /\ "turn" \in Faults /\ step # "idle" /\ step' = "idle"
  /\ UNCHANGED << cards, store, turnVars >>

ContextLost ==
  /\ "expire" \in Faults /\ store' = EmptyContext
  /\ UNCHANGED << cards, step, turnVars >>

\* Another conversation, or another channel of the bank.
OtherBlocks(c) ==
  /\ BlockCard(c)
  /\ UNCHANGED << store, step, turnVars >>

Next == \/ \E message \in Messages : MemoryLoad(message)
        \/ NerAgent \/ IntentAgent \/ Worker \/ MemorySave \/ TurnLost \/ ContextLost
        \/ \E c \in BankCards : OtherBlocks(c)

Spec == Init /\ [][Next]_vars

-----------------------------------------------------------------------------
\* Properties.

NamedCards == {history_ \in Seq(Cards \union {NoCard}) : Len(history_) <= KeptMessages}

CardTypeOK ==
  /\ cards \in [BankCards -> {"active", "blocked"}]
  /\ store \in [history : NamedCards, pending : CardQuestion \union {NoQuestion}]
  /\ step \in Step
  /\ user_query \in UserMessage \union {NoMessage}
  /\ history \in NamedCards
  /\ carried_pending_request \in CardQuestion \union {NoQuestion}
  /\ card \in Cards \union {NoCard}
  /\ intents \in Seq(IntentLabel)
  /\ pending_entity_request \in CardQuestion \union {NoQuestion}
  /\ source \in Source
  /\ called \in Cards \union {NoCard}
  /\ reason \in UserMessage \union {NoMessage}

Unnamed(messages) == \A i \in DOMAIN messages : messages[i] = NoCard

\* While a question about a card is open, no message the memory still holds
\* names a card: ner_agent prefers a recalled card to a bare answer, so the
\* answer would be given to the wrong card.
PendingExcludesRecall == store.pending # NoQuestion => Unnamed(store.history)

\* A bare answer to a question is taken as one: four digits block that card,
\* and a yes blocks the card that was proposed, one of the customer's own
\* (PendingEntityRequest, dto.py:95-101).
AnswerIsTaken ==
  step = "memory_save" /\ Asked =>
    /\ user_query.digits # NoCard => called = user_query.digits
    /\ user_query.affirms /\ carried_pending_request.proposed_value # NoCard =>
         called = carried_pending_request.proposed_value /\ called \in OwnCards

\* Who takes a request back has no card blocked for it, unless the rest of the
\* message itself names one (split_cancellation).
CancelledCardStays ==
  source \in {"cancelled", "continued"} /\ called # NoCard => called = user_query.named

\* The reason recorded for a card that was blocked by an answer is a message
\* that speaks of blocking one, however many turns and repeated questions ago
\* (PendingEntityRequest.original_message, dto.py:103-107).
ReasonExplains ==
  called # NoCard /\ Asked => reason.text.hits["CARD_ACTION"] > 0

\* intent_classifier.py:183-185: an entity adds to the evidence of keywords, it
\* does not take its place.  A message blocks a card only if it says so, names
\* a card, or answers the question for one.  (Of a number that is no card of the
\* bank's the agent asks "Hangisini işleme alayım?" without storing a question,
\* tool_agent.py:54-57, so that a bare answer calls for that number once more.)
EvidenceInMessage ==
  called # NoCard =>
    \/ source = "slot_fill" \/ user_query.named # NoCard
    \/ user_query.text.hits["CARD_ACTION"] > 0

MessageGiven == step # "idle" => user_query # NoMessage

\* The inductive invariants of the proofs.  Whatever fails, what a turn found,
\* serves and calls is what its message and its memory amount to
\* (TurnAccounted).  As long as every turn reads its memory, a question is open
\* only in a conversation that names no card (QuestionsUnnamed).
QuestionsUnnamed ==
  /\ PendingExcludesRecall
  /\ Asked => Unnamed(history)
  /\ step # "idle" /\ Unnamed(history) => Unnamed(store.history)
  /\ pending_entity_request # NoQuestion => Unnamed(history) /\ user_query.named = NoCard

CardAccountedFor ==
  /\ card # NoCard \/ step \in {"intent_agent", "worker", "memory_save"} =>
       card = FoundCard(user_query, history, carried_pending_request)
  /\ called # NoCard => called = card
  /\ called # NoCard /\ Asked => reason = carried_pending_request.original_message

Queued == {intents[i] : i \in DOMAIN intents}

Answering ==
  Asked /\ (user_query.digits # NoCard
             \/ (user_query.affirms /\ carried_pending_request.proposed_value # NoCard))

IntentsAccountedFor ==
  /\ step = "worker" /\ Asked /\ "OUT_OF_SCOPE" \in Queued => user_query.named = NoCard
  /\ step = "worker" /\ card = NoCard /\ "CARD_ACTION" \in Queued =>
       user_query.text.hits["CARD_ACTION"] > 0
  /\ source \in {"cancelled", "continued"} =>
       Asked /\ ~user_query.affirms /\ user_query.digits = NoCard
  /\ Answering => /\ step = "worker" => intents = << "CARD_ACTION" >>
                  /\ step = "memory_save" => called = card

SpeaksOfBlocking(question) ==
  question # NoQuestion => question.original_message.text.hits["CARD_ACTION"] > 0

QuestionsExplained ==
  /\ SpeaksOfBlocking(store.pending) /\ SpeaksOfBlocking(carried_pending_request)
  /\ SpeaksOfBlocking(pending_entity_request)

TurnAccounted == CardTypeOK /\ MessageGiven /\ CardAccountedFor
                   /\ IntentsAccountedFor /\ QuestionsExplained

CardInv == TurnAccounted /\ QuestionsUnnamed
=============================================================================
