--------------------------- MODULE CardFlow_proofs ---------------------------
(***************************************************************************)
(* Which card a conversation blocks, and why, for every set of cards and   *)
(* messages, every history limit and every fault; and that an answer to a  *)
(* question about a card is taken as one as long as no turn's read of the  *)
(* memory fails.                                                           *)
(***************************************************************************)
EXTENDS CardFlow, IntentRules_proofs, SequenceTheorems

USE DEF ExtractedCard

-----------------------------------------------------------------------------
\* What a turn finds in its message and its history.

\* The recalled card is one the history names, if it names any.
LEMMA RecalledNamed ==
  ASSUME NEW messages \in Seq(Cards \union {NoCard})
  PROVE  /\ RecalledCard(messages) \in Cards \union {NoCard}
         /\ RecalledCard(messages) = NoCard <=> Unnamed(messages)
<1> DEFINE naming == {i \in DOMAIN messages : messages[i] # NoCard}
           back   == {Len(messages) - i : i \in naming}
           last   == CHOOSE i \in naming : \A j \in naming : j <= i
<1>1. Len(messages) \in Nat /\ DOMAIN messages = 1 .. Len(messages)
  OBVIOUS
<1>2. CASE naming = {}
  BY <1>2 DEF RecalledCard, Unnamed
<1>3. CASE naming # {}
  <2>1. back \in SUBSET Nat /\ back # {}
    BY <1>1, <1>3
  <2>2. Earliest(back) \in back /\ \A j \in back : Earliest(back) <= j
    <3> HIDE DEF back
    <3> QED  BY <2>1, EarliestIsLeast
  <2>3. PICK i \in naming : Earliest(back) = Len(messages) - i
    BY <2>2
  <2>4. \A j \in naming : j <= i
    <3>1. TAKE j \in naming
    <3>2. Len(messages) - i <= Len(messages) - j
      BY <2>2, <2>3
    <3> QED  BY <1>1, <3>2
  <2>5. last \in naming
    BY <2>4, Zenon
  <2>6. RecalledCard(messages) = messages[last]
    BY <1>3, Zenon DEF RecalledCard
  <2> HIDE DEF last
  <2> QED  BY <2>5, <2>6 DEF Unnamed
<1> QED  BY <1>2, <1>3

\* No entity of the turn is a card number: then nothing names one.  With an
\* open question and nothing recalled the card is the message's own.
LEMMA FoundCardFits ==
  ASSUME NEW message \in UserMessage, NEW messages \in Seq(Cards \union {NoCard}),
         NEW question \in CardQuestion \union {NoQuestion}
  PROVE  /\ FoundCard(message, messages, question) \in Cards \union {NoCard}
         /\ FoundCard(message, messages, question) = NoCard =>
              message.named = NoCard /\ Unnamed(messages)
         /\ question # NoQuestion /\ Unnamed(messages) =>
              FoundCard(message, messages, question) =
                IF message.named # NoCard THEN message.named ELSE BareAnswer(message, question)
<1>1. message.named \in Cards \union {NoCard} /\ message.digits \in Cards \union {NoCard}
  BY DEF UserMessage
<1>2. question.proposed_value \in Cards \union {NoCard}
  BY CardAssumption DEF CardQuestion, NoQuestion
<1>3. BareAnswer(message, question) \in Cards \union {NoCard}
  BY <1>1, <1>2 DEF BareAnswer
<1> QED
  BY <1>1, <1>3, RecalledNamed DEF FoundCard

\* Taking the cancelling words off a message leaves a message.
LEMMA RestIsMessage ==
  ASSUME NEW message \in UserMessage, message.cancel = "and_more",
         NEW rest, rest = [message EXCEPT !.cancel = "none"]
  PROVE  /\ rest \in UserMessage
         /\ rest.named = message.named /\ rest.digits = message.digits
         /\ rest.affirms = message.affirms /\ rest.text = message.text
  BY DEF UserMessage

-----------------------------------------------------------------------------
\* What the classifier makes of it.

LEMMA IntentsFit ==
  ASSUME NEW message \in UserMessage, NEW found, NEW primary,
         primary = Classified(message, found)
  PROVE  /\ primary \in IntentLabel
         /\ FurtherIntents(message, found, primary) \in Seq(ChainableIntents)
         /\ primary = "OUT_OF_SCOPE" => found = NoCard
         /\ primary = "CARD_ACTION" /\ found = NoCard => message.text.hits["CARD_ACTION"] > 0
         /\ \A i \in DOMAIN FurtherIntents(message, found, primary) :
              FurtherIntents(message, found, primary)[i] = "CARD_ACTION" =>
                message.text.hits["CARD_ACTION"] > 0
<1> DEFINE types == IF found = NoCard THEN {} ELSE {"CARD_LAST4"}
           text  == message.text
           raw   == RuleBasedExtraIntents(text, types, primary)
           queue == FurtherIntents(message, found, primary)
<1>1. text \in Text /\ text.hits["CARD_ACTION"] \in Nat
  BY SixLabels DEF UserMessage, Text
<1>2. primary = ClassifyIntentRuleBased(text, types) /\ queue = CleanExtraIntents(primary, raw)
  BY DEF Classified, FurtherIntents
<1>3. "CARD_ACTION" \in ScoredLabel /\ BoostTypes["CARD_ACTION"] = {"CARD_LAST4"}
  BY SixLabels DEF BoostTypes
<1> HIDE DEF text, queue
<1>4. /\ primary \in IntentLabel
      /\ primary = "CARD_ACTION" => Scores(text, types)["CARD_ACTION"] > 0
      /\ primary = "OUT_OF_SCOPE" => Scores(text, types)["CARD_ACTION"] = 0
  <2>1. "CARD_ACTION" \in ToolDrivenIntents
    BY DEF ToolDrivenIntents
  <2> HIDE DEF types
  <2> QED  BY <1>1, <1>2, <1>3, <2>1, PrimaryIntent
<1>5. /\ found = NoCard => Scores(text, types)["CARD_ACTION"] = text.hits["CARD_ACTION"]
      /\ found # NoCard => Scores(text, types)["CARD_ACTION"] = text.hits["CARD_ACTION"] + 1
  BY <1>1, <1>3, ScoresType
<1>6. PICK n \in Nat :
        /\ DOMAIN raw = 1 .. n
        /\ \A i \in 1 .. n : raw[i] \in ExtraCandidates(text, types, primary)
  <2> HIDE DEF types
  <2> QED  BY <1>1, ExtrasAreCandidates
<1>7. FilteredQueue(primary, raw, queue)
  <2> HIDE DEF raw
  <2> QED  BY <1>2, <1>6, CleanExtraIntentsQueue
<1>8. ASSUME NEW i \in DOMAIN queue, queue[i] = "CARD_ACTION"
      PROVE  text.hits["CARD_ACTION"] > 0
  <2>1. "CARD_ACTION" \in ExtraCandidates(text, types, primary)
    BY <1>6, <1>7, <1>8 DEF FilteredQueue
  <2> QED  BY <1>1, <1>3, <2>1 DEF ExtraCandidates, Text
<1>9. queue \in Seq(ChainableIntents)
  BY <1>7 DEF FilteredQueue
<1> QED
  BY <1>1, <1>4, <1>5, <1>8, <1>9 DEF text, queue

-----------------------------------------------------------------------------
\* What is kept of a conversation.

\* A card is proposed only if it is one of the list.
LEMMA ProposalIsListed ==
  ASSUME NEW usable
  PROVE  ProposedCard(usable) \in usable \union {NoCard}
<1>1. Cardinality({}) = 0
  BY FS_EmptySet, Zenon
<1>2. usable = {} => Cardinality(usable) = 0
  BY <1>1, Zenon
<1> QED  BY <1>2 DEF ProposedCard

\* The history stays within its limit, and cutting it names no new card.
LEMMA KeptTailFits ==
  ASSUME NEW messages \in NamedCards, NEW named \in Cards \union {NoCard}
  PROVE  LET kept == KeptTail(Append(messages, named)) IN
         /\ kept \in NamedCards
         /\ Unnamed(messages) /\ named = NoCard => Unnamed(kept)
<1> DEFINE all  == Append(messages, named)
           m    == IF Len(all) > KeptMessages THEN Len(all) - KeptMessages + 1 ELSE 1
           kept == KeptTail(all)
           S    == Cards \union {NoCard}
<1>1. messages \in Seq(S) /\ Len(messages) \in Nat /\ DOMAIN messages = 1 .. Len(messages)
  BY DEF NamedCards
<1>2. /\ all \in Seq(S) /\ Len(all) = Len(messages) + 1
      /\ \A i \in 1 .. Len(messages) : all[i] = messages[i]
      /\ all[Len(messages) + 1] = named
  BY <1>1
<1>3. m \in Nat /\ m >= 1 /\ m <= Len(all) + 1 /\ Len(all) - m + 1 <= KeptMessages
  BY <1>1, <1>2, CardAssumption
<1>4. \A i \in m .. Len(all) : all[i] \in S
  BY <1>1, <1>2, <1>3, ElementOfSeq
<1>5. kept = SubSeq(all, m, Len(all))
  BY DEF KeptTail
<1>6. m \in Int /\ Len(all) \in Int
  BY <1>1, <1>2, <1>3
<1>7. /\ kept \in Seq(S) /\ Len(kept) = Len(all) - m + 1
      /\ \A i \in 1 .. Len(all) - m + 1 : kept[i] = all[m + i - 1]
  <2> HIDE DEF all, m, kept, S
  <2> QED  BY <1>3, <1>4, <1>5, <1>6, SubSeqProperties
<1> HIDE DEF all, m, kept
<1>8. kept \in NamedCards
  BY <1>3, <1>7 DEF NamedCards
<1>9. ASSUME Unnamed(messages), named = NoCard, NEW i \in DOMAIN kept
      PROVE  kept[i] = NoCard
  <2>1. i \in 1 .. Len(all) - m + 1
    BY <1>7
  <2>2. m + i - 1 \in 1 .. Len(messages) + 1
    BY <1>1, <1>2, <1>3, <2>1
  <2>3. \A p \in 1 .. Len(messages) + 1 : all[p] = NoCard
    BY <1>1, <1>2, <1>9 DEF Unnamed
  <2> QED  BY <1>7, <2>1, <2>2, <2>3
<1> QED
  BY <1>8, <1>9 DEF all, kept, Unnamed

LEMMA NothingKept ==
  << >> \in NamedCards /\ Unnamed(<< >>)
  BY CardAssumption DEF NamedCards, Unnamed

-----------------------------------------------------------------------------
\* Type correctness.

\* A step of intent_agent, whichever branch it takes.
LEMMA IntentAgentStep ==
  ASSUME CardTypeOK, IntentAgent, user_query # NoMessage
  PROVE  /\ step = "intent_agent" /\ step' = "worker" /\ intents' \in Seq(IntentLabel)
         /\ source' \in Source
         /\ user_query' \in UserMessage
         /\ user_query'.named = user_query.named /\ user_query'.digits = user_query.digits
         /\ user_query'.affirms = user_query.affirms /\ user_query'.text = user_query.text
         /\ UNCHANGED << cards, store, history, carried_pending_request, card,
                         pending_entity_request, called, reason >>
<1> USE DEF Serve, Source
<1>1. user_query \in UserMessage
  BY DEF CardTypeOK
<1>2. {"SMALL_TALK", "CARD_ACTION", "RAG_QUERY"} \subseteq IntentLabel
  BY DEF IntentLabel, ChainableIntents, ToolDrivenIntents
<1>3. step = "intent_agent"
  BY DEF IntentAgent
<1>4. CASE ContinueAfterCancel
  BY <1>1, <1>3, <1>4, RestIsMessage, IntentsFit DEF ContinueAfterCancel
<1>5. CASE CancelQuestion
  BY <1>1, <1>2, <1>3, <1>5 DEF CancelQuestion
<1>6. CASE AnswerQuestion
  BY <1>1, <1>2, <1>3, <1>6 DEF AnswerQuestion
<1>7. CASE Classify
  <2> DEFINE label == Classified(user_query, card)
             more  == FurtherIntents(user_query, card, label)
  <2>1. label \in IntentLabel /\ more \in Seq(ChainableIntents)
    BY <1>1, IntentsFit
  <2>2. << label >> \o more \in Seq(IntentLabel)
    <3>1. more \in Seq(IntentLabel)
      BY <2>1 DEF IntentLabel
    <3> HIDE DEF label, more
    <3> QED  BY <2>1, <3>1
  <2>3. /\ intents' = << "RAG_QUERY" >> \/ intents' = << label >> \o more
        /\ source' \in Source /\ step' = "worker" /\ user_query' = user_query
        /\ UNCHANGED << cards, store, history, carried_pending_request, card,
                        pending_entity_request, called, reason >>
    BY <1>7 DEF Classify
  <2>4. << "RAG_QUERY" >> \in Seq(IntentLabel)
    BY <1>2
  <2> HIDE DEF label, more
  <2> QED  BY <1>1, <1>3, <2>2, <2>3, <2>4
<1> QED  BY <1>4, <1>5, <1>6, <1>7 DEF IntentAgent

\* What every worker leaves alone, and what is left to serve.
LEMMA WorkerStep ==
  ASSUME CardTypeOK, Worker
  PROVE  /\ step = "worker" /\ step' \in {"worker", "memory_save"}
         /\ intents # << >> /\ intents' = Tail(intents) /\ intents' \in Seq(IntentLabel)
         /\ intents' = << >> <=> step' = "memory_save"
         /\ Queued' \subseteq Queued /\ Head(intents) \in Queued
         /\ UNCHANGED << store, user_query, history, carried_pending_request, card, source >>
<1>1. intents \in Seq(IntentLabel)
  BY DEF CardTypeOK
<1>2. /\ step = "worker" /\ intents # << >> /\ intents' = Tail(intents)
      /\ step' = IF Tail(intents) = << >> THEN "memory_save" ELSE "worker"
      /\ UNCHANGED << store, user_query, history, carried_pending_request, card, source >>
  BY DEF Worker, AskForCard, CallBlockCard, EscalateAgent, OtherWorker, Serving
<1>3. /\ Tail(intents) \in Seq(IntentLabel) /\ Len(Tail(intents)) = Len(intents) - 1
      /\ \A i \in 1 .. Len(Tail(intents)) : Tail(intents)[i] = intents[i + 1]
      /\ Len(intents) \in Nat /\ Len(intents) > 0 /\ Head(intents) = intents[1]
  BY <1>1, <1>2
<1>4. Queued' \subseteq Queued /\ Head(intents) \in Queued
  BY <1>1, <1>2, <1>3 DEF Queued
<1> QED  BY <1>2, <1>3, <1>4

LEMMA CardTypeStep ==
  ASSUME CardTypeOK, MessageGiven, [Next]_vars
  PROVE  CardTypeOK' /\ MessageGiven'
<1> USE DEF CardTypeOK, MessageGiven, Step, Source
<1>0. NoMessage \notin UserMessage /\ Messages \subseteq UserMessage
  BY CardAssumption
<1>1. ASSUME NEW message \in Messages, MemoryLoad(message)
      PROVE  CardTypeOK' /\ MessageGiven'
  <2>1. history' \in NamedCards /\ carried_pending_request' \in CardQuestion \union {NoQuestion}
    BY <1>1, NothingKept DEF MemoryLoad, EmptyContext
  <2> QED  BY <1>0, <1>1, <2>1 DEF MemoryLoad, FreshTurn
<1>2. CASE NerAgent
  <2>1. card' \in Cards \union {NoCard}
    BY <1>0, <1>2, FoundCardFits DEF NerAgent, NamedCards
  <2> QED  BY <1>2, <2>1 DEF NerAgent
<1>3. CASE IntentAgent
  BY <1>0, <1>3, IntentAgentStep DEF IntentAgent
<1>4. CASE Worker
  <2>1. /\ step = "worker" /\ step' \in {"worker", "memory_save"} /\ intents' \in Seq(IntentLabel)
        /\ UNCHANGED << store, user_query, history, carried_pending_request, card, source >>
    BY <1>4, WorkerStep
  <2>2. user_query \in UserMessage
    BY <2>1
  <2>3. /\ cards' \in [BankCards -> {"active", "blocked"}]
        /\ pending_entity_request' \in CardQuestion \union {NoQuestion}
        /\ called' \in Cards \union {NoCard} /\ reason' \in UserMessage \union {NoMessage}
    <3>1. CASE AskForCard
      <4>1. PICK usable \in ListedCards :
              pending_entity_request' = [proposed_value   |-> ProposedCard(usable),
                                         original_message |-> user_query]
        BY <3>1, Zenon DEF AskForCard
      <4>2. usable \subseteq OwnCards
        BY <4>1 DEF ListedCards, ActiveCards
      <4>3. ProposedCard(usable) \in OwnCards \union {NoCard}
        BY <4>2, ProposalIsListed
      <4>4. pending_entity_request' \in CardQuestion
        BY <2>2, <4>1, <4>3 DEF CardQuestion
      <4> QED  BY <3>1, <4>4 DEF AskForCard
    <3>2. CASE CallBlockCard
      <4>1. reason' \in UserMessage \union {NoMessage}
        BY <2>2, <3>2 DEF CallBlockCard, CallReason, Asked, CardQuestion, NoQuestion
      <4>2. cards' \in [BankCards -> {"active", "blocked"}]
        BY <3>2 DEF CallBlockCard, CallTool, BlockCard
      <4> QED  BY <3>2, <4>1, <4>2 DEF CallBlockCard
    <3>3. CASE EscalateAgent
      BY <3>3 DEF EscalateAgent
    <3>4. CASE OtherWorker
      BY <3>4 DEF OtherWorker
    <3> QED  BY <1>4, <3>1, <3>2, <3>3, <3>4 DEF Worker
  <2> QED  BY <2>1, <2>2, <2>3, <1>0
<1>5. CASE MemorySave
  <2>1. user_query \in UserMessage /\ user_query.named \in Cards \union {NoCard}
    BY <1>5 DEF MemorySave, UserMessage
  <2>2. store.history \in NamedCards
    OBVIOUS
  <2>3. store' \in [history : NamedCards, pending : CardQuestion \union {NoQuestion}]
    BY <1>5, <2>1, <2>2, KeptTailFits, NothingKept DEF MemorySave
  <2> QED  BY <1>5, <2>3 DEF MemorySave, turnVars
<1>6. CASE TurnLost
  BY <1>6 DEF TurnLost, turnVars
<1>7. CASE ContextLost
  BY <1>7, NothingKept DEF ContextLost, turnVars, EmptyContext
<1>8. ASSUME NEW c \in BankCards, OtherBlocks(c)
      PROVE  CardTypeOK' /\ MessageGiven'
  BY <1>8 DEF OtherBlocks, BlockCard, turnVars
<1>9. CASE UNCHANGED vars
  BY <1>9 DEF vars, turnVars
<1> QED
  BY <1>1, <1>2, <1>3, <1>4, <1>5, <1>6, <1>7, <1>8, <1>9 DEF Next

-----------------------------------------------------------------------------
\* The inductive invariant.

\* No card is named while a question about one is open: the turn that asks found
\* none, and what it saves with the question holds none either.
LEMMA QuestionsStep ==
  ASSUME CardInv, [Next]_vars, "load" \notin Faults
  PROVE  QuestionsUnnamed'
<1> USE DEF CardInv, TurnAccounted, QuestionsUnnamed, PendingExcludesRecall, Asked
<1>0. CardTypeOK
  OBVIOUS
<1>1. ASSUME NEW message \in Messages, MemoryLoad(message)
      PROVE  QuestionsUnnamed'
  BY <1>1 DEF MemoryLoad, FreshTurn
<1>2. CASE NerAgent
  BY <1>2 DEF NerAgent
<1>3. CASE IntentAgent
  BY <1>3, IntentAgentStep DEF IntentAgent, MessageGiven
<1>4. CASE Worker
  <2>1. /\ step = "worker" /\ step' # "idle" /\ Head(intents) \in Queued
        /\ UNCHANGED << store, user_query, history, carried_pending_request, card, source >>
    BY <1>0, <1>4, WorkerStep
  <2>2. pending_entity_request' # NoQuestion => Unnamed(history) /\ user_query.named = NoCard
    <3>1. CASE AskForCard
      <4>1. user_query \in UserMessage /\ history \in Seq(Cards \union {NoCard})
        BY <1>0, <2>1 DEF CardTypeOK, MessageGiven, NamedCards
      <4>2. FoundCard(user_query, history, carried_pending_request) = NoCard
        BY <2>1, <3>1 DEF AskForCard, CardAccountedFor
      <4> QED  BY <1>0, <4>1, <4>2, FoundCardFits DEF CardTypeOK
    <3>2. CASE CallBlockCard
      BY <3>2 DEF CallBlockCard
    <3>3. CASE EscalateAgent
      BY <2>1, <3>3 DEF EscalateAgent, Serving, IntentsAccountedFor
    <3>4. CASE OtherWorker
      BY <3>4 DEF OtherWorker
    <3> QED  BY <1>4, <3>1, <3>2, <3>3, <3>4 DEF Worker
  <2> QED  BY <2>1, <2>2
<1>5. CASE MemorySave
  <2>1. /\ store.history \in NamedCards /\ step = "memory_save" /\ step' = "idle"
        /\ user_query.named \in Cards \union {NoCard}
        /\ UNCHANGED << user_query, history, carried_pending_request, pending_entity_request >>
    BY <1>0, <1>5 DEF MemorySave, CardTypeOK, MessageGiven, UserMessage, turnVars
  <2>2. ASSUME store'.pending # NoQuestion
        PROVE  Unnamed(store'.history)
    <3>1. CASE UNCHANGED store
      BY <2>2, <3>1
    <3>2. CASE \E kept \in {store.history, << >>} :
                 store' = [history |-> KeptTail(Append(kept, user_query.named)),
                           pending |-> pending_entity_request]
      <4>1. PICK kept \in {store.history, << >>} :
              store' = [history |-> KeptTail(Append(kept, user_query.named)),
                        pending |-> pending_entity_request]
        BY <3>2
      <4>2. Unnamed(kept) /\ user_query.named = NoCard /\ kept \in NamedCards
        BY <2>1, <2>2, <4>1, NothingKept
      <4> QED  BY <2>1, <4>1, <4>2, KeptTailFits
    <3> QED  BY <1>5, <3>1, <3>2 DEF MemorySave
  <2> QED  BY <2>1, <2>2
<1>6. CASE TurnLost
  BY <1>6 DEF TurnLost, turnVars
<1>7. CASE ContextLost
  BY <1>7, NothingKept DEF ContextLost, turnVars, EmptyContext
<1>8. ASSUME NEW c \in BankCards, OtherBlocks(c)
      PROVE  QuestionsUnnamed'
  BY <1>8 DEF OtherBlocks, turnVars
<1>9. CASE UNCHANGED vars
  BY <1>9 DEF vars, turnVars
<1> QED
  BY <1>1, <1>2, <1>3, <1>4, <1>5, <1>6, <1>7, <1>8, <1>9 DEF Next

\* The card of the turn is the one its message and its history amount to, and
\* it is the one that is blocked.
LEMMA CardStep ==
  ASSUME TurnAccounted, [Next]_vars
  PROVE  CardAccountedFor'
<1> USE DEF TurnAccounted, CardAccountedFor, Asked
<1>0. CardTypeOK /\ NoCard \notin Cards /\ NoMessage \notin UserMessage
  BY CardAssumption
<1>1. ASSUME NEW message \in Messages, MemoryLoad(message)
      PROVE  CardAccountedFor'
  BY <1>1 DEF MemoryLoad, FreshTurn
<1>2. CASE NerAgent
  BY <1>2 DEF NerAgent
<1>3. CASE IntentAgent
  <2>1. /\ step = "intent_agent" /\ user_query'.named = user_query.named
        /\ user_query'.digits = user_query.digits /\ user_query'.affirms = user_query.affirms
        /\ UNCHANGED << history, carried_pending_request, card, called, reason >>
    BY <1>0, <1>3, IntentAgentStep DEF IntentAgent, MessageGiven
  <2>2. FoundCard(user_query, history, carried_pending_request)'
          = FoundCard(user_query, history, carried_pending_request)
    BY <2>1 DEF FoundCard, BareAnswer
  <2> QED  BY <2>1, <2>2
<1>4. CASE Worker
  <2>1. /\ step = "worker"
        /\ UNCHANGED << store, user_query, history, carried_pending_request, card, source >>
    BY <1>0, <1>4, WorkerStep
  <2>2. \/ UNCHANGED << called, reason >>
        \/ called' = card /\ reason' = CallReason
    BY <1>4 DEF Worker, AskForCard, CallBlockCard, EscalateAgent, OtherWorker
  <2> QED  BY <2>1, <2>2 DEF CallReason
<1>5. CASE MemorySave
  BY <1>5 DEF MemorySave, turnVars
<1>6. CASE TurnLost
  BY <1>6 DEF TurnLost, turnVars
<1>7. CASE ContextLost
  BY <1>7 DEF ContextLost, turnVars
<1>8. ASSUME NEW c \in BankCards, OtherBlocks(c)
      PROVE  CardAccountedFor'
  BY <1>8 DEF OtherBlocks, turnVars
<1>9. CASE UNCHANGED vars
  BY <1>9 DEF vars, turnVars
<1> QED
  BY <1>1, <1>2, <1>3, <1>4, <1>5, <1>6, <1>7, <1>8, <1>9 DEF Next

\* With an open question, a message that answers it has found a card, its own
\* unless the history names one.
LEMMA AnswerFound ==
  ASSUME TurnAccounted, Answering, step \in {"intent_agent", "worker", "memory_save"}
  PROVE  /\ card # NoCard /\ user_query.cancel = "none"
         /\ Unnamed(history) => card = BareAnswer(user_query, carried_pending_request)
<1>1. /\ user_query \in UserMessage /\ history \in Seq(Cards \union {NoCard})
      /\ carried_pending_request \in CardQuestion \union {NoQuestion}
      /\ carried_pending_request # NoQuestion
  BY DEF TurnAccounted, CardTypeOK, MessageGiven, NamedCards, Answering, Asked
<1>2. /\ user_query.named = NoCard /\ user_query.cancel = "none"
      /\ user_query.affirms => user_query.digits = NoCard
  BY <1>1 DEF Answering, UserMessage
<1>3. card = FoundCard(user_query, history, carried_pending_request)
  BY DEF TurnAccounted, CardAccountedFor
<1>4. BareAnswer(user_query, carried_pending_request) # NoCard
  BY <1>2 DEF Answering, BareAnswer
<1>5. card # NoCard
  BY <1>1, <1>2, <1>3, <1>4 DEF FoundCard
<1>6. Unnamed(history) => card = BareAnswer(user_query, carried_pending_request)
  BY <1>1, <1>2, <1>3, FoundCardFits
<1> QED  BY <1>2, <1>5, <1>6

\* The branch intent_agent takes, and what the message told it.
LEMMA BranchTaken ==
  ASSUME TurnAccounted, IntentAgent
  PROVE  IntentsAccountedFor'
<1> DEFINE hits == user_query.text.hits["CARD_ACTION"]
<1>1. /\ CardTypeOK /\ step = "intent_agent" /\ user_query \in UserMessage
      /\ history \in Seq(Cards \union {NoCard})
      /\ carried_pending_request \in CardQuestion \union {NoQuestion}
  BY DEF TurnAccounted, CardTypeOK, MessageGiven, IntentAgent, NamedCards
<1>2. /\ step' = "worker" /\ intents' \in Seq(IntentLabel)
      /\ user_query'.named = user_query.named /\ user_query'.digits = user_query.digits
      /\ user_query'.affirms = user_query.affirms /\ user_query'.text = user_query.text
      /\ UNCHANGED << carried_pending_request, card, history, called, reason >>
  BY <1>1, IntentAgentStep DEF TurnAccounted, MessageGiven
<1>3. card = NoCard => user_query.named = NoCard
  BY <1>1, FoundCardFits DEF TurnAccounted, CardAccountedFor
<1>4. Answering' = Answering /\ Asked' = Asked
  BY <1>2 DEF Answering, Asked
<1>5. Answering => card # NoCard /\ user_query.cancel = "none"
  BY <1>1, AnswerFound
<1>6. CASE ContinueAfterCancel
  <2> DEFINE label == Classified(user_query, user_query.named)
  <2>1. /\ Asked /\ user_query.cancel = "and_more" /\ source' = "continued"
        /\ intents' = << label >>
    BY <1>6 DEF ContinueAfterCancel, Serve
  <2>2. /\ label = "OUT_OF_SCOPE" => user_query.named = NoCard
        /\ label = "CARD_ACTION" /\ user_query.named = NoCard => hits > 0
    BY <1>1, IntentsFit
  <2> HIDE DEF label
  <2>3. ~user_query.affirms /\ user_query.digits = NoCard
    BY <1>1, <2>1 DEF UserMessage
  <2>4. Queued' = {label}
    BY <2>1 DEF Queued
  <2> QED  BY <1>2, <1>3, <1>4, <1>5, <2>1, <2>2, <2>3, <2>4 DEF IntentsAccountedFor
<1>7. CASE CancelQuestion
  <2>1. /\ Asked /\ user_query.cancel = "only" /\ source' = "cancelled"
        /\ intents' = << "SMALL_TALK" >>
    BY <1>7 DEF CancelQuestion, Serve
  <2>2. ~user_query.affirms /\ user_query.digits = NoCard
    BY <1>1, <2>1 DEF UserMessage
  <2>3. Queued' = {"SMALL_TALK"}
    BY <2>1 DEF Queued
  <2> QED  BY <1>2, <1>4, <1>5, <2>1, <2>2, <2>3 DEF IntentsAccountedFor
<1>8. CASE AnswerQuestion
  <2>1. card # NoCard /\ source' = "slot_fill" /\ intents' = << "CARD_ACTION" >>
    BY <1>8 DEF AnswerQuestion, Serve
  <2>2. Queued' = {"CARD_ACTION"}
    BY <2>1 DEF Queued
  <2> QED  BY <1>2, <1>4, <2>1, <2>2 DEF IntentsAccountedFor
<1>9. CASE Classify
  <2> DEFINE label == Classified(user_query, card)
             more  == FurtherIntents(user_query, card, label)
  <2>1. /\ Asked => user_query.cancel = "none" /\ card = NoCard
        /\ \/ source' = "follow_up" /\ intents' = << "RAG_QUERY" >>
           \/ source' = "classified" /\ intents' = << label >> \o more
    BY <1>9 DEF Classify, Serve
  <2>2. /\ more \in Seq(ChainableIntents)
        /\ label = "CARD_ACTION" /\ card = NoCard => hits > 0
        /\ \A i \in DOMAIN more : more[i] = "CARD_ACTION" => hits > 0
    BY <1>1, IntentsFit
  <2>3. ~Answering
    BY <1>5, <2>1 DEF Answering
  <2>4. Asked => user_query.named = NoCard
    BY <1>3, <2>1
  <2>5. card = NoCard /\ "CARD_ACTION" \in Queued' => hits > 0
    <3>1. CASE intents' = << "RAG_QUERY" >>
      BY <3>1 DEF Queued
    <3>2. CASE intents' = << label >> \o more
      <4> HIDE DEF label, more
      <4>1. \A i \in DOMAIN intents' :
              intents'[i] = label \/ \E j \in DOMAIN more : intents'[i] = more[j]
        <5>1. /\ << label >> \in Seq({label} \union ChainableIntents)
              /\ more \in Seq({label} \union ChainableIntents) /\ Len(<< label >>) = 1
          BY <2>2
        <5> QED  BY <3>2, <5>1
      <4> QED  BY <2>2, <4>1 DEF Queued
    <3> QED  BY <2>1, <3>1, <3>2
  <2> HIDE DEF label, more
  <2> QED  BY <1>2, <1>4, <2>1, <2>3, <2>4, <2>5 DEF IntentsAccountedFor
<1> QED  BY <1>6, <1>7, <1>8, <1>9 DEF IntentAgent

LEMMA IntentsStep ==
  ASSUME TurnAccounted, [Next]_vars
  PROVE  IntentsAccountedFor'
<1> USE DEF IntentsAccountedFor, Asked, Answering
<1>0. CardTypeOK /\ MessageGiven /\ IntentsAccountedFor /\ CardAccountedFor
  BY DEF TurnAccounted
<1>1. ASSUME NEW message \in Messages, MemoryLoad(message)
      PROVE  IntentsAccountedFor'
  BY <1>1 DEF MemoryLoad, FreshTurn, None
<1>2. CASE NerAgent
  BY <1>0, <1>2 DEF NerAgent
<1>3. CASE IntentAgent
  BY <1>3, BranchTaken
<1>4. CASE Worker
  <2>1. /\ step = "worker" /\ step' \in {"worker", "memory_save"}
        /\ intents # << >> /\ intents' = Tail(intents)
        /\ intents' = << >> <=> step' = "memory_save"
        /\ Queued' \subseteq Queued /\ Head(intents) \in Queued
        /\ UNCHANGED << store, user_query, history, carried_pending_request, card, source >>
    BY <1>0, <1>4, WorkerStep
  <2>2. ASSUME Answering
        PROVE  step' = "memory_save" /\ called' = card
    <3>1. card # NoCard /\ intents = << "CARD_ACTION" >>
      BY <1>0, <2>1, <2>2, AnswerFound
    <3>2. intents' = << >> /\ Head(intents) = "CARD_ACTION"
      BY <2>1, <3>1
    <3>3. CallBlockCard
      BY <1>4, <3>1, <3>2 DEF Worker, AskForCard, EscalateAgent, OtherWorker, Serving
    <3> QED  BY <2>1, <3>2, <3>3 DEF CallBlockCard
  <2> HIDE DEF Answering
  <2>3. Answering' = Answering
    BY <2>1 DEF Answering
  <2> QED  BY <1>0, <2>1, <2>2, <2>3
<1>5. CASE MemorySave
  BY <1>0, <1>5 DEF MemorySave, turnVars
<1>6. CASE TurnLost
  BY <1>0, <1>6 DEF TurnLost, turnVars
<1>7. CASE ContextLost
  BY <1>0, <1>7 DEF ContextLost, turnVars, Queued
<1>8. ASSUME NEW c \in BankCards, OtherBlocks(c)
      PROVE  IntentsAccountedFor'
  BY <1>0, <1>8 DEF OtherBlocks, turnVars, Queued
<1>9. CASE UNCHANGED vars
  BY <1>0, <1>9 DEF vars, turnVars, Queued
<1> QED
  BY <1>1, <1>2, <1>3, <1>4, <1>5, <1>6, <1>7, <1>8, <1>9 DEF Next

\* A question is about a message that speaks of blocking a card, and it stays
\* about that message however often it is asked again.
LEMMA ExplainedStep ==
  ASSUME TurnAccounted, [Next]_vars
  PROVE  QuestionsExplained'
<1> USE DEF QuestionsExplained, SpeaksOfBlocking
<1>0. CardTypeOK /\ MessageGiven /\ QuestionsExplained /\ IntentsAccountedFor
  BY DEF TurnAccounted
<1>1. ASSUME NEW message \in Messages, MemoryLoad(message)
      PROVE  QuestionsExplained'
  BY <1>0, <1>1 DEF MemoryLoad, FreshTurn, EmptyContext
<1>2. CASE NerAgent
  BY <1>0, <1>2 DEF NerAgent
<1>3. CASE IntentAgent
  <2>1. UNCHANGED << store, carried_pending_request, pending_entity_request >>
    BY <1>0, <1>3, IntentAgentStep DEF IntentAgent, MessageGiven
  <2> QED  BY <1>0, <2>1
<1>4. CASE Worker
  <2>1. /\ step = "worker" /\ Head(intents) \in Queued
        /\ UNCHANGED << store, carried_pending_request >>
    BY <1>0, <1>4, WorkerStep
  <2>2. CASE AskForCard
    <3>1. /\ pending_entity_request'.original_message = user_query
          /\ card = NoCard /\ Head(intents) = "CARD_ACTION"
      BY <2>2 DEF AskForCard, Serving
    <3> QED  BY <1>0, <2>1, <3>1 DEF IntentsAccountedFor
  <2>3. CASE CallBlockCard
    BY <1>0, <2>1, <2>3 DEF CallBlockCard
  <2>4. CASE EscalateAgent
    BY <1>0, <2>1, <2>4 DEF EscalateAgent
  <2>5. CASE OtherWorker
    BY <1>0, <2>1, <2>5 DEF OtherWorker
  <2> QED  BY <1>4, <2>2, <2>3, <2>4, <2>5 DEF Worker
<1>5. CASE MemorySave
  BY <1>0, <1>5 DEF MemorySave, turnVars
<1>6. CASE TurnLost
  BY <1>0, <1>6 DEF TurnLost, turnVars
<1>7. CASE ContextLost
  BY <1>0, <1>7 DEF ContextLost, turnVars, EmptyContext
<1>8. ASSUME NEW c \in BankCards, OtherBlocks(c)
      PROVE  QuestionsExplained'
  BY <1>0, <1>8 DEF OtherBlocks, turnVars
<1>9. CASE UNCHANGED vars
  BY <1>0, <1>9 DEF vars, turnVars
<1> QED
  BY <1>1, <1>2, <1>3, <1>4, <1>5, <1>6, <1>7, <1>8, <1>9 DEF Next

LEMMA CardInvInit == Init => CardInv
<1> SUFFICES ASSUME Init PROVE CardInv
  OBVIOUS
<1>1. CardTypeOK
  BY NothingKept DEF Init, CardTypeOK, EmptyContext, Step, Source
<1>2. QuestionsUnnamed
  BY NothingKept DEF Init, EmptyContext, QuestionsUnnamed, PendingExcludesRecall, Asked
<1>3. CardAccountedFor /\ MessageGiven
  BY DEF Init, CardAccountedFor, MessageGiven
<1>4. IntentsAccountedFor /\ QuestionsExplained
  BY DEF Init, IntentsAccountedFor, QuestionsExplained, SpeaksOfBlocking, Asked, Answering,
         None, EmptyContext
<1> QED  BY <1>1, <1>2, <1>3, <1>4 DEF CardInv, TurnAccounted

-----------------------------------------------------------------------------
\* The theorems.

\* Every field keeps its type, and the history its limit, whatever fails.
THEOREM CardTypeCorrect == Spec => []CardTypeOK
<1>1. Init => CardTypeOK /\ MessageGiven
  BY CardInvInit DEF CardInv, TurnAccounted
<1>2. CardTypeOK /\ MessageGiven /\ [Next]_vars => (CardTypeOK /\ MessageGiven)'
  BY CardTypeStep
<1> QED  BY <1>1, <1>2, PTL DEF Spec

\* Whatever fails, a turn serves and blocks what its message and the memory it
\* read amount to, and every question is about a request to block a card.
THEOREM TurnsAccountedFor == Spec => []TurnAccounted
<1>1. Init => TurnAccounted
  BY CardInvInit DEF CardInv
<1>2. TurnAccounted /\ [Next]_vars => TurnAccounted'
  BY CardTypeStep, CardStep, IntentsStep, ExplainedStep DEF TurnAccounted
<1> QED  BY <1>1, <1>2, PTL DEF Spec

\* The reason recorded for an answered question asks for the block.
THEOREM ReasonsExplain == Spec => []ReasonExplains
<1>1. TurnAccounted => ReasonExplains
  BY DEF TurnAccounted, CardAccountedFor, QuestionsExplained, SpeaksOfBlocking, Asked,
         ReasonExplains
<1> QED  BY <1>1, TurnsAccountedFor, PTL

\* Four digits block the card they are, a yes the card that was proposed, in
\* every turn that remembers no card.
LEMMA AnswerTaken ==
  ASSUME TurnAccounted, Asked => Unnamed(history)
  PROVE  AnswerIsTaken
<1>1. SUFFICES ASSUME step = "memory_save", Asked, Answering
               PROVE  /\ user_query.digits # NoCard => called = user_query.digits
                      /\ user_query.affirms
                           /\ carried_pending_request.proposed_value # NoCard =>
                           /\ called = carried_pending_request.proposed_value
                           /\ called \in OwnCards
  BY DEF AnswerIsTaken, Answering
<1>2. called = BareAnswer(user_query, carried_pending_request)
  BY <1>1, AnswerFound DEF TurnAccounted, IntentsAccountedFor
<1>3. user_query \in UserMessage /\ carried_pending_request \in CardQuestion
  BY <1>1 DEF TurnAccounted, CardTypeOK, MessageGiven, Asked
<1> QED  BY <1>2, <1>3 DEF BareAnswer, UserMessage, CardQuestion

\* Cancelling a question blocks no card the message does not name, in every
\* turn that remembers no card.
LEMMA CancelledStays ==
  ASSUME TurnAccounted, Asked => Unnamed(history)
  PROVE  CancelledCardStays
<1>1. SUFFICES ASSUME source \in {"cancelled", "continued"}, called # NoCard
               PROVE  called = user_query.named
  BY DEF CancelledCardStays
<1>2. /\ Asked /\ ~user_query.affirms /\ user_query.digits = NoCard
      /\ called = FoundCard(user_query, history, carried_pending_request)
  BY <1>1 DEF TurnAccounted, IntentsAccountedFor, CardAccountedFor
<1>3. RecalledCard(history) = NoCard
  BY <1>2, RecalledNamed DEF TurnAccounted, CardTypeOK, NamedCards
<1> QED  BY <1>1, <1>2, <1>3 DEF FoundCard, BareAnswer

\* Whatever fails, an answer is misread and a cancellation disregarded only in a
\* turn whose history names a card although a question is open.
THEOREM OnlyRecallMisleads ==
  Spec => []((Asked => Unnamed(history)) => AnswerIsTaken /\ CancelledCardStays)
<1>1. TurnAccounted => ((Asked => Unnamed(history)) => AnswerIsTaken /\ CancelledCardStays)
  BY AnswerTaken, CancelledStays
<1> QED  BY <1>1, TurnsAccountedFor, PTL

\* Such a turn there is only after a failed read (see the run
\* AnswerTakenAfterFailedRead): the inductive invariant when none fails.
THEOREM CardInvariant ==
  ASSUME "load" \notin Faults
  PROVE  Spec => []CardInv
<1>1. Init => CardInv
  BY CardInvInit
<1>2. CardInv /\ [Next]_vars => CardInv'
  BY CardTypeStep, QuestionsStep, CardStep, IntentsStep, ExplainedStep
  DEF CardInv, TurnAccounted
<1> QED  BY <1>1, <1>2, PTL DEF Spec

\* An open question and a remembered card exclude each other.
THEOREM QuestionsExcludeRecall ==
  ASSUME "load" \notin Faults
  PROVE  Spec => []PendingExcludesRecall
<1>1. CardInv => PendingExcludesRecall
  BY DEF CardInv, QuestionsUnnamed
<1> QED  BY <1>1, CardInvariant, PTL

\* Every answer is taken as one.
THEOREM AnswersAreTaken ==
  ASSUME "load" \notin Faults
  PROVE  Spec => []AnswerIsTaken
<1>1. CardInv => AnswerIsTaken
  BY AnswerTaken DEF CardInv, QuestionsUnnamed
<1> QED  BY <1>1, CardInvariant, PTL

\* Cancelling a question blocks no card the message does not name.
THEOREM CancellingBlocksNothing ==
  ASSUME "load" \notin Faults
  PROVE  Spec => []CancelledCardStays
<1>1. CardInv => CancelledCardStays
  BY CancelledStays DEF CardInv, QuestionsUnnamed
<1> QED  BY <1>1, CardInvariant, PTL
=============================================================================
