------------------------- MODULE PlannedTools_proofs -------------------------
(***************************************************************************)
(* Proofs about PlannedTools, for any number of hops and calls and for     *)
(* every way the model may behave; and that TurnGraph may take the whole   *)
(* pass for one step.                                                      *)
(***************************************************************************)
EXTENDS PlannedPass, SequenceTheorems, TLAPS

-----------------------------------------------------------------------------
\* Records are only added.

\* What is collected after one more record.
LEMMA Collected ==
  ASSUME NEW s \in Seq(ToolCallRecord), NEW r \in ToolCallRecord
  PROVE  /\ Append(s, r) \in Seq(ToolCallRecord)
         /\ Len(Append(s, r)) = Len(s) + 1 /\ Len(s) \in Nat
         /\ {Append(s, r)[i] : i \in DOMAIN Append(s, r)} = {s[i] : i \in DOMAIN s} \union {r}
<1>1. /\ Append(s, r) \in Seq(ToolCallRecord) /\ Len(Append(s, r)) = Len(s) + 1
      /\ \A i \in 1 .. Len(s) : Append(s, r)[i] = s[i]
      /\ Append(s, r)[Len(s) + 1] = r
      BY AppendProperties
<1>2. Len(s) \in Nat /\ DOMAIN s = 1 .. Len(s)  BY LenProperties
<1>3. DOMAIN Append(s, r) = 1 .. Len(s) + 1  BY <1>1, <1>2, LenProperties
<1> QED  BY <1>1, <1>2, <1>3

\* A proposal looked at becomes one record at most.
LEMMA Spent == \A a, b \in Nat : b > 0 => (a + 1) + (b - 1) = a + b
OBVIOUS

\* No records, before the first call.
LEMMA NoRecords == collected = << >> => Records = {} /\ Len(collected) = 0
BY EmptySeq DEF Records

-----------------------------------------------------------------------------
\* The answers of the bank.

\* What a caller may branch on in an answer: an ok one was asked of a card there is.
Plausible(call, answer) ==
  /\ answer.ok \in BOOLEAN /\ answer.error \in ErrorCode \union {""}
  /\ answer.ok = TRUE /\ call.tool = "block_card" => call.id \in Cards

LEMMA RefusalsPlausible ==
  ASSUME NEW call
  PROVE  Plausible(call, NotFound(call)) /\ Plausible(call, Unavailable)
<1>1. Unavailable.ok = FALSE /\ Unavailable.error \in ErrorCode
      BY DEF Unavailable, Refusal, ErrorCode
<1>2. NotFound(call).ok = FALSE /\ NotFound(call).error \in ErrorCode
      BY DEF NotFound, Refusal, ErrorCode
<1> QED  BY <1>1, <1>2 DEF Plausible

LEMMA OksPlausible ==
  ASSUME NEW call, NEW d, call.tool = "block_card" => call.id \in Cards
  PROVE  Plausible(call, Ok(d))
<1>1. Ok(d).ok = TRUE /\ Ok(d).error = ""  BY DEF Ok
<1> QED  BY <1>1 DEF Plausible

LEMMA AnswersPlausible ==
  ASSUME NEW call \in Request, NEW s
  PROVE  Plausible(call, InMemoryAnswer(call, s)) /\ Plausible(call, PostgresAnswer(call, s))
<1>1. Known(call) /\ call.tool = "block_card" => call.id \in Cards  BY DEF Known, AccountTool
<1>2. Plausible(call, InMemoryAnswer(call, s))
      BY <1>1, RefusalsPlausible, OksPlausible DEF InMemoryAnswer
<1>3. \/ PostgresAnswer(call, s) \in {InMemoryAnswer(call, s), Unavailable}
      \/ call.tool = "list_cards" /\ PostgresAnswer(call, s) = Ok({})
      BY Zenon DEF PostgresAnswer
<1>4. Plausible(call, PostgresAnswer(call, s))
      BY <1>2, <1>3, RefusalsPlausible, OksPlausible
<1> QED  BY <1>2, <1>4

\* An outcome of a call: its cards, and what the record keeps of its answer.
LEMMA OutcomeTyped ==
  ASSUME NEW call \in Request, status \in CardStatus, NEW outcome \in Outcomes(call)
  PROVE  /\ outcome.cards \in CardStatus /\ outcome.cards \in {status, Effect(call, status)}
         /\ outcome.answer.ok = TRUE => outcome.cards = Effect(call, status)
         /\ Plausible(call, outcome.answer)
<1>1. Effect(call, status) \in CardStatus  BY DEF Effect, CardStatus, Status
<1>2. CASE \E a \in {InMemoryAnswer(call, status), PostgresAnswer(call, status)} :
              outcome = [answer |-> a, cards |-> Effect(call, status)]
      BY <1>1, <1>2, AnswersPlausible
<1>3. CASE \E s \in {status, Effect(call, status)} :
              outcome = [answer |-> Unavailable, cards |-> s]
  <2>1. Unavailable.ok = FALSE  BY DEF Unavailable, Refusal
  <2> QED  BY <1>1, <1>3, <2>1, RefusalsPlausible
<1> QED  BY <1>2, <1>3 DEF Outcomes

-----------------------------------------------------------------------------
\* What NER finds.

FromText(found, text) == \A e \in found : e \in Entity /\ e.value \in text.written

LEMMA MatchedFromText ==
  ASSUME NEW text \in Texts
  PROVE  FromText(Matched(text), text)
<1>1. text.matched \subseteq text.written /\ text.written \subseteq Id
      BY PlannedAssumption DEF Text
<1> QED  BY <1>1, PlannedAssumption DEF FromText, Matched, Entity

\* What is recalled was named by an earlier message.
LEMMA RecalledFromHistory ==
  ASSUME NEW messages \in Seq(Texts), NEW found, NEW type, NEW r \in Recallable(messages, found, type),
         NEW e \in r
  PROVE  e \in Entity /\ \E i \in DOMAIN messages : e.value \in messages[i].written
<1>1. PICK i \in DOMAIN messages : e \in Matched(messages[i])
      BY DEF Recallable, Latest, Naming
<1>2. messages[i] \in Texts  BY ElementOfSeq, LenProperties
<1> QED  BY <1>1, <1>2, MatchedFromText DEF FromText

\* The entities of the turn, and where they come from.
LEMMA EntitiesFound ==
  ASSUME TypeOK, NerAgent
  PROVE  /\ entities' \subseteq Entity
         /\ ~NerInvents => \A e \in entities' : e.value \in InConversation
<1>1. PICK reported \in SUBSET Reportable(user_query) :
        LET found == Matched(user_query) \union reported IN
        \E iban \in Recallable(history, found, "IBAN"),
           card \in Recallable(history, found, "CARD_LAST4") :
          entities' = found \union iban \union card
      BY DEF NerAgent
<1> DEFINE found == Matched(user_query) \union reported
<1>2. PICK iban \in Recallable(history, found, "IBAN"),
           card \in Recallable(history, found, "CARD_LAST4") :
             entities' = found \union iban \union card
      BY <1>1
<1>3. FromText(Matched(user_query), user_query)  BY MatchedFromText DEF TypeOK
<1>4. \A e \in reported : e \in Entity /\ (~NerInvents => e.value \in user_query.written)
      BY DEF Reportable
<1>5. \A e \in iban \union card :
        e \in Entity /\ \E i \in DOMAIN history : e.value \in history[i].written
      BY RecalledFromHistory DEF TypeOK
<1> QED  BY <1>2, <1>3, <1>4, <1>5 DEF FromText, InConversation

-----------------------------------------------------------------------------
\* The inductive invariant.

THEOREM PlannedInitially == Init => PlannedInv
<1> SUFFICES ASSUME Init PROVE PlannedInv  OBVIOUS
<1>1. Records = {} /\ Len(collected) = 0  BY NoRecords DEF Init
<1>2. TypeOK
  <2>1. history \in Seq(Texts)  BY PlannedAssumption DEF Init
  <2>2. collected \in Seq(ToolCallRecord)  BY EmptySeq DEF Init
  <2> QED  BY <2>1, <2>2, PlannedAssumption DEF Init, TypeOK, Draft, NoDraft
<1>3. BudgetInv  BY <1>1, PlannedAssumption DEF Init, BudgetInv
<1>4. EffectsInv  BY <1>1 DEF Init, EffectsInv, NoDraft
<1>5. GroundingInv  BY <1>1 DEF Init, GroundingInv
<1> QED  BY <1>2, <1>3, <1>4, <1>5 DEF PlannedInv

LEMMA NerStep == PlannedInv /\ NerAgent => PlannedInv'
<1> SUFFICES ASSUME PlannedInv, NerAgent PROVE PlannedInv'  OBVIOUS
<1> USE DEF PlannedInv
<1>1. /\ entities' \subseteq Entity
      /\ ~NerInvents => \A e \in entities' : e.value \in InConversation
      BY EntitiesFound
<1>2. Records = {} /\ collected = << >>  BY NoRecords DEF NerAgent, Goto, GroundingInv
<1>3. UNCHANGED << Records, InConversation >>  BY DEF NerAgent, Records, InConversation
<1>4. TypeOK'  BY <1>1 DEF NerAgent, Goto, TypeOK
<1>5. BudgetInv'  BY DEF NerAgent, Goto, BudgetInv
<1>6. EffectsInv'  BY <1>3 DEF NerAgent, Goto, EffectsInv
<1>7. GroundingInv'  BY <1>1, <1>2, <1>3 DEF NerAgent, Goto, GroundingInv
<1> QED  BY <1>4, <1>5, <1>6, <1>7

\* The steps that call nothing.
LEMMA ModelStep ==
  ASSUME PlannedInv,
         ModelFails \/ HopsExhausted \/ ModelConcludes \/ ModelProposes \/ HopEnds
           \/ InvalidArguments \/ (\E call \in Proposals : UnknownTool(call))
  PROVE  PlannedInv'
<1> USE DEF PlannedInv
<1>0. /\ MaxAgentIterations \in Nat \ {0} /\ MaxToolCallsPerHop \in Nat \ {0}
      /\ Len(collected) \in Nat
      BY PlannedAssumption, LenProperties DEF TypeOK
<1>1. UNCHANGED << status, before, user_query, history, entities, collected >>
      BY DEF ModelFails, HopsExhausted, ModelConcludes, Conclude, ModelProposes, HopEnds,
             InvalidArguments, UnknownTool
<1>2. UNCHANGED << Records, InConversation >>  BY <1>1 DEF Records, InConversation
<1>3. CASE \E draft \in {"text", "empty", Fallback} : Conclude(draft)
  <2>1. PICK draft \in {"text", "empty", Fallback} : Conclude(draft)  BY <1>3
  <2>2. draft \in Draft /\ (draft = "unsupported" => collected = << >>)  BY DEF Fallback, Draft
  <2>3. TypeOK' /\ BudgetInv'  BY <1>1, <2>1, <2>2 DEF Conclude, Goto, TypeOK, BudgetInv
  <2>4. EffectsInv'  BY <1>1, <1>2, <2>1, <2>2 DEF Conclude, Goto, EffectsInv
  <2>5. GroundingInv'  BY <1>1, <1>2, <2>1 DEF Conclude, Goto, GroundingInv
  <2> QED  BY <2>3, <2>4, <2>5
<1>4. CASE ModelProposes
  <2>1. pc = "model" /\ pc' = "call" /\ left = 0 /\ left' \in 1 .. MaxToolCallsPerHop
        /\ hop \in Nat /\ hop < MaxAgentIterations /\ UNCHANGED << hop, draft_answer >>
        BY <1>4 DEF ModelProposes, Goto, BudgetInv, TypeOK
  <2>2. TypeOK'  BY <1>0, <1>1, <2>1 DEF TypeOK
  <2>3. Len(collected) <= MaxToolCallsPerHop * hop  BY <1>0, <2>1 DEF BudgetInv
  <2>4. MaxToolCallsPerHop * (hop + 1) = MaxToolCallsPerHop * hop + MaxToolCallsPerHop
        /\ MaxToolCallsPerHop * hop \in Nat
        BY <1>0, <2>1
  <2>5. Len(collected) + left' <= MaxToolCallsPerHop * (hop + 1)
        BY <1>0, <2>1, <2>3, <2>4
  <2>6. BudgetInv'  BY <1>0, <1>1, <2>1, <2>5 DEF BudgetInv
  <2>7. EffectsInv' /\ GroundingInv'  BY <1>1, <1>2, <2>1 DEF EffectsInv, GroundingInv
  <2> QED  BY <2>2, <2>6, <2>7
<1>5. CASE HopEnds
  <2>1. pc = "call" /\ pc' = "model" /\ left = 0 /\ left' = 0 /\ hop' = hop + 1
        /\ hop \in Nat /\ hop < MaxAgentIterations /\ UNCHANGED draft_answer
        BY <1>5 DEF HopEnds, Goto, BudgetInv, TypeOK
  <2>2. TypeOK' /\ BudgetInv'  BY <1>0, <1>1, <2>1 DEF TypeOK, BudgetInv
  <2>3. EffectsInv' /\ GroundingInv'  BY <1>1, <1>2, <2>1 DEF EffectsInv, GroundingInv
  <2> QED  BY <2>2, <2>3
<1>6. CASE InvalidArguments \/ \E call \in Proposals : UnknownTool(call)
  <2>1. pc = "call" /\ pc' \in {"call", "lost"} /\ left > 0 /\ left' = left - 1
        /\ UNCHANGED << hop, draft_answer >>
        BY <1>6 DEF InvalidArguments, UnknownTool, Take
  <2>2. TypeOK'  BY <1>0, <1>1, <2>1 DEF TypeOK
  <2>3. BudgetInv'
    <3> DEFINE most == MaxToolCallsPerHop * (hop + 1)
    <3>1. hop < MaxAgentIterations /\ Len(collected) + left <= most  BY <2>1 DEF BudgetInv
    <3>2. most \in Nat /\ left \in Nat  BY <1>0 DEF TypeOK
    <3> HIDE DEF most
    <3>3. Len(collected) + left' <= most  BY <1>0, <2>1, <3>1, <3>2
    <3> USE DEF most
    <3> QED  BY <1>1, <2>1, <3>1, <3>3 DEF BudgetInv
  <2>4. EffectsInv' /\ GroundingInv'  BY <1>1, <1>2, <2>1 DEF EffectsInv, GroundingInv
  <2> QED  BY <2>2, <2>3, <2>4
<1> QED  BY <1>3, <1>4, <1>5, <1>6 DEF ModelFails, HopsExhausted, ModelConcludes

\* One more record, refused or made: the budget, the cards and the grounds.
LEMMA CallStep ==
  ASSUME PlannedInv, NEW call \in Proposals, RefuseCall(call) \/ MakeCall(call)
  PROVE  PlannedInv'
<1> USE DEF PlannedInv
<1>0. /\ MaxAgentIterations \in Nat \ {0} /\ MaxToolCallsPerHop \in Nat \ {0}
      /\ call \in Request /\ call.tool \in Tool /\ call.id \in Id
      BY PlannedAssumption DEF Request
<1>1. pc = "call" /\ left > 0 /\ left' = left - 1
      /\ UNCHANGED << before, user_query, history, entities, pc, hop, draft_answer >>
      BY DEF RefuseCall, MakeCall, Take
<1>2. /\ left \in 0 .. MaxToolCallsPerHop /\ left' \in 0 .. MaxToolCallsPerHop
      /\ left \in Nat
      BY <1>0, <1>1 DEF TypeOK
<1>3. PICK ok \in BOOLEAN, error \in ErrorCode \union {"", NotGrounded} :
        /\ collected' = Append(collected, Record(call, ok, error))
        /\ status' \in CardStatus /\ status' \in {status, Effect(call, status)}
        /\ ok = TRUE => /\ status' = Effect(call, status)
                        /\ call.tool = "block_card" => call.id \in Cards
        /\ status' # status => MakeCall(call)
        /\ error # NotGrounded => Grounded(call)
  <2>1. CASE RefuseCall(call)
        BY <2>1 DEF RefuseCall, TypeOK
  <2>2. CASE MakeCall(call)
    <3>1. PICK outcome \in Outcomes(call) :
            /\ status' = outcome.cards
            /\ collected' = Append(collected, Record(call, outcome.answer.ok, outcome.answer.error))
          BY <2>2 DEF MakeCall
    <3>2. /\ outcome.cards \in CardStatus /\ outcome.cards \in {status, Effect(call, status)}
          /\ outcome.answer.ok = TRUE => outcome.cards = Effect(call, status)
          /\ Plausible(call, outcome.answer)
          BY <1>0, OutcomeTyped DEF TypeOK
    <3>3. Grounded(call)  BY <2>2 DEF MakeCall
    <3> QED  BY <2>2, <3>1, <3>2, <3>3 DEF Plausible
  <2> QED  BY <2>1, <2>2
<1> DEFINE record == Record(call, ok, error)
<1>4. record \in ToolCallRecord  BY <1>0 DEF Record, ToolCallRecord
<1>5. /\ collected' \in Seq(ToolCallRecord) /\ Len(collected') = Len(collected) + 1
      /\ Len(collected) \in Nat /\ Records' = Records \union {record}
  <2>1. collected \in Seq(ToolCallRecord) /\ collected' = Append(collected, record)
        BY <1>3 DEF TypeOK
  <2>2. Records' = {Append(collected, record)[i] : i \in DOMAIN Append(collected, record)}
        BY <2>1 DEF Records
  <2> HIDE DEF record
  <2> QED  BY <1>4, <2>1, <2>2, Collected DEF Records
<1>6. TypeOK'  BY <1>0, <1>3, <1>5, <1>1, <1>2 DEF TypeOK
<1>7. BudgetInv'
  <2>1. Len(collected) \in Nat /\ left \in Nat /\ left > 0  BY <1>1, <1>2, <1>5
  <2>2. Len(collected') + left' = (Len(collected) + 1) + (left - 1)  BY <1>1, <1>5
  <2>3. Len(collected') + left' = Len(collected) + left  BY <2>1, <2>2, Spent
  <2> QED  BY <1>1, <2>3 DEF BudgetInv
<1>8. record.tool = call.tool /\ record.id = call.id /\ record.ok = ok /\ record.error = error
      BY DEF Record
<1> HIDE DEF record
<1>9. EffectsInv'
  <2>1. ASSUME NEW card \in Cards, status'[card] # before[card]
        PROVE  \E r \in Records' : r.tool = "block_card" /\ r.id = card
    <3>1. CASE status[card] = status'[card]  BY <1>5, <1>1, <2>1, <3>1 DEF EffectsInv
    <3>2. CASE status[card] # status'[card]
          BY <1>3, <1>5, <1>8, <3>2 DEF Effect, TypeOK, CardStatus
    <3> QED  BY <3>1, <3>2
  <2>2. ASSUME NEW card \in Cards, NEW r \in Records',
               r.tool = "block_card", r.id = card, r.ok
        PROVE  status'[card] = "blocked"
    <3>1. CASE r \in Records
          BY <1>3, <2>2, <3>1 DEF EffectsInv, Effect, TypeOK, CardStatus
    <3>2. CASE r = record
          BY <1>3, <1>8, <2>2, <3>2 DEF Effect, TypeOK, CardStatus
    <3> QED  BY <1>5, <2>2, <3>1, <3>2
  <2>3. draft_answer' # "unsupported"
    <3>1. pc = "call" => draft_answer = NoDraft  BY DEF EffectsInv
    <3> QED  BY <1>1, <3>1 DEF NoDraft
  <2> QED  BY <2>1, <2>2, <2>3, <1>1 DEF EffectsInv
<1>10. GroundingInv'
  <2>1. ActsOnId(record) /\ Made(record) => \E e \in entities : e.value = record.id
        BY <1>3, <1>8 DEF ActsOnId, Made, Grounded
  <2>2. InConversation' = InConversation  BY <1>1 DEF InConversation
  <2> QED  BY <1>5, <1>1, <2>1, <2>2 DEF GroundingInv
<1> QED  BY <1>6, <1>7, <1>9, <1>10

THEOREM PlannedInductive == PlannedInv /\ [Next]_vars => PlannedInv'
<1>1. ASSUME PlannedInv, UNCHANGED vars PROVE PlannedInv'
      BY <1>1 DEF vars, PlannedInv, TypeOK, BudgetInv, EffectsInv, GroundingInv, Records, InConversation
<1> QED  BY <1>1, NerStep, ModelStep, CallStep DEF Next

(***************************************************************************)
(* A pass adds no more records than its hops allow, its records tell what  *)
(* the calls did, and its calls act on entities that NER found.            *)
(***************************************************************************)
THEOREM PlannedInvariant == Spec => []PlannedInv
BY PlannedInitially, PlannedInductive, PTL DEF Spec

-----------------------------------------------------------------------------
\* The properties.

(***************************************************************************)
(* An answered turn's tool_calls hide no block of a card, and whoever is   *)
(* told that nothing could be done has had nothing done.                   *)
(***************************************************************************)
THEOREM EffectsAreReported == Spec => []EffectsReported
<1>1. ASSUME PlannedInv PROVE EffectsReported
  <2>1. draft_answer = "unsupported" => \A card \in Cards : status[card] = before[card]
        BY <1>1, NoRecords DEF PlannedInv, EffectsInv
  <2>2. draft_answer = "unsupported" => status = before
        BY <1>1, <2>1 DEF PlannedInv, TypeOK, CardStatus
  <2> QED  BY <1>1, <2>2 DEF EffectsReported, PlannedInv, EffectsInv
<1> QED  BY <1>1, PlannedInvariant, PTL

(***************************************************************************)
(* Where the NER model reports only what the message holds, no tool runs   *)
(* on an identifier the conversation does not have (_validate_tool_args).  *)
(***************************************************************************)
THEOREM CallsAreGrounded == ASSUME ~NerInvents PROVE Spec => []GroundedInConversation
<1>1. PlannedInv => GroundedInConversation
      BY DEF PlannedInv, GroundingInv, GroundedInConversation
<1> QED  BY <1>1, PlannedInvariant, PTL

\* Fewer hops, no more records.
LEMMA Monotone == \A m, a, b \in Nat : a <= b => m * a <= m * b
<1> TAKE m, a, b \in Nat
<1> HAVE a <= b
<1>1. b - a \in Nat /\ b = a + (b - a)  OBVIOUS
<1>2. m * b = m * a + m * (b - a)  BY <1>1
<1>3. m * (b - a) >= 0 /\ m * a \in Int /\ m * (b - a) \in Int  BY <1>1
<1> QED  BY <1>2, <1>3

\* The records of a pass, in any of its states.
LEMMA WithinBudget ==
  ASSUME PlannedInv, NEW most \in Nat, MaxToolCallsPerHop <= most
  PROVE  Len(collected) \in 0 .. (most * MaxAgentIterations)
<1>1. /\ MaxAgentIterations \in Nat \ {0} /\ MaxToolCallsPerHop \in Nat \ {0}
      /\ Len(collected) \in Nat /\ hop \in 0 .. MaxAgentIterations
      /\ left \in 0 .. MaxToolCallsPerHop
  BY PlannedAssumption, LenProperties DEF PlannedInv, TypeOK
<1> DEFINE hops == IF pc \in {"call", "lost"} THEN hop + 1 ELSE hop
<1>2. hops \in 0 .. MaxAgentIterations /\ Len(collected) + left <= MaxToolCallsPerHop * hops
  BY <1>1 DEF PlannedInv, BudgetInv
<1> HIDE DEF hops
<1>3. MaxToolCallsPerHop * hops <= MaxToolCallsPerHop * MaxAgentIterations
  BY <1>1, <1>2, Monotone
<1>4. MaxToolCallsPerHop * MaxAgentIterations <= most * MaxAgentIterations
  <2>1. MaxAgentIterations * MaxToolCallsPerHop <= MaxAgentIterations * most  BY <1>1, Monotone
  <2> QED  BY <1>1, <2>1
<1>5. /\ MaxToolCallsPerHop * hops \in Nat /\ most * MaxAgentIterations \in Nat
      /\ MaxToolCallsPerHop * MaxAgentIterations \in Nat
  BY <1>1, <1>2
<1> QED  BY <1>1, <1>2, <1>3, <1>4, <1>5

(***************************************************************************)
(* A pass adds MaxToolCallsPerHop * MaxAgentIterations records at most,    *)
(* however many calls the model proposes (_MAX_TOOL_CALLS_PER_HOP).        *)
(***************************************************************************)
THEOREM BudgetKept == Spec => [](Len(collected) <= MaxToolCallsPerHop * MaxAgentIterations)
<1>1. PlannedInv => Len(collected) <= MaxToolCallsPerHop * MaxAgentIterations
  BY WithinBudget, PlannedAssumption
<1> QED  BY <1>1, PlannedInvariant, PTL

-----------------------------------------------------------------------------
\* The end of a pass.

\* A budget of so much for each hop.
LEMMA OneHopLess ==
  ASSUME NEW hops \in Nat, NEW each \in Nat
  PROVE  /\ hops * each \in Nat
         /\ hops > 0 => (hops - 1) * each \in Nat /\ hops * each = (hops - 1) * each + each
OBVIOUS

\* A hop that begins with some of the calls it may have.
LEMMA Shrunk ==
  ASSUME NEW rest \in Nat, NEW calls \in Nat, NEW after \in 1 .. calls
  PROVE  rest + after + 2 \in Nat /\ rest + after + 2 < rest + (calls + 2) + 1
OBVIOUS

(***************************************************************************)
(* Each step of a pass uses up a part of its budget, which is a natural    *)
(* number: whatever the model answers, the pass ends within                *)
(* MaxAgentIterations * (MaxToolCallsPerHop + 2) + 2 steps                 *)
(* (_reasoning_tool_call).                                                 *)
(***************************************************************************)
THEOREM PassAlwaysShrinks == Spec => PassShrinks
<1>1. ASSUME PlannedInv, Next PROVE StepsLeft' \in Nat /\ StepsLeft' < StepsLeft
  <2> DEFINE hops == MaxAgentIterations - hop
             each == MaxToolCallsPerHop + 2
             full == hops * each
             rest == (hops - 1) * each
  <2>1. /\ hops \in Nat /\ each \in Nat /\ each = MaxToolCallsPerHop + 2
        /\ left \in 0 .. MaxToolCallsPerHop /\ MaxToolCallsPerHop \in Nat
        /\ MaxAgentIterations \in Nat /\ hop \in Nat
    BY <1>1, PlannedAssumption DEF PlannedInv, TypeOK
  <2>2. full \in Nat  BY <2>1, OneHopLess
  <2>3. hop < MaxAgentIterations => rest \in Nat /\ full = rest + (MaxToolCallsPerHop + 2)
    BY <2>1, OneHopLess
  <2>4. pc = "call" => hop < MaxAgentIterations  BY <1>1 DEF PlannedInv, BudgetInv
  <2>5. /\ pc = "ner" => StepsLeft = full + 2
        /\ pc = "model" => StepsLeft = full + 1
        /\ pc = "call" => StepsLeft = rest + left + 2
    BY DEF StepsLeft
  <2>6. hop' = hop =>
          /\ pc' = "model" => StepsLeft' = full + 1
          /\ pc' = "call" => StepsLeft' = rest + left' + 2
    BY DEF StepsLeft
  <2>7. pc' \in {"done", "lost"} => StepsLeft' = 0  BY DEF StepsLeft
  <2>8. pc' = "model" /\ hop' = hop + 1 => StepsLeft' = rest + 1
    <3>1. SUFFICES ASSUME pc' = "model", hop' = hop + 1 PROVE StepsLeft' = rest + 1
      OBVIOUS
    <3>2. MaxAgentIterations - hop' = hops - 1  BY <2>1, <3>1
    <3>3. StepsLeft' = (MaxAgentIterations - hop') * each + 1  BY <3>1 DEF StepsLeft
    <3> QED  BY <3>2, <3>3
  <2> HIDE DEF hops, each, full, rest
  <2>9. CASE NerAgent
    <3>1. pc = "ner" /\ pc' = "model" /\ hop' = hop  BY <2>9 DEF NerAgent, Goto
    <3> QED  BY <3>1, <2>2, <2>5, <2>6
  <2>10. CASE ModelFails \/ HopsExhausted \/ ModelConcludes
    <3>1. pc = "model" /\ pc' = "done"
      BY <2>10 DEF ModelFails, HopsExhausted, ModelConcludes, Conclude, Goto
    <3> QED  BY <3>1, <2>2, <2>5, <2>7
  <2>11. CASE ModelProposes
    <3>1. /\ pc = "model" /\ pc' = "call" /\ hop' = hop /\ hop < MaxAgentIterations
          /\ left' \in 1 .. MaxToolCallsPerHop
      BY <2>11 DEF ModelProposes, Goto
    <3>2. /\ StepsLeft = rest + (MaxToolCallsPerHop + 2) + 1 /\ rest \in Nat
          /\ StepsLeft' = rest + left' + 2
      BY <3>1, <2>3, <2>5, <2>6
    <3> QED  BY <3>1, <3>2, <2>1, Shrunk
  <2>12. CASE HopEnds
    <3>1. pc = "call" /\ pc' = "model" /\ hop' = hop + 1  BY <2>12 DEF HopEnds, Goto
    <3>2. StepsLeft = rest + left + 2 /\ StepsLeft' = rest + 1 /\ rest \in Nat
      BY <3>1, <2>3, <2>4, <2>5, <2>8
    <3> QED  BY <3>2, <2>1
  <2>13. CASE InvalidArguments
    <3>1. pc = "call" /\ pc' = "lost"  BY <2>13 DEF InvalidArguments, Take
    <3>2. StepsLeft = rest + left + 2 /\ StepsLeft' = 0 /\ rest \in Nat
      BY <3>1, <2>3, <2>4, <2>5, <2>7
    <3> QED  BY <3>2, <2>1
  <2>14. ASSUME NEW call \in Proposals, UnknownTool(call) \/ RefuseCall(call) \/ MakeCall(call)
         PROVE  StepsLeft' \in Nat /\ StepsLeft' < StepsLeft
    <3>1. pc = "call" /\ pc' = "call" /\ hop' = hop /\ left' = left - 1 /\ left > 0
      BY <2>14 DEF UnknownTool, RefuseCall, MakeCall, Take
    <3>2. StepsLeft = rest + left + 2 /\ StepsLeft' = rest + left' + 2 /\ rest \in Nat
      BY <3>1, <2>3, <2>4, <2>5, <2>6
    <3> QED  BY <3>1, <3>2, <2>1
  <2> QED  BY <1>1, <2>9, <2>10, <2>11, <2>12, <2>13, <2>14 DEF Next
<1>2. PlannedInv /\ [Next]_vars => [StepsLeft' \in Nat /\ StepsLeft' < StepsLeft]_vars
  BY <1>1
<1> QED  BY <1>2, PlannedInvariant, PTL DEF Spec, PassShrinks

-----------------------------------------------------------------------------
\* The pass as a step of the graph.

\* A step within the pass, of which the turn sees nothing.
LEMMA WithinPass ==
  ASSUME pc \in {"model", "call"}, pc' \in {"model", "call"}, UNCHANGED entities
  PROVE  UNCHANGED Turn!vars
BY DEF Turn!vars, Turn!memoryVars, Turn!intentVars, Turn!passVars, Turn!carryVars,
       Turn!resultVars, Turn!historyVars, Ended

\* The end of a pass, with records within the budget of TurnGraph.
LEMMA PassEndsInTurn ==
  ASSUME Conclude(draft_answer'), Len(collected) \in 0 .. (3 * MaxAgentIterations)
  PROVE  Turn!ToolAgent
<1>1. pc = "model" /\ pc' = "done" /\ collected' = collected /\ entities' = entities
  BY DEF Conclude, Goto
<1>2. Turn!Transition("tool_agent", "supervisor")
  BY <1>1, TurnAssumption DEF Turn!Transition, Ended
<1>3. Turn!ReasonOverTools
  <2>1. Ended(PassDraft, turn.draft_answer)' \in {<< turn.intent >>, << >>}
    BY <1>1 DEF Ended, PassDraft
  <2>2. Ended(turn.iteration_count + Len(collected), turn.iteration_count)'
          = Ended(turn.iteration_count + Len(collected), turn.iteration_count) + Len(collected)
    BY <1>1 DEF Ended
  <2> QED  BY <2>1, <2>2, TurnAssumption DEF Turn!ReasonOverTools, Turn!ToolCallsPerHop
<1>4. Ended(turn.answered \o PassDraft, turn.answered)'
        = Ended(turn.answered \o PassDraft, turn.answered) \o Ended(PassDraft, turn.draft_answer)'
  BY <1>1 DEF Ended
<1>5. Ended(TRUE, turn.tool_agent_done)' = TRUE  BY <1>1 DEF Ended
<1> QED  BY <1>1, <1>2, <1>3, <1>4, <1>5
  DEF Turn!ToolAgent, Turn!memoryVars, Turn!intentVars, Turn!resultVars

(***************************************************************************)
(* With no more calls in a hop than TurnGraph counts with (three, as in    *)
(* _MAX_TOOL_CALLS_PER_HOP), a planned pass is the one step TurnGraph has  *)
(* for it, or the loss of the turn, whatever model and bank do.            *)
(***************************************************************************)
THEOREM PassIsOneStep ==
  ASSUME MaxToolCallsPerHop <= Turn!ToolCallsPerHop
  PROVE  Spec => PassIsToolAgent
<1> DEFINE Seen == pc = "ner" \/ Turn!ToolAgent \/ Turn!TurnLost
<1>1. ASSUME PlannedInv, Next PROVE Seen \/ UNCHANGED Turn!vars
  <2>1. CASE NerAgent  BY <2>1 DEF NerAgent, Goto
  <2>2. CASE ModelFails \/ HopsExhausted \/ ModelConcludes
    <3>1. Conclude(draft_answer')
      BY <2>2 DEF ModelFails, HopsExhausted, ModelConcludes, Conclude
    <3>2. Len(collected) \in 0 .. (3 * MaxAgentIterations)
      BY <1>1, WithinBudget DEF Turn!ToolCallsPerHop
    <3> QED  BY <3>1, <3>2, PassEndsInTurn
  <2>3. CASE ModelProposes \/ HopEnds
    BY <2>3, WithinPass DEF ModelProposes, HopEnds, Goto
  <2>4. CASE InvalidArguments
    <3>1. pc = "call" /\ pc' = "lost" /\ entities' = entities  BY <2>4 DEF InvalidArguments, Take
    <3>2. Turn!TurnLost
      BY <3>1 DEF Turn!TurnLost, Ended, Turn!memoryVars, Turn!intentVars, Turn!passVars,
                  Turn!carryVars, Turn!resultVars
    <3> QED  BY <3>2
  <2>5. ASSUME NEW call \in Proposals, UnknownTool(call) \/ RefuseCall(call) \/ MakeCall(call)
        PROVE  UNCHANGED Turn!vars
    BY <2>5, WithinPass DEF UnknownTool, RefuseCall, MakeCall, Take
  <2> QED  BY <1>1, <2>1, <2>2, <2>3, <2>4, <2>5 DEF Next
<1>2. UNCHANGED vars => UNCHANGED Turn!vars
  BY DEF vars, Turn!vars, Turn!memoryVars, Turn!intentVars, Turn!passVars, Turn!carryVars,
         Turn!resultVars, Turn!historyVars, Ended, PassDraft
<1>3. PlannedInv /\ [Next]_vars => [Seen]_(Turn!vars)
  BY <1>1, <1>2
<1> QED  BY <1>3, PlannedInvariant, PTL DEF Spec, PassIsToolAgent
=============================================================================
