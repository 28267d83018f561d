# A verification project for the multi-agent banking assistant

The program is a chat assistant for a bank. A FastAPI endpoint (`/chat`) hands
each message to a LangGraph state machine; its nodes read the conversation's
memory, extract entities, classify the intent, let one worker per intent answer,
pass the answer through a guardrail and save the turn. This directory holds TLA+
modules that model that machine, TLC configurations that check them on small
instances, and proofs, checked by TLAPS, of the properties that matter most.

Paths below are relative to the repository (`src/agents/...` is the Python
package `agents`); `PROJECT.json` maps every definition to its lines.

## 1. Inventory

| Component | State it keeps | Operations | Talks to |
|---|---|---|---|
| Chat endpoint (`app/api/routes/chat.py`, `app/main.py`) | none per turn; a rate-limit window per process | `chat`: fresh `GraphState`, one graph run, one response; error handlers | graph |
| Turn graph (`agents/graph.py`, `state.py`, `supervisor.py`) | `GraphState` of the running turn: intent, queue of further intents, drafts, pass flags, iteration count | route, advance to the next intent, synthesize | every node below |
| Conversation memory (`agents/memory.py`, `workers/memory_agent.py`) | per conversation: last messages, slot request, hand-off stage; in a process (`InMemoryMemory`) or in Redis with a TTL | `load`, `save_turn` (read, change, write) | graph; other requests and replicas of the same conversation |
| NER agent (`workers/ner_agent.py`, `nlp/ner_extractor.py`) | none | extract, recall identity entities from history, turn a bare answer into an entity | memory's context |
| Intent agent (`workers/intent_agent.py`, `nlp/intent_classifier.py`) | none | cancel, fill the open slot, classify, continue the previous topic, clean the queue | supervisor |
| Tool agent (`workers/tool_agent.py`) | records and hops of the running pass | deterministic tool call, slot request, planned tool calls with grounding | tool client, LLM |
| Tool clients (`agents/tools/mcp_client.py`) and MCP server (`mcp_server/server.py`) | none | one call each way, exceptions turned into an unavailable service | banking repository, in the process or over HTTP |
| Banking repository (`mcp_server/tools/banking_repository.py`) | accounts and cards; with Postgres a pool of connections, its lock | balance, transactions, cards, block a card, open a ticket | Postgres or memory |
| Escalate agent (`workers/escalate_agent.py`) | the stage of the scripted hand-off (kept by memory) | greet, verify, take the issue, close, cancel; repeat an unanswered slot question | supervisor, memory |
| Guardrail (`workers/guardrail_agent.py`) | none | replace or mask the draft, flag it | last before save |
| RAG and small talk (`workers/rag_agent.py`, `rag/`, `workers/smalltalk_agent.py`) | a vector store built at start | retrieve, rerank, answer | LLM |
| LLM access (`app/core/llm.py`) | none | call with a fallback to `None` | provider |
| Frontend chat panel (`frontend/src/components/ChatPanel.tsx`) | messages, conversation id, a loading flag | send, receive, fail | `/chat` |
| Evaluation and regression gate (`evaluation/`) | `eval_baseline.json` | measure, compare with the baseline, replace it | classifier, retriever |
| Tracing, logging, configuration, prompts, seeds, deployment files | - | - | - |

What is hard about it: everything between two turns passes through one stored
record that is read at the start of a turn and overwritten at its end, by turns
that may run concurrently, in different processes, against a store that is
allowed to fail silently; inside a turn, several intents share the same few
fields (`draft_answer`, the pass flags, `pending_entity_request`), and the
router's order of tests decides which of them survives. Around the turn, a
model plans calls that block real cards, over connections that may break after
the effect and before the answer; and the first calls after a start meet at the
lock of a pool nobody has opened.

What makes each part correct, in a sentence:

- **Turn graph.** Every intent of a message is served once and no answer is lost
  on the way to the reply; the loop ends; a limit that cuts a message short is
  reported (it is not, section 7).
- **Hand-off script.** Stages are taken in order, a stage owns the turns while
  it is open, a question answered in between leaves it alone.
- **Slot filling.** A question asked is remembered, its answer completes it and
  nothing else, a cancelled one has no effect, and the recorded reason is the
  request that started it.
- **Memory.** Whatever interleaves or fails, the stored history is a sequence of
  whole exchanges and the slot request stored with it is its last answer's.
- **Classifier.** Evidence decides and a tie never acts.
- **Panel.** One request at a time, each of which ends, and a memory that has
  the order the user sees.
- **Planned tools.** Every effect has its record, no call acts on an identifier
  the conversation does not hold, and the loop ends.
- **Banking repository.** A call is carried out once at most and tells the truth
  about the instant it was, or says it does not know; one pool; no call is
  forgotten at the lock.
- **Regression gate.** A gated run never makes the baseline worse than the
  tolerance allows, and a failed one leaves it alone.

## 2. Modules and plan

| Module | Models | Builds on |
|---|---|---|
| `IntentLabels` | the intents, the queue of further intents and its filter, slot requests, stages | - |
| `EscalationScript` | abstract: what the hand-off promises | `IntentLabels` |
| `TurnGraph` | the compiled graph: one action per node, turn after turn of one conversation | `IntentLabels`; implements `EscalationScript` |
| `TurnInvariant`, `TurnGraph_proofs` | inductive invariant of `TurnGraph`; proofs | `TurnGraph` |
| `Transcript` | abstract: what a conversation's memory promises | - |
| `ConversationMemory` | both memory backends, concurrent turns, faults | implements `Transcript` |
| `ChatPanel`, `ChatPanel_proofs` | the browser's panel in front of the memory; proofs of both | composes with `ConversationMemory` |
| `IntentRules` | the rule-based classifier as operators | `IntentLabels` |
| `IntentClassification` | one message classified and its queue filtered | `IntentRules` |
| `CardFlow` | from the words of messages to `block_card`: recall, classification, question, answer, cancellation, call | `IntentRules` |
| `IntentRules_proofs`, `IntentClassification_proofs`, `CardFlow_proofs` | lemmas about the operators; proofs of both specifications | |
| `BankingTools` | the bank's tools as operators: what each answers and does, over either store | - |
| `Bank` | abstract: what a caller of the bank may rely on | `BankingTools` |
| `BankingRepository`, `BankingRepository_proofs` | concurrent calls, the pool and its lock, connections that break, restarts; proofs | `BankingTools`; implements `Bank` |
| `PlannedTools`, `PlannedTools_proofs` | a pass of `tool_agent` in which a model plans the calls; proofs | `BankingTools` |
| `PlannedPass` | that pass inside a turn: a refinement mapping from it to the step `TurnGraph` has | `PlannedTools`, `TurnGraph` |
| `EvaluationGate`, `EvaluationGate_proofs` | runs of `python -m evaluation` and the baseline between them; proofs | - |
| `MC*` | instances for TLC | |

They were written in that order, the graph first because everything else is
reached through it. What would come next:

1. **`CardFlow`'s turns as turns of `TurnGraph`**: the two share the labels and
   the order of the branches, but no refinement mapping connects them.
2. **Identifiers other than cards** in `CardFlow` (IBANs, account types).
3. **Rate limiter and replicas** (`app/core/rate_limit.py`, `k8s/`): a window
   per process, so the limit grows with the number of replicas.
4. **RAG**: the mixing of the two scores in `rerank_with_bm25` as an operator.

## 3. How the models correspond to the code

**`TurnGraph`.** `node` is the LangGraph node that runs next. Each action is one
node, and its primed variables are the partial update the handler returns;
LangGraph merges it into the state, which is the `UNCHANGED` part.
`Supervisor` is the conditional edge: `Route` holds the router's tests in their
order. `stored` is the part of the conversation's context that steers a later
turn. A draft is the sequence of the intents it speaks to; so a lost, repeated
or reordered answer is visible, its wording is not. With an LLM the synthesizer's
reply is whatever the model makes of the drafts: `Synthesizer` then also allows
`Merged`, a text of which nothing is known, and the properties say of it only
that it was made from all the drafts. What a message contains (entities, a
cancellation, what the classifier says of it) is any value. `TurnLost` is an
exception or the death of the process, `RecursionError` LangGraph's own bound,
`ContextLost` the expiry or loss of the context.

**`ConversationMemory`.** `store` holds a context for each place: one per replica
for `InMemoryMemory`, one for Redis. `SaveInMemory` is one step because that
`save_turn` awaits nothing that yields; `SaveRead` and `SaveWrite` are two
because `RedisMemory.save_turn` awaits between them. A failed read yields an
empty context, a failed write nothing (both only logged): such a turn is answered
all the same, and ends as "unsaved". A turn's slot request
and stage are represented by the turn that wrote them (`carry`).

**`ChatPanel`.** `Send`, `ShowAnswer` and `ShowError` are the three parts of
`handleSend`; the guard of `HandleSend` is its `isSending` test. The panel's
steps interleave with those of `ConversationMemory`, whose turns it starts.

**`IntentRules`.** A text is what the rules look at: per label the number of
keywords found, the labels with a phrase of several words, and the tone.
`RuleBasedExtraIntents` is Python's stable sort, given as the permutation it
produces.

**`CardFlow`.** The deployment without an LLM provider, where intents and
entities follow from the text. A message has one of the shapes the code tells
apart: it cancels or not, names a card, is four digits, affirms, is a
follow-up. `NerAgent` looks for a card in the message, then in the history,
then reads a bare answer; `IntentAgent` has `intent_node`'s branches;
`AskForCard` and `CallBlockCard` are the two ends of `_deterministic_tool_call`;
`OtherBlocks` is any other user of the same cards. The workers without effect
on cards are one action. Left out: IBANs and account types, the hand-off
(messages classified ESCALATE), complaints, messages naming two cards, the
iteration limit (one card call per message; the default is 6), and a keyword
inside a cancelling phrase itself. Turns of the conversation follow one
another; overlapping turns are `ConversationMemory`'s subject.

**`BankingTools`, `Bank`.** An answer is the envelope callers branch on: `ok`,
`error`, the rows. `InMemoryAnswer` and `PostgresAnswer` are the methods of the
two repositories; they differ for the cards of an unknown account and for a
negative limit. `Bank` promises: carried out at most once, at one instant
between start and answer (`CarryOut`), or no answer to be had (`GiveUp`).

**`BankingRepository`.** The methods share one event loop, so an action is what
happens between two awaits; `pc` is where a call is. `UsePool`, `TakeLock`,
`QueueAtLock`, `LockGranted`, `PoolCreated` and `PoolFailed` are `_get_pool`
with asyncio's FIFO lock. `SendQuery`, `AccountFound`, `Execute` and `Return` are a
statement on a connection: the database executes it at an instant of its own,
and `QueryFails` may come before or after that. A statement whose connection
broke may still be executed later; that is `OtherBlocks`, which also stands for
other processes. Without a database a call is one step (`AnswerAtOnce`).

**`PlannedTools`.** `NerAgent` and then the loop of `_reason_over_tools`: the model
fails, concludes or proposes; each proposal is unknown, invalid, refused by
`_validate_tool_args` (`Grounded`) or made. A call through a client is one step
with the outcomes `Bank` allows (`Outcomes`), its record with the `ok` and `error`
of the tool's own answer: `mcp_client.py` would take an answer that arrives as text
for a success, but the server returns structured results and the in-process
client dicts. A message is the identifiers it
holds and those the patterns match; `NerInvents` says whether the NER model may
report others. The pass starts from any message, history and cards.

**`PlannedPass`.** `Turn` maps a pass to the variables of `TurnGraph`: while it
runs the turn is at `tool_agent` and unchanged, when it is done the turn has
what `_reasoning_tool_call` returns (draft, number of records added to
`iteration_count`, `tool_agent_done`), and a pass that raises is a lost turn.
`turn` is the state of the turn it began in, any that has come to `tool_agent`.

**`EvaluationGate`.** A step is a whole run of the command; what the system
answers and how long it takes is open. Accuracies are compared by
cross-multiplication where the code compares floats: exactly at the edge of the
tolerance the two may differ (0.6 < 0.65 - 0.05 is true of floats). `P95Index` is
Python's rounding of halves to even.
`Ordered(samples, index)` is `sorted(samples)[index]`, said without sorting: the
least time that more than `index` samples do not exceed.

## 4. What the runs check

| Run | Question | Instance |
|---|---|---|
| `TurnGraph` | routing, hand-off, slot filling, compound messages, refinement of `EscalationScript`, inductive invariant, every turn answered | iteration limit 2; every list of up to two further labels and one longer list with repetitions; four deployments: with an LLM, without one, without a session account, and with a recursion limit of 12, below the 17 steps a turn may need; 2.3 million states |
| `IntentClassification` | ties, corroboration, the cut of the queue | every count of 0..2 keywords for each label (0..1 for small talk), every phrase of a label that acts, all tones and entity types |
| `Panel` | histories, slot requests, refinement of `Transcript`; one use of a context, order, inductive invariant, unlocking | three turns, two replicas, both backends, limit 3, every fault; 2.1 million states |
| `CardFlow` | which card is blocked, and why | two own cards and a number of nobody's; 17 messages, at least one of every kind; a history of three user messages; every fault but a failed read by `memory_load` |
| `Repository` | who holds the lock and who waits (inductive invariant, one pool in it), truthful answers (refinement of `Bank`), answers that stay true and listings that fit their limit, every call ends | three calls, a pool of one connection, both stores, two cards, an account with two rows and limits of -1, 1 and 10, restarts and failures anywhere |
| `PlannedTools` | records account for effects, grounding, the loop ends, the pass is one step of `TurnGraph` | two hops of two calls, six proposals, three messages, two histories, every status of two cards; 1.6 million states |
| `EvaluationGate` | the baseline under the gate, the quantiles | case sets of 1 to 31 cases in rising and falling order of time, sets of 22 at both edges of the tolerances, a corpus with crashes and one with nothing scored; 23,545 states |
| `IterationLimitReported`, `EvidenceInMessage`, `AnswerTakenAfterFailedRead`, `GroundedInConversation`, `RawOutcomeNeverShown` | disagreements with the documents and comments, section 7 | |

**Why the bounds are enough.** Two is the length the queue is cut to, so every
queue that can be served is in `TurnGraph`; longer raw lists only exercise the
filter, proved for every length. The iteration limit matters as reached or not
reached: with 2 it is reached before, at and after the end of a queue. In the
memory, three turns are enough for a save to overtake another between two that
are kept, and limit 3 is odd and shorter than two exchanges, so the cut goes
through one. The panel does not hide overlapping turns: a request it gives up
because the connection broke runs on, or arrives late, beside the next one. In `CardFlow`
three kept messages (the default limit of 6) let a card be named, drop out of
the history and be asked for again. The theorems remove all these bounds.
In the
repository, three calls and one connection are what it takes for one call to
hold the lock, one to wait for it and one to arrive, and later for one to wait
for the connection. In `PlannedTools` the second of two calls and the second of
two hops are the ones that can go wrong: a cut proposal, a call after a failed
one, a provider that fails after an effect. In `EvaluationGate` 22 cases are the
fewest at which one miss is tolerated and two are not.
`TurnGraph`, `CardFlow` and their counters need no state constraint: a turn is
bounded and everything else is overwritten by the next.

**Deadlock** is checked where something can always follow (`TurnGraph`,
`CardFlow`, `Repository`, whose process may always restart, `EvaluationGate`).
It is off where an instance has a fixed number of turns (`Panel`), is a
single classification (`IntentClassification`) or a single pass
(`PlannedTools`): there the end is the end.

**Left out of two runs on purpose.** `CardFlow` has no failed read at the start
of a turn: with it `AnswerIsTaken` is false, which is what
`AnswerTakenAfterFailedRead` shows. `PlannedTools` has a NER model that reports
only what a message holds; what happens otherwise is `GroundedInConversation`.

## 5. Fairness

`FairSpec` of `TurnGraph` has weak fairness of `GraphStep`, the graph's steps as
a whole: `chat` awaits one `ainvoke` that keeps executing the run it started.
Requests, faults and losses are never owed. `TurnAnswered` therefore says that
the worker loop itself ends; it is stated of the deployments whose recursion
limit the longest turn fits in; elsewhere LangGraph gives such a turn up.

`FairPanelSpec` has weak fairness of a sent request's arrival, of the turn it
starts (a step of it, which may be its failure), and of the browser settling
the promise it awaits once the turn has ended. The user owes nothing, and no
connection has to break. A request whose process is restarted counts as ended
with an error, as the broken connection makes it one.

`FairSpec` of `BankingRepository` has weak fairness of each call's own steps: the
event loop resumes a call that can go on, and the database answers or the
connection breaks. The code sets no timeout of its own, so that the latter
happens is an assumption about asyncpg and the network (a hazard with a note).
Weak fairness is enough although the calls compete: the queue at the lock is
served in order, and a call that waits for a connection may also fail to get one
(`QueryFails`), so that it is never blocked for good. What the property is about
is the lock: a failed `create_pool` that kept it would stop every later call.
Restarts are never owed; they end a call too.

`FairSpec` of `PlannedTools` has weak fairness of the pass: the model's client has
a timeout and a bounded number of retries (`llm.py`), and what a client raises
is caught. `PassEnds` is not about whether the model answers but about its
answers: no sequence of them keeps the loop going.

## 6. Proofs

The proof modules are checked by TLAPS to the last leaf; the constants range
over everything the assumptions allow:

- `LimitsAssumption`, `InputsAssumption` (`TurnGraph`): positive limits, lists of
  labels; nothing about their size.
- `MemoryAssumption`: a positive history limit (`config.py` has `ge=1`), names
  that do not clash. Turns and replicas may be infinite sets.
- `TextsAssumption`: texts are `Text`s, with any number of keywords.
- `CardAssumption`: the customer's cards are the bank's, messages are
  `UserMessage`s, any number of kept messages, any set of faults.
- `ToolsAssumption`, `RepositoryAssumption`: cards and accounts are told apart
  from each other and from identifiers nobody has; some call; a positive pool.
- `PlannedAssumption`: messages and histories of them, requests as proposals,
  positive limits of hops and of calls in a hop.
- `TurnAssumption` (`PlannedPass`): the turn a pass begins in has a model and is
  within its recursion limit, as is every turn whose next node is `tool_agent`.
- `EvaluationAssumption`: case sets are lists of cases, of any number and outcome.

**Turn graph.** None of the safety properties is inductive: what `guardrail` may
say depends on what the router knew three nodes earlier. `TurnInvariant` states
what holds at each node: `FreshTurn` (nothing of an earlier turn is left),
`Routed` (what the router's choice implies), `Unchained`, `ThreadsApart` (a slot
request and an open stage exclude each other throughout a turn),
`LimitMeansDone`, `StageFollows`, `StepBound` (four nodes per queued intent),
`DraftsKept` and what the queue and the answers have in common. `IInv` is their
conjunction; `InvariantHolds` has one step per action. The other safety
properties of the run follow from it, as does `ScriptImplemented`, the refinement of
`EscalationScript`. `NoRecursionError` shows that with a bound of at least 17
(LangGraph's default is 25, and the code sets none) no turn is given up.

**Memory.** `MemoryInv` adds to the type: a kept transcript is one of `past`, a
draft extends one of them, and all of `past` is well formed and made of saved
turns. The last is why no turn is in a history twice: the turn being added is
not saved yet. The proof rests on lemmas about cutting and extending sequences.
`PanelRunsMemory` carries the results over: every behaviour of the panel is one
of the memory, so it implements `Transcript` too.

**Panel.** `ContextUsedOnce` and `MemoryInPanelOrder` are proved together, from
`PanelInv`, which adds five facts to `MemoryInv`. `OneAtATime`: a turn that has not
ended and was not given up is the one the panel waits for. `PanelShows`: each
question is shown once, the awaited one last. `CarriesAtHome`: a context is found
where its writer was served. `CarriesUsedUp`: a recorded turn has replaced the
context it found. `CarriesApart`: so two turns that found the same one are not
both recorded, unless one was given up. The order follows because what a turn is
saved onto is made of saved turns, whose questions are all above its own.
`ServerBegins`, `ServerRecords` and `QuietServer` are the three kinds of server
step, `PanelStepKeeps` the rest. No fault is excluded: a turn whose write was
lost is answered but not recorded, and it is of recorded turns that both
properties speak.

**Classifier.** `IntentRules_proofs` shows that the sort lists exactly the
candidates, by falling score, that the tie-break yields a best label,
and that the filter of the queue keeps at most two distinct chainable labels,
and drops none for a later one. The four theorems hold for every text.

**Card flow.** The invariant has two parts. `TurnAccounted` holds whatever fails:
`CardAccountedFor` and `IntentsAccountedFor` say that what a turn found and
serves is what its message and the memory it read amount to,
`QuestionsExplained` that every question speaks of blocking. `ReasonExplains`
follows from it. `QuestionsUnnamed` says that a
question is open only in a conversation whose memory names no card: a question is
only asked by a turn that found none, and what such a turn's save keeps can only
have been shortened since. That needs the reads to succeed, so `CardInvariant`,
`QuestionsExcludeRecall`, `AnswersAreTaken` and `CancellingBlocksNothing` assume
`"load" \notin Faults`; without that they are false (section 7).
`OnlyRecallMisleads` says how far the harm of a failed read goes: with any fault,
in every turn for which no card is remembered while a question is open, answers
are taken and a cancelled card stays.

**Banking repository.** `RepositoryInv` says who may be where: the lock is held
by the one call that is creating the pool, nobody holds it once there is one,
the queue is made of the waiting calls, each of them once, and whoever is past
`_get_pool` has a database. `OnePool` follows, and `LockPassesOn`: whoever waits,
waits for a call that can move, which is the part of `CallsEnd` that is about the
lock and needs no fairness. `RepositoryImplementsBank` maps each action to a step
of `Bank`: executing a statement is carrying the call out, failing before or
after it is giving up, everything about the pool is a stutter. Through that
mapping `AnswersAlwaysHold` is proved of `Bank`'s few steps instead of the
repository's: a confirmed block stays, nothing is wrongly said to be missing, and
a listing shows the newest rows its limit admits (`AnswersStayTrue`; `SliceFits`
is the arithmetic of the slice, negative limits included).

**Planned tools.** `PlannedInv` relates records to cards (`EffectsInv`), to
entities and to the conversation (`GroundingInv`) and to the hops (`BudgetInv`).
`EffectsAreReported` follows for any model; `CallsAreGrounded` assumes
`~NerInvents`; `BudgetKept` bounds the records by hops times calls per hop.
`PassAlwaysShrinks` gives a pass a budget of steps (`StepsLeft`) of which each one
uses up a part, so it bounds the length of a pass where `PassEnds` says there is
one. `PassIsOneStep` is the refinement of `TurnGraph`'s step: it assumes at most
three calls in a hop, the code's `_MAX_TOOL_CALLS_PER_HOP` and the number
`TurnGraph` counts with. What is proved of `TurnGraph` so rests on nothing
unproved about the pass.

**Regression gate.** `LatencyStatsOrdered` holds for samples of any number. It
needs that `Ordered` is what it says for every index (`SlowestExists`,
`OrderedFits`, `OrderedIsSorted`), that it grows with the index, and that
`P95IndexFits` between the median's and the last. That some samples reach an
index is an induction on their number; the induction theorems of the library
being out of reach, it is made by a smallest counterexample (`LeastExists`).
`GateInv` says that baseline and report are sound results; then
`GateHolds` needs only that nothing is a regression against itself
(`NoRegressionAgainstItself`), for a baseline that is not replaced.

**Only model-checked**: the liveness properties `TurnAnswered`, `PanelUnlocks`,
`CallsEnd` and `PassEnds` (liveness under fairness is out of the prover's reach;
`TurnsAreShort`, `LockAlwaysPassesOn` and `PassAlwaysShrinks` are the parts of
them that are safety). Every other property of the passing runs is a theorem. No
`RECURSIVE` operator is used.

## 7. Findings and observations

Each finding is a run whose counterexample is the code's behaviour, against a
sentence of the repository quoted in `PROJECT.json`:

- `IterationLimitReported`: at the iteration limit the queued intents are given up
  and the reply is the ordinary draft, with no flag (`supervisor.py:157`), because
  the pass that reached the limit set `tool_agent_done` (`guardrail_agent.py:117`);
  `dto.py:145`, `docs/architecture.md` and a unit test say the limit is reported.
  With the default limit of 6 it takes six calls, two full hops of a planned pass.
  `LimitIsNeverReported` proves that the flag never appears, for any limit.
- `EvidenceInMessage`: a card recalled from the history counts as evidence like
  one in the message. After "**** 4321" every message without a keyword, such
  as "tamam" or a bare number, scores 1 for CARD_ACTION and blocks the card. After
  a number that is nobody's this is a dead end: CARD_NOT_FOUND lists the cards and
  asks "Hangisini işleme alayım?" (`tool_agent.py:54`), no slot request is stored,
  and the four digits given in answer call `block_card` with the unknown, recalled
  number again; a shortest trace of the run is of this kind.
- `AnswerTakenAfterFailedRead`: a turn whose read fails asks for a card; its save
  reads again and stores the question next to a history that names another
  card, and the answer "1234" then blocks that other card.
- `GroundedInConversation`: what the NER model reports is merged without a look
  whether the message holds it, and every entity of the turn counts as grounded;
  so `block_card` may run on a card no message ever named.
- `RawOutcomeNeverShown`: when the provider fails after a call, or the hops run
  out, the raw JSON of the last call becomes the user's answer.

Further behaviour seen while modelling, without a run of its own:

- In `awaiting_issue` a RAG_QUERY with a second intent is answered, then the
  second intent goes to `escalate`, and the collected answer is not delivered
  (`supervisor.py:150`); hence the condition in `EveryAnswerDelivered`.
- Without a session account two account intents of one message ask twice and
  store one request (`tool_agent.py:311`); hence the one in
  `QuestionRemembered`.
- After "boşver, kartımı blokla ..." with a card named, the recorded reason is
  the cancelled request's message (`tool_agent.py:328`).
- A lost write leaves the older context, with a slot request and a stage the lost
  turn had already dealt with (`memory.py:133`).
- "boşver" followed by something out of scope reaches `escalate_node`, which
  repeats and stores the cancelled request; during `awaiting_issue` a cancellation
  whose text is classified RAG_QUERY goes to `rag_agent`, and the script stays open.
- Proposals beyond the third of a hop get no ToolMessage (`tool_agent.py:504`); the
  model's closing text may be empty, after a call that blocked a card; a planned
  pass never stores a slot request. An entity the NER model reports keeps one of
  its type from being recalled.
- A result of the MCP client that is plain text counts as a success
  (`mcp_client.py:28`).
- The two stores answer differently about the cards of an unknown account and
  about a negative limit (`PostgresAnswer`); `Bank` allows both.
- Runs with `--gate --save` may let the baseline slip by the tolerance each time:
  `GatedBaselineHolds` is about one run. `--no-retrieval --save` drops the
  retrieval metric from the baseline. A crash is left out of the denominator, so
  it can raise an accuracy (`real_utterances.py`).
- Sampling of traces hashes the conversation with Python's salted `hash`, so
  processes of one deployment decide differently (`tracing.py:120`).

## 8. Not modelled

- **The rate limiter**: section 2. It is one decorator of a library.
- **What a text means**: keyword lists, regular expressions, Turkish folding,
  amounts and dates, `split_cancellation`'s slicing. They are character matching,
  tested as such; the models take every outcome.
- **RAG**, reranking, embeddings: similarity over a fixed index, a question of
  evaluation.
- **What a model says**: every outcome of a call is taken, the choice of the
  provider and the texts of the fake model are left out.
- **Tracing and logging**: nothing reads them back. **Prompts, evaluation cases,
  seeds, schema, deployment files**: data.
- **Rendering** of the evaluation's report and of the chat panel.
