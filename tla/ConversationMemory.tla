------------------------- MODULE ConversationMemory -------------------------
(***************************************************************************)
(* The memory of one conversation and the turns that read it at their      *)
(* start and overwrite it at their end.                                    *)
(*                                                                         *)
(* Two backends.  "in_memory" is a dictionary in the process that serves   *)
(* the request: every replica has its own, a restart empties it, and a     *)
(* save awaits nothing, so no other turn runs in the middle of it.         *)
(* "redis" is shared and outlives the processes; a save is a read and a    *)
(* write with other turns in between, each of which may fail, and an       *)
(* expiry time may remove the conversation.                                *)
(*                                                                         *)
(* A turn's answer, slot request and hand-off stage are what TurnGraph     *)
(* makes of it; here they are only named by the turn that wrote them.      *)
(***************************************************************************)
EXTENDS Integers, Sequences

CONSTANTS
  Turns, NoTurn,
  Replicas,       \* the processes that serve the conversation
  Backends,       \* the backends under study, "in_memory" and "redis"
  HistoryLimit,   \* settings.conversation_history_limit
  Faults          \* what may go wrong in the instance under study

Fault == {"load",       \* the read of memory_load fails
          "save_read",  \* the read inside save_turn fails
          "save_write", \* the write fails, or its reply is lost
          "expire",     \* the conversation's time to live ends
          "turn",       \* the turn ends in an error before it saves
          "restart"}    \* a process is restarted

Redis == "redis"

ASSUME MemoryAssumption ==
  /\ Backends \subseteq {"in_memory", Redis}
  /\ HistoryLimit \in Nat \ {0}
  /\ Faults \subseteq Fault
  /\ NoTurn \notin Turns
  /\ Redis \notin Replicas

VARIABLES
  backend,   \* the one the processes were configured with
  store,     \* the context each place keeps
  phase,     \* how far each turn is
  replica,   \* the process it is sent to
  carried,   \* whose slot request and stage it found
  draft,     \* redis: the context it is about to write
  \* history, for the properties
  past       \* every transcript each place has kept

vars == << backend, store, phase, replica, carried, draft, past >>

Place == Replicas \union {Redis}
Home(r) == IF backend = Redis THEN Redis ELSE r

Promise == INSTANCE Transcript WITH
  Places <- Place, Shared <- {Redis}, Limit <- HistoryLimit,
  kept <- [p \in Place |-> store[p].turns]

Message == [role : {"user", "assistant"}, turn : Turns]

\* At most HistoryLimit messages of the conversation.
History == {turns \in Seq(Message) : Len(turns) <= HistoryLimit}

\* carry: the turn that wrote the slot request and the hand-off stage.
Context == [turns : History, carry : Turns \union {NoTurn}]
EmptyContext == [turns |-> << >>, carry |-> NoTurn]

\* An answered turn was recorded, or its write was lost.
Answered == {"saved", "unsaved"}
Ended    == Answered \union {"failed"}
Phase    == {"new", "running", "saving"} \union Ended

Init ==
  /\ backend \in Backends
  /\ store = [p \in Place |-> EmptyContext]
  /\ phase = [t \in Turns |-> "new"]
  /\ replica \in [Turns -> Replicas]
  /\ carried = [t \in Turns |-> NoTurn]
  /\ draft = [t \in Turns |-> EmptyContext]
  /\ past = [p \in Place |-> {<< >>}]

-----------------------------------------------------------------------------
Messages(t) == << [role |-> "user", turn |-> t], [role |-> "assistant", turn |-> t] >>

\* Mutant: one message more than the limit is kept.
KeptHistoryInclusive(turns) ==
  SubSeq(turns, IF Len(turns) > HistoryLimit THEN Len(turns) - HistoryLimit ELSE 1, Len(turns))

\* context.turns[-history_limit:]
KeptHistory(turns) ==
  SubSeq(turns, IF Len(turns) > HistoryLimit THEN Len(turns) - HistoryLimit + 1 ELSE 1,
         Len(turns))

\* Mutants: a turn that asks for nothing leaves the old request in place; the
\* answer is written without its question.
AfterKeepingCarry(context, t) ==
  [turns |-> KeptHistory(context.turns \o Messages(t)),
   carry |-> IF context.carry = NoTurn THEN t ELSE context.carry]
AfterAnswerOnly(context, t) ==
  [turns |-> KeptHistory(Append(context.turns, Messages(t)[2])), carry |-> t]

\* The context a turn leaves behind: its two messages added, the history cut,
\* the slot request and the stage replaced by its own.
After(context, t) ==
  [turns |-> KeptHistory(context.turns \o Messages(t)), carry |-> t]

\* What a read of place p may return: a failed read is an empty context.
Reads(p, fault) ==
  {store[p]} \union IF backend = Redis /\ fault \in Faults THEN {EmptyContext} ELSE {}

\* memory_load, the first node of the turn.
BeginTurn(t) ==
  /\ phase[t] = "new"
  /\ \E context \in Reads(Home(replica[t]), "load") :
       carried' = [carried EXCEPT ![t] = context.carry]
  /\ phase' = [phase EXCEPT ![t] = "running"]
  /\ UNCHANGED << backend, store, replica, draft, past >>

\* The place p keeps the context from now on.
Keep(p, context) ==
  /\ store' = [store EXCEPT ![p] = context]
  /\ past' = [past EXCEPT ![p] = @ \union {context.turns}]

\* InMemoryMemory.save_turn
SaveInMemory(t) ==
  /\ backend = "in_memory" /\ phase[t] = "running"
  /\ Keep(replica[t], After(store[replica[t]], t))
  /\ phase' = [phase EXCEPT ![t] = "saved"]
  /\ UNCHANGED << backend, replica, carried, draft >>

\* RedisMemory.save_turn up to its write.
SaveRead(t) ==
  /\ backend = Redis /\ phase[t] = "running"
  /\ \E context \in Reads(Redis, "save_read") :
       draft' = [draft EXCEPT ![t] = After(context, t)]
  /\ phase' = [phase EXCEPT ![t] = "saving"]
  /\ UNCHANGED << backend, store, replica, carried, past >>

SaveWrite(t) ==
  /\ backend = Redis /\ phase[t] = "saving"
  /\ Keep(Redis, draft[t])
  /\ phase' = [phase EXCEPT ![t] = "saved"]
  /\ UNCHANGED << backend, replica, carried, draft >>

\* The write fails and is only logged: the turn is answered all the same.  (One
\* that arrived although its reply did not is SaveWrite.)
SaveLost(t) ==
  /\ backend = Redis /\ "save_write" \in Faults /\ phase[t] = "saving"
  /\ phase' = [phase EXCEPT ![t] = "unsaved"]
  /\ UNCHANGED << backend, store, replica, carried, draft, past >>

\* An exception ends the graph's run before memory_save is reached.
TurnFails(t) ==
  /\ "turn" \in Faults /\ phase[t] = "running"
  /\ phase' = [phase EXCEPT ![t] = "failed"]
  /\ UNCHANGED << backend, store, replica, carried, draft, past >>

\* A process dies with the turns it serves and, in memory, all it kept.
Restart(r) ==
  /\ "restart" \in Faults
  /\ phase' = [t \in Turns |-> IF replica[t] = r /\ phase[t] \in {"running", "saving"}
                               THEN "failed" ELSE phase[t]]
  /\ store' = [store EXCEPT ![r] = EmptyContext]
  /\ UNCHANGED << backend, replica, carried, draft, past >>

Expire ==
  /\ backend = Redis /\ "expire" \in Faults
  /\ store' = [store EXCEPT ![Redis] = EmptyContext]
  /\ UNCHANGED << backend, phase, replica, carried, draft, past >>

\* What the server does once a turn has begun.
TurnStep(t) == SaveInMemory(t) \/ SaveRead(t) \/ SaveWrite(t) \/ SaveLost(t) \/ TurnFails(t)

MemoryStep == \/ \E t \in Turns : TurnStep(t)
              \/ \E r \in Replicas : Restart(r)
              \/ Expire

Next == MemoryStep \/ \E t \in Turns : BeginTurn(t)

Spec == Init /\ [][Next]_vars

-----------------------------------------------------------------------------
\* Properties.

TypeOK ==
  /\ backend \in Backends
  /\ store \in [Place -> Context]
  /\ phase \in [Turns -> Phase]
  /\ replica \in [Turns -> Replicas]
  /\ carried \in [Turns -> Turns \union {NoTurn}]
  /\ draft \in [Turns -> Context]
  /\ past \in [Place -> SUBSET History]

\* A history the workers can read: questions and answers alternate, an answer
\* follows the question of its own turn, only the first message may have lost
\* its question to the limit, and no turn is in it twice, however the saves of
\* several turns interleave and fail (save_turn, history_to_messages).
WellFormed(messages) ==
  /\ \A i \in 1 .. Len(messages) - 1 :
       IF messages[i].role = "user"
       THEN messages[i + 1] = [messages[i] EXCEPT !.role = "assistant"]
       ELSE messages[i + 1].role = "user"
  /\ messages # << >> => messages[Len(messages)].role = "assistant"
  /\ \A i, j \in DOMAIN messages : messages[i] = messages[j] => i = j

HistoryWellFormed == \A p \in Place : WellFormed(store[p].turns)

\* The slot request and the stage a turn finds are those of the last answer in
\* the history it finds with them, never of an older turn that was overtaken.
CarryOfLastAnswer ==
  \A p \in Place :
    LET h == store[p].turns IN
    store[p].carry = IF h = << >> THEN NoTurn ELSE h[Len(h)].turn

\* A save adds one whole turn to the transcript it read and loses none of it
\* but the oldest messages: each place implements Transcript, a replica's own
\* dictionary with the strict promise and Redis with the weak one.
ImplementsTranscript == Promise!Spec

\* The inductive invariant of the proofs: what a place keeps is one of the
\* transcripts it has kept; what a turn is about to write adds that turn to one
\* of them; all of them are well formed and made of turns that were saved.
Current == \A p \in Place : store[p].turns \in past[p] /\ << >> \in past[p]

DraftAdds ==
  \A t \in Turns : phase[t] = "saving" =>
    \E base \in past[Redis] :
      draft[t] = [turns |-> KeptHistory(base \o Messages(t)), carry |-> t]

PastSaved ==
  \A p \in Place : \A h \in past[p] : \A i \in DOMAIN h : phase[h[i].turn] = "saved"

PastWellFormed == \A p \in Place : \A h \in past[p] : WellFormed(h)

MemoryInv ==
  TypeOK /\ Current /\ DraftAdds /\ PastSaved /\ PastWellFormed /\ CarryOfLastAnswer
=============================================================================
