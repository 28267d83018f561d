---------------------- MODULE BankingRepository_proofs ----------------------
(***************************************************************************)
(* Proofs about BankingRepository, for any number of calls, cards and      *)
(* connections: the lock admits one call to open the pool, one pool is     *)
(* opened, and the repository keeps the promise of Bank over both stores.  *)
(***************************************************************************)
EXTENDS BankingRepository, SequenceTheorems, TLAPS

-----------------------------------------------------------------------------
\* The operators of BankingTools.

\* What a call does to the cards keeps them cards with a status.
LEMMA EffectTyped ==
  ASSUME NEW r, NEW s \in CardStatus
  PROVE  Effect(r, s) \in CardStatus
BY DEF Effect, CardStatus, Status

\* Answers are envelopes, whichever store gives them.
LEMMA AnswersTyped ==
  ASSUME NEW r \in Request, NEW s \in CardStatus
  PROVE  /\ InMemoryAnswer(r, s) \in Envelope /\ PostgresAnswer(r, s) \in Envelope
         /\ Unavailable \in Envelope
<1>1. Ok({}) \in Envelope  BY DEF Ok, Envelope
<1>2. Unavailable \in Envelope  BY DEF Unavailable, Refusal, ErrorCode, Envelope
<1>3. NotFound(r) \in Envelope  BY DEF NotFound, Refusal, ErrorCode, Envelope
<1>4. ASSUME Known(r) PROVE Data(r, s) \subseteq Row
  <2>1. CASE r.tool = "get_balance"
    <3>1. Data(r, s) = {<<"balance", r.id>>} /\ r.id \in Accounts
      BY <1>4, <2>1 DEF Data, Known, AccountTool
    <3> QED  BY <3>1 DEF Row
  <2>2. CASE r.tool = "list_transactions"
    <3>1. PICK n : Data(r, s) = Newest(n)  BY <2>2 DEF Data
    <3> QED  BY <3>1 DEF Newest, Row
  <2>3. CASE r.tool = "list_cards"
    <3>1. Data(r, s) = {<<card, s[card]>> : card \in {c \in Cards : Owner[c] = r.id}}
      BY <2>3 DEF Data
    <3> QED  BY <3>1 DEF Row, CardStatus
  <2>4. CASE r.tool = "block_card"
    <3>1. Data(r, s) = {<<r.id, "blocked">>} /\ r.id \in Cards
      BY <1>4, <2>4 DEF Data, Known, AccountTool
    <3> QED  BY <3>1 DEF Row, Status
  <2>5. CASE r.tool = "open_support_ticket"
    <3>1. Data(r, s) = {}  BY <2>5 DEF Data
    <3> QED  BY <3>1
  <2> QED  BY <2>1, <2>2, <2>3, <2>4, <2>5 DEF Request, Tool, AccountTool
<1>5. Known(r) => Ok(Data(r, s)) \in Envelope  BY <1>4 DEF Ok, Envelope
<1>6. InMemoryAnswer(r, s) \in Envelope  BY <1>3, <1>5 DEF InMemoryAnswer
<1>7. PostgresAnswer(r, s) \in {Ok({}), Unavailable, InMemoryAnswer(r, s)}
  BY Zenon DEF PostgresAnswer
<1> QED  BY <1>1, <1>2, <1>6, <1>7

-----------------------------------------------------------------------------
\* The queue at the lock.

\* Who joins the queue comes last and leaves the others where they were.
LEMMA Joined ==
  ASSUME NEW q \in Seq(Calls), NEW c \in Calls
  PROVE  /\ Append(q, c) \in Seq(Calls)
         /\ Len(Append(q, c)) = Len(q) + 1
         /\ \A i \in 1 .. Len(q) : Append(q, c)[i] = q[i]
         /\ Append(q, c)[Len(q) + 1] = c
BY AppendProperties, LenProperties

\* The queue without its first: everyone moves up by one.
LEMMA MovedUp ==
  ASSUME NEW q \in Seq(Calls), q # << >>
  PROVE  /\ Tail(q) \in Seq(Calls)
         /\ Head(q) \in Calls /\ Head(q) = q[1]
         /\ Len(Tail(q)) = Len(q) - 1 /\ Len(q) \in Nat \ {0}
         /\ \A i \in 1 .. Len(Tail(q)) : Tail(q)[i] = q[i + 1]
BY HeadTailProperties, EmptySeq, LenProperties

-----------------------------------------------------------------------------
\* The inductive invariant.

THEOREM RepositoryInitially == Init => RepositoryInv
<1> SUFFICES ASSUME Init PROVE RepositoryInv  OBVIOUS
<1> USE RepositoryAssumption
<1>1. TypeOK  BY EmptySeq DEF Init, TypeOK, Location, Seeking, Busy
<1>2. Asked  BY DEF Init, Asked, Postgres
<1>3. LockInv  BY DEF Init, LockInv
<1>4. Len(waiters) = 0  BY EmptySeq DEF Init
<1>5. QueueInv  BY <1>4 DEF Init, QueueInv
<1> QED  BY <1>1, <1>2, <1>3, <1>5 DEF RepositoryInv

\* Types and the request, which only Call sets.
LEMMA TypeStep == RepositoryInv /\ [Next]_vars => TypeOK' /\ Asked'
<1> SUFFICES ASSUME TypeOK, Asked, [Next]_vars PROVE TypeOK' /\ Asked'
    BY DEF RepositoryInv
<1> USE RepositoryAssumption
<1>1. ASSUME NEW c \in Calls, Call(c) PROVE TypeOK' /\ Asked'
      BY <1>1 DEF Call, Move, TypeOK, Asked, Postgres, Location, Seeking, Busy, poolVars
<1>2. ASSUME NEW c \in Calls, AnswerAtOnce(c) PROVE TypeOK' /\ Asked'
      BY <1>2, EffectTyped, AnswersTyped
      DEF AnswerAtOnce, Settle, Move, TypeOK, Asked, Postgres, Location, Seeking, Busy, poolVars
<1>3. ASSUME NEW c \in Calls, UsePool(c) \/ TakeLock(c) PROVE TypeOK' /\ Asked'
      BY <1>3 DEF UsePool, TakeLock, NeedsDatabase, Move, TypeOK, Asked, Postgres, Location, Seeking, Busy, poolVars
<1>4. ASSUME NEW c \in Calls, QueueAtLock(c) PROVE TypeOK' /\ Asked'
  <2>1. waiters' \in Seq(Calls)  BY <1>4, Joined DEF QueueAtLock, TypeOK
  <2> QED  BY <1>4, <2>1 DEF QueueAtLock, NeedsDatabase, Move, TypeOK, Asked, Postgres, Location, Seeking, Busy
<1>5. ASSUME NEW c \in Calls, LockGranted(c) PROVE TypeOK' /\ Asked'
  <2>1. waiters' \in Seq(Calls)  BY <1>5, MovedUp DEF LockGranted, TypeOK
  <2> QED  BY <1>5, <2>1 DEF LockGranted, Move, TypeOK, Asked, Postgres, Location, Seeking, Busy
<1>6. ASSUME NEW c \in Calls, PoolCreated(c) \/ PoolFailed(c) PROVE TypeOK' /\ Asked'
  <2>1. CASE PoolCreated(c)
        BY <2>1 DEF PoolCreated, Move, TypeOK, Asked, Postgres, Location, Seeking, Busy
  <2>2. CASE PoolFailed(c)
        BY <2>2, AnswersTyped DEF PoolFailed, Settle, Move, TypeOK, Asked, Postgres, Location, Seeking, Busy
  <2> QED  BY <1>6, <2>1, <2>2
<1>7. ASSUME NEW c \in Calls, SendQuery(c) \/ AccountFound(c) \/ Return(c) \/ QueryFails(c)
      PROVE TypeOK' /\ Asked'
      BY <1>7, AnswersTyped DEF SendQuery, AccountFound, Return, QueryFails, Settle, Move,
                  TypeOK, Asked, Postgres, Location, Seeking, Busy, poolVars
<1>8. ASSUME NEW c \in Calls, Execute(c) PROVE TypeOK' /\ Asked'
      BY <1>8, EffectTyped, AnswersTyped DEF Execute, Settle, Move, TypeOK, Asked, Postgres, Location, Seeking, Busy, poolVars
<1>9. ASSUME NEW card \in Cards, OtherBlocks(card) PROVE TypeOK' /\ Asked'
      BY <1>9 DEF OtherBlocks, TypeOK, Asked, Postgres, CardStatus, Status, poolVars
<1>10. ASSUME ProcessRestarts PROVE TypeOK' /\ Asked'
      BY <1>10, EmptySeq DEF ProcessRestarts, Unfinished, TypeOK, Asked, Postgres, Location, Seeking, Busy
<1>11. ASSUME UNCHANGED vars PROVE TypeOK' /\ Asked'
      BY <1>11 DEF vars, TypeOK, Asked, Postgres, poolVars
<1> QED  BY <1>1, <1>2, <1>3, <1>4, <1>5, <1>6, <1>7, <1>8, <1>9, <1>10, <1>11 DEF Next, Own

\* A step that leaves the pool, the lock and those who stand at either where they are.
LEMMA ElsewhereStep ==
  ASSUME LockInv, QueueInv, UNCHANGED poolVars,
         \A d \in Calls : pc'[d] # pc[d] =>
           pc[d] \notin {"creating", "waiting"} /\ pc'[d] \notin {"creating", "waiting"},
         TypeOK
  PROVE  LockInv' /\ QueueInv'
<1>1. LockInv'  BY DEF LockInv, poolVars
<1>2. \A i \in 1 .. Len(waiters) : waiters[i] \in Calls  BY LenProperties, ElementOfSeq DEF TypeOK
<1>3. QueueInv'  BY <1>2 DEF QueueInv, poolVars
<1> QED  BY <1>1, <1>3

LEMMA LockStep == RepositoryInv /\ [Next]_vars => LockInv' /\ QueueInv'
<1> SUFFICES ASSUME TypeOK, Asked, LockInv, QueueInv, [Next]_vars PROVE LockInv' /\ QueueInv'
    BY DEF RepositoryInv
<1> USE RepositoryAssumption
<1>0. \A i \in 1 .. Len(waiters) : waiters[i] \in Calls  BY LenProperties, ElementOfSeq DEF TypeOK
<1>1. ASSUME NEW c \in Calls,
             Call(c) \/ AnswerAtOnce(c) \/ UsePool(c) \/ SendQuery(c) \/ AccountFound(c)
               \/ Execute(c) \/ Return(c) \/ QueryFails(c)
      PROVE LockInv' /\ QueueInv'
  <2>1. UNCHANGED poolVars
        BY <1>1 DEF Call, AnswerAtOnce, UsePool, SendQuery, AccountFound, Execute, Return, QueryFails
  <2>2. \A d \in Calls : pc'[d] # pc[d] =>
           pc[d] \notin {"creating", "waiting"} /\ pc'[d] \notin {"creating", "waiting"}
        BY <1>1 DEF Call, AnswerAtOnce, UsePool, SendQuery, AccountFound, Execute, Return,
                    QueryFails, Move, Busy, TypeOK
  <2> QED  BY <2>1, <2>2, ElsewhereStep
<1>2. ASSUME NEW c \in Calls, TakeLock(c) PROVE LockInv' /\ QueueInv'
  <2>1. LockInv'  BY <1>2 DEF TakeLock, LockIsFree, Move, LockInv, TypeOK
  <2>2. QueueInv'  BY <1>0, <1>2 DEF TakeLock, Move, QueueInv, TypeOK
  <2> QED  BY <2>1, <2>2
<1>3. ASSUME NEW c \in Calls, QueueAtLock(c) PROVE LockInv' /\ QueueInv'
  <2>1. LockInv'  BY <1>3 DEF QueueAtLock, Move, LockInv, TypeOK
  <2>2. waiters \in Seq(Calls) /\ waiters' = Append(waiters, c)  BY <1>3 DEF QueueAtLock, TypeOK
  <2>3. Len(waiters) \in Nat  BY <2>2, LenProperties
  <2>4. Len(waiters') = Len(waiters) + 1 /\ waiters'[Len(waiters) + 1] = c
        /\ \A i \in 1 .. Len(waiters) : waiters'[i] = waiters[i]
        BY <2>2, Joined
  <2>5. \A i \in 1 .. Len(waiters) : waiters[i] # c
        BY <1>3 DEF QueueAtLock, Move, QueueInv
  <2>6. \A i \in 1 .. Len(waiters') : pc'[waiters'[i]] = "waiting"
        BY <1>0, <1>3, <2>3, <2>4, <2>5 DEF QueueAtLock, Move, QueueInv, TypeOK
  <2>7. \A i, j \in 1 .. Len(waiters') : waiters'[i] = waiters'[j] => i = j
        BY <2>3, <2>4, <2>5 DEF QueueInv
  <2>8. ASSUME NEW d \in Calls, pc'[d] = "waiting"
        PROVE  \E i \in 1 .. Len(waiters') : waiters'[i] = d
    <3>1. CASE d = c  BY <2>3, <2>4, <3>1
    <3>2. CASE d # c
      <4>1. pc[d] = "waiting"  BY <1>3, <2>8, <3>2 DEF QueueAtLock, Move, TypeOK
      <4>2. PICK i \in 1 .. Len(waiters) : waiters[i] = d  BY <4>1 DEF QueueInv
      <4>3. i \in 1 .. Len(waiters') /\ waiters'[i] = d  BY <2>3, <2>4, <4>2
      <4> QED  BY <4>3
    <3> QED  BY <3>1, <3>2
  <2>9. QueueInv'  BY <2>6, <2>7, <2>8 DEF QueueInv
  <2> QED  BY <2>1, <2>9
<1>4. ASSUME NEW c \in Calls, LockGranted(c) PROVE LockInv' /\ QueueInv'
  <2>1. LockInv'  BY <1>4 DEF LockGranted, Move, LockInv, TypeOK
  <2>2. waiters \in Seq(Calls) /\ waiters # << >> /\ waiters' = Tail(waiters) /\ c = Head(waiters)
        BY <1>4 DEF LockGranted, TypeOK
  <2>3. /\ c = waiters[1] /\ Len(waiters') = Len(waiters) - 1 /\ Len(waiters) \in Nat \ {0}
        /\ \A i \in 1 .. Len(waiters') : waiters'[i] = waiters[i + 1]
        BY <2>2, MovedUp
  <2>4. ASSUME NEW i \in 1 .. Len(waiters')
        PROVE  waiters'[i] \in Calls /\ waiters'[i] # c /\ pc[waiters'[i]] = "waiting"
    <3>1. i + 1 \in 1 .. Len(waiters) /\ 1 \in 1 .. Len(waiters) /\ i + 1 # 1  BY <2>3
    <3>2. waiters'[i] = waiters[i + 1]  BY <2>3
    <3>3. waiters[i + 1] # waiters[1]  BY <3>1 DEF QueueInv
    <3> QED  BY <1>0, <2>3, <3>1, <3>2, <3>3 DEF QueueInv
  <2>5. \A i \in 1 .. Len(waiters') : pc'[waiters'[i]] = "waiting"
        BY <1>4, <2>4 DEF LockGranted, Move, TypeOK
  <2>6. \A i, j \in 1 .. Len(waiters') : waiters'[i] = waiters'[j] => i = j
        BY <2>3 DEF QueueInv
  <2>7. ASSUME NEW d \in Calls, pc'[d] = "waiting"
        PROVE  \E i \in 1 .. Len(waiters') : waiters'[i] = d
    <3>1. pc[d] = "waiting" /\ d # c  BY <1>4, <2>7 DEF LockGranted, Move, TypeOK
    <3>2. PICK i \in 1 .. Len(waiters) : waiters[i] = d  BY <3>1 DEF QueueInv
    <3>3. i # 1  BY <2>3, <3>1, <3>2
    <3>4. i - 1 \in 1 .. Len(waiters') /\ waiters'[i - 1] = d  BY <2>3, <3>2, <3>3
    <3> QED  BY <3>4
  <2>8. QueueInv'  BY <2>5, <2>6, <2>7 DEF QueueInv
  <2> QED  BY <2>1, <2>8
<1>5. ASSUME NEW c \in Calls, PoolCreated(c) \/ PoolFailed(c) PROVE LockInv' /\ QueueInv'
  <2>1. LockInv'  BY <1>5 DEF PoolCreated, PoolFailed, Move, LockInv, TypeOK
  <2>2. QueueInv'  BY <1>0, <1>5 DEF PoolCreated, PoolFailed, Move, QueueInv, TypeOK
  <2> QED  BY <2>1, <2>2
<1>6. ASSUME NEW card \in Cards, OtherBlocks(card) PROVE LockInv' /\ QueueInv'
      BY <1>6, ElsewhereStep DEF OtherBlocks
<1>7. ASSUME ProcessRestarts PROVE LockInv' /\ QueueInv'
  <2>1. LockInv'  BY <1>7 DEF ProcessRestarts, Unfinished, LockInv, TypeOK
  <2>2. Len(waiters') = 0  BY <1>7, EmptySeq DEF ProcessRestarts
  <2>3. \A c \in Calls : pc'[c] # "waiting"  BY <1>7 DEF ProcessRestarts, Unfinished, TypeOK
  <2>4. QueueInv'  BY <2>2, <2>3 DEF QueueInv
  <2> QED  BY <2>1, <2>4
<1>8. ASSUME UNCHANGED vars PROVE LockInv' /\ QueueInv'
      BY <1>8, ElsewhereStep DEF vars
<1> QED  BY <1>1, <1>2, <1>3, <1>4, <1>5, <1>6, <1>7, <1>8 DEF Next, Own

THEOREM RepositoryInductive == RepositoryInv /\ [Next]_vars => RepositoryInv'
BY TypeStep, LockStep DEF RepositoryInv

(***************************************************************************)
(* In every reachable state the pool is opened by the one holder of the    *)
(* lock, and nobody holds the lock while there is a pool (_get_pool).      *)
(***************************************************************************)
THEOREM RepositoryInvariant == Spec => []RepositoryInv
BY RepositoryInitially, RepositoryInductive, PTL DEF Spec

(***************************************************************************)
(* However many calls arrive before the first connection, the process      *)
(* opens one pool at most (_get_pool).                                     *)
(***************************************************************************)
THEOREM OnePoolOnly == Spec => []OnePool
<1>1. RepositoryInv => OnePool  BY DEF RepositoryInv, LockInv, OnePool
<1> QED  BY <1>1, RepositoryInvariant, PTL

(***************************************************************************)
(* However calls fail, whoever waits at the lock waits for a call that can *)
(* move: the lock by itself never stops them all (_get_pool).              *)
(***************************************************************************)
THEOREM LockAlwaysPassesOn == Spec => []LockPassesOn
<1>1. RepositoryInv => LockPassesOn
  <2>1. SUFFICES ASSUME RepositoryInv, NEW c \in Calls, pc[c] = "waiting"
                 PROVE  \E d \in Calls :
                          \/ pc[d] = "creating"
                          \/ lock = NoCall /\ waiters # << >> /\ d = Head(waiters)
                             /\ pc[d] = "waiting"
    BY DEF LockPassesOn
  <2>2. CASE lock # NoCall  BY <2>1, <2>2 DEF RepositoryInv, TypeOK, LockInv
  <2>3. CASE lock = NoCall
    <3>1. waiters \in Seq(Calls) /\ \E i \in 1 .. Len(waiters) : waiters[i] = c
      BY <2>1 DEF RepositoryInv, TypeOK, QueueInv
    <3>2. waiters # << >>  BY <3>1, EmptySeq
    <3>3. Head(waiters) \in Calls /\ Head(waiters) = waiters[1] /\ Len(waiters) \in Nat \ {0}
      BY <3>1, <3>2, MovedUp
    <3>4. pc[Head(waiters)] = "waiting"  BY <2>1, <3>3 DEF RepositoryInv, QueueInv
    <3> QED  BY <2>3, <3>2, <3>3, <3>4
  <2> QED  BY <2>2, <2>3
<1> QED  BY <1>1, RepositoryInvariant, PTL

-----------------------------------------------------------------------------
\* The repository implements the bank.

\* The operators of the promise are those of the repository.
LEMMA SameAnswers ==
  ASSUME NEW r, NEW s
  PROVE  /\ Promise!InMemoryAnswer(r, s) = InMemoryAnswer(r, s)
         /\ Promise!PostgresAnswer(r, s) = PostgresAnswer(r, s)
         /\ Promise!Effect(r, s) = Effect(r, s)
         /\ Promise!Unavailable = Unavailable
         /\ Promise!Known(r) = Known(r)
BY Zenon DEF Promise!InMemoryAnswer, InMemoryAnswer, Promise!PostgresAnswer, PostgresAnswer,
  Promise!Effect, Effect, Promise!Unavailable, Unavailable, Promise!Known, Known,
  Promise!AccountTool, AccountTool, Promise!Ok, Ok, Promise!Data, Data,
  Promise!NotFound, NotFound, Promise!Refusal, Refusal, Promise!Newest, Newest,
  Promise!Sliced, Sliced

\* The phases of the calls, as Bank sees them.
Phases(locations) == [c \in Calls |-> Phase(locations[c])]

LEMMA PhaseOf ==
  /\ Phase("idle") = "none" /\ Phase("served") = "carried_out"
  /\ Phase("done") = "answered" /\ Phase("lost") = "lost"
  /\ \A l \in Seeking \union {"ready", "sent", "found", "fetching"} : Phase(l) = "begun"
BY DEF Phase, Seeking

\* One call moves on: so does its phase, and no other's.
LEMMA PhaseMoves ==
  ASSUME NEW c \in Calls, NEW l, pc' = [pc EXCEPT ![c] = l], pc \in [Calls -> Location]
  PROVE  Phases(pc)' = [Phases(pc) EXCEPT ![c] = Phase(l)]
BY DEF Phases

THEOREM BankInitially == Init => Promise!BankInit
<1> SUFFICES ASSUME Init PROVE Promise!BankInit  OBVIOUS
<1>1. Phases(pc) = [c \in Calls |-> "none"]  BY PhaseOf DEF Init, Phases
<1>2. Postgres \in BOOLEAN  BY DEF Postgres
<1> QED  BY <1>1, <1>2 DEF Init, Promise!BankInit, Phases

\* A step of one call that Bank does not see.
LEMMA Unseen ==
  ASSUME NEW c \in Calls, NEW l, TypeOK, pc' = [pc EXCEPT ![c] = l], Phase(l) = Phase(pc[c]),
         UNCHANGED << store, status, request, answer >>
  PROVE  UNCHANGED Promise!bankVars
<1>1. Phases(pc)' = [Phases(pc) EXCEPT ![c] = Phase(pc[c])]  BY PhaseMoves DEF TypeOK
<1>2. Phases(pc)' = Phases(pc)  BY <1>1 DEF Phases
<1> QED  BY <1>2 DEF Promise!bankVars, Phases, Postgres

\* A call that gets no answer from the database.
LEMMA GivenUp ==
  ASSUME NEW c \in Calls, RepositoryInv, PoolFailed(c) \/ QueryFails(c)
  PROVE  Promise!GiveUp(c)
<1>1. pc' = [pc EXCEPT ![c] = "done"] /\ pc[c] \in {"creating", "ready", "found"} \union Busy
      BY DEF PoolFailed, QueryFails, Move
<1>2. Phases(pc)' = [Phases(pc) EXCEPT ![c] = "answered"]
      BY <1>1, PhaseMoves, PhaseOf DEF RepositoryInv, TypeOK
<1>3. Phases(pc)[c] \in {"begun", "carried_out"}
      BY <1>1, PhaseOf DEF Phases, Busy, Seeking
<1>4. Postgres  BY <1>1 DEF RepositoryInv, Asked, Busy
<1>5. answer' = [answer EXCEPT ![c] = Promise!Unavailable]
      BY SameAnswers DEF PoolFailed, QueryFails, Settle
<1>6. UNCHANGED << store, status, request >>  BY DEF PoolFailed, QueryFails
<1> QED  BY <1>2, <1>3, <1>4, <1>5, <1>6 DEF Promise!GiveUp, Phases, Postgres

\* A call carried out, at once or by the database.
LEMMA CarriedOut ==
  ASSUME NEW c \in Calls, RepositoryInv, AnswerAtOnce(c) \/ Execute(c)
  PROVE  Promise!CarryOut(c)
<1> DEFINE end == IF AnswerAtOnce(c) THEN "done" ELSE "served"
<1>1. pc' = [pc EXCEPT ![c] = end] /\ pc[c] \in {"called", "sent", "fetching"}
      BY DEF AnswerAtOnce, Execute, Move
<1>2. Phases(pc)' = [Phases(pc) EXCEPT ![c] = Phase(end)]
      BY <1>1, PhaseMoves DEF RepositoryInv, TypeOK
<1>3. Phase(end) \in {"carried_out", "answered"}  BY PhaseOf
<1>4. Phases(pc)[c] = "begun"  BY <1>1, PhaseOf DEF Phases, Seeking
<1>5. \E promised \in {Promise!InMemoryAnswer(request[c], status),
                       Promise!PostgresAnswer(request[c], status)} :
        answer' = [answer EXCEPT ![c] = promised]
      BY SameAnswers DEF AnswerAtOnce, Execute, Settle
<1>6. status' = Promise!Effect(request[c], status) /\ UNCHANGED << store, request >>
      BY SameAnswers DEF AnswerAtOnce, Execute
<1> HIDE DEF end
<1> QED  BY <1>2, <1>3, <1>4, <1>5, <1>6 DEF Promise!CarryOut, Phases, Postgres

\* The end of the process.
LEMMA Restarted ==
  ASSUME RepositoryInv, ProcessRestarts
  PROVE  Promise!Restart
<1>1. \A c \in Calls : Phase(pc[c]) \in {"begun", "carried_out"} <=> c \in Unfinished
      BY PhaseOf DEF RepositoryInv, TypeOK, Location, Seeking, Busy, Unfinished
<1>2. \A c \in Calls :
        Phases(pc)'[c] = IF Phase(pc[c]) \in {"begun", "carried_out"} THEN "lost" ELSE Phase(pc[c])
      BY <1>1, PhaseOf DEF ProcessRestarts, Phases
<1>3. Phases(pc)' = [c \in Calls |-> IF Phases(pc)[c] \in {"begun", "carried_out"}
                                    THEN "lost" ELSE Phases(pc)[c]]
      BY <1>2 DEF Phases
<1>4. answer' = [c \in Calls |-> IF Phases(pc)[c] \in {"begun", "carried_out"}
                                THEN NoAnswer ELSE answer[c]]
      BY <1>1 DEF ProcessRestarts, Phases
<1>5. status' = (IF Postgres THEN status ELSE Seed) /\ UNCHANGED << store, request >>
      BY DEF ProcessRestarts
<1> QED  BY <1>3, <1>4, <1>5 DEF Promise!Restart, Phases, Postgres

\* Every step of the repository is one of the bank, or none.
THEOREM BankStep == RepositoryInv /\ [Next]_vars => [Promise!BankNext]_Promise!bankVars
<1> SUFFICES ASSUME RepositoryInv, [Next]_vars PROVE [Promise!BankNext]_Promise!bankVars
    OBVIOUS
<1>0. TypeOK  BY DEF RepositoryInv
<1>1. ASSUME NEW c \in Calls, Call(c) PROVE Promise!Begin(c)
  <2>1. Phases(pc)' = [Phases(pc) EXCEPT ![c] = "begun"] /\ Phases(pc)[c] = "none"
        BY <1>0, <1>1, PhaseMoves, PhaseOf DEF Call, Move, TypeOK, Phases, Seeking
  <2> QED  BY <1>1, <2>1 DEF Call, Promise!Begin, Phases, Postgres
<1>2. ASSUME NEW c \in Calls,
             UsePool(c) \/ TakeLock(c) \/ QueueAtLock(c) \/ LockGranted(c) \/ PoolCreated(c)
               \/ SendQuery(c) \/ AccountFound(c)
      PROVE  UNCHANGED Promise!bankVars
  <2>1. \E l : pc' = [pc EXCEPT ![c] = l] /\ Phase(l) = "begun" /\ Phase(pc[c]) = "begun"
        BY <1>2, PhaseOf DEF UsePool, TakeLock, QueueAtLock, LockGranted, PoolCreated,
                             SendQuery, AccountFound, Move, Seeking
  <2>2. UNCHANGED << store, status, request, answer >>
        BY <1>2 DEF UsePool, TakeLock, QueueAtLock, LockGranted, PoolCreated, SendQuery, AccountFound
  <2> QED  BY <1>0, <2>1, <2>2, Unseen
<1>3. ASSUME NEW c \in Calls, Return(c) PROVE Promise!Answer(c)
  <2>1. Phases(pc)' = [Phases(pc) EXCEPT ![c] = "answered"] /\ Phases(pc)[c] = "carried_out"
        BY <1>0, <1>3, PhaseMoves, PhaseOf DEF Return, Move, TypeOK, Phases
  <2> QED  BY <1>3, <2>1 DEF Return, Promise!Answer, Phases, Postgres
<1>4. ASSUME NEW card \in Cards, OtherBlocks(card) PROVE Promise!OtherBlocks(card)
      BY <1>4 DEF OtherBlocks, Promise!OtherBlocks, Postgres
<1>5. ASSUME UNCHANGED vars PROVE UNCHANGED Promise!bankVars
      BY <1>5 DEF vars, Promise!bankVars, Postgres
<1>6. \/ \E c \in Calls : Promise!Begin(c) \/ Promise!CarryOut(c) \/ Promise!Answer(c)
                         \/ Promise!GiveUp(c)
      \/ \E card \in Cards : Promise!OtherBlocks(card)
      \/ Promise!Restart
      \/ UNCHANGED Promise!bankVars
      BY <1>1, <1>2, <1>3, <1>4, <1>5, CarriedOut, GivenUp, Restarted DEF Next, Own
<1> QED  BY <1>6 DEF Promise!BankNext

(***************************************************************************)
(* Over either store the repository keeps the promise of Bank: calls take  *)
(* effect once at most and their answers are true of that instant, or say  *)
(* that the service is unavailable (the methods' except branches).         *)
(***************************************************************************)
THEOREM RepositoryImplementsBank == Spec => ImplementsBank
BY BankInitially, BankStep, RepositoryInvariant, PTL DEF Spec, ImplementsBank, Promise!BankSpec

-----------------------------------------------------------------------------
\* What the bank's promise comes to for a caller, proved of Bank's steps.

\* What an answer a to the request r says of the cards s.
Holds(a, r, s, durable) ==
  /\ r.tool = "block_card" /\ a.ok => r.id \in Cards /\ (durable => s[r.id] = "blocked")
  /\ a.error \in {"CARD_NOT_FOUND", "ACCOUNT_NOT_FOUND"} => ~Known(r)
  /\ r.tool = "list_transactions" /\ a.ok =>
       Promise!RowsFit(a.data, r.limit, Transactions[r.id])

\* A slice of a list of total rows fits the limit it is cut at, whatever it is.
LEMMA SliceFits ==
  ASSUME NEW total \in Nat, NEW limit \in Int
  PROVE  Promise!RowsFit(Newest(Sliced(total, limit)), limit, total)
<1> DEFINE n == Sliced(total, limit)
<1>1. n \in 0 .. total  BY DEF Sliced
<1>2. limit >= 0 => n <= limit /\ (n = limit \/ n = total)  BY DEF Sliced
<1>3. limit < 0 => n < total \/ n = 0  BY DEF Sliced
<1>4. Newest(n) = Promise!Newest(n)  BY DEF Newest, Promise!Newest
<1> HIDE DEF n
<1>5. Promise!RowsFit(Newest(n), limit, total)
  BY <1>1, <1>2, <1>3, <1>4 DEF Promise!RowsFit
<1> QED  BY <1>5 DEF n

\* Both stores' answers are true once the call has had its effect.
LEMMA AnswersTrue ==
  ASSUME NEW r \in Request, NEW s \in CardStatus, NEW durable,
         NEW a \in {InMemoryAnswer(r, s), PostgresAnswer(r, s)}
  PROVE  Holds(a, r, Effect(r, s), durable)
<1>1. a = Ok({}) \/ a = Unavailable \/ a = InMemoryAnswer(r, s)
  BY Zenon DEF PostgresAnswer
<1>2. CASE a = Unavailable
  BY <1>2 DEF Holds, Unavailable, Refusal
<1>3. CASE a = InMemoryAnswer(r, s)
  <2>1. CASE Known(r)
    <3>1. a.ok = TRUE /\ a.error = ""  BY <1>3, <2>1 DEF InMemoryAnswer, Ok
    <3>2. r.tool = "block_card" => r.id \in Cards  BY <2>1 DEF Known, AccountTool
    <3>3. ASSUME r.tool = "list_transactions"
          PROVE  Promise!RowsFit(a.data, r.limit, Transactions[r.id])
      <4>1. r.id \in Accounts /\ a.data = Newest(Sliced(Transactions[r.id], r.limit))
        BY <1>3, <2>1, <3>3 DEF InMemoryAnswer, Ok, Data, Known, AccountTool
      <4>2. Transactions[r.id] \in Nat /\ r.limit \in Int
        BY <4>1, ToolsAssumption DEF Request
      <4> QED  BY <4>1, <4>2, SliceFits
    <3> QED  BY <3>1, <3>2, <3>3 DEF Holds, Effect, CardStatus
  <2>2. CASE ~Known(r)
    <3>1. a.ok = FALSE  BY <1>3, <2>2 DEF InMemoryAnswer, NotFound, Refusal
    <3> QED  BY <2>2, <3>1 DEF Holds
  <2> QED  BY <2>1, <2>2
<1>4. CASE a = Ok({}) /\ a # InMemoryAnswer(r, s)
  <2>1. r.tool = "list_cards"
    BY <1>4, Zenon DEF PostgresAnswer, Unavailable, Ok, Refusal
  <2> QED  BY <1>4, <2>1 DEF Holds, Ok
<1> QED  BY <1>1, <1>2, <1>3, <1>4

Told(c) == Phases(pc)[c] \in {"carried_out", "answered"}

\* AnswersHold call by call.
LEMMA CallByCall ==
  /\ Promise!AnswersHold <=>
       \A c \in Calls : Told(c) => Holds(answer[c], request[c], status, Postgres)
  /\ Promise!AnswersHold' <=>
       \A c \in Calls : Told(c)' => Holds(answer[c], request[c], status, Postgres)'
BY SameAnswers DEF Promise!AnswersHold, Told, Holds, Phases

\* A true answer stays true while no card it speaks of is unblocked.
LEMMA HoldsOn ==
  ASSUME NEW a, NEW r, NEW s, NEW t, NEW durable, Holds(a, r, s, durable),
         durable => \A card \in Cards : s[card] = "blocked" => t[card] = "blocked"
  PROVE  Holds(a, r, t, durable)
BY DEF Holds

\* A durable store unblocks nothing.
LEMMA NothingUnblocked ==
  ASSUME status \in CardStatus, Postgres, [Promise!BankNext]_Promise!bankVars
  PROVE  \A card \in Cards : status[card] = "blocked" => status'[card] = "blocked"
<1>1. ASSUME NEW c \in Calls, Promise!CarryOut(c)
      PROVE  \A card \in Cards : status[card] = "blocked" => status'[card] = "blocked"
  <2>1. status' = Effect(request[c], status)  BY <1>1, SameAnswers DEF Promise!CarryOut
  <2> QED  BY <2>1 DEF Effect, CardStatus
<1>2. ASSUME NEW other \in Cards, Promise!OtherBlocks(other)
      PROVE  \A card \in Cards : status[card] = "blocked" => status'[card] = "blocked"
  BY <1>2 DEF Promise!OtherBlocks, CardStatus
<1>3. CASE Promise!Restart  BY <1>3 DEF Promise!Restart
<1>4. ASSUME NEW c \in Calls, Promise!Begin(c) \/ Promise!Answer(c) \/ Promise!GiveUp(c)
      PROVE  status' = status
  BY <1>4 DEF Promise!Begin, Promise!Answer, Promise!GiveUp
<1>5. CASE UNCHANGED Promise!bankVars  BY <1>5 DEF Promise!bankVars
<1> QED  BY <1>1, <1>2, <1>3, <1>4, <1>5 DEF Promise!BankNext

\* In any step of Bank, a call that has its answer was told so before, or is told now.
LEMMA TellingStep ==
  ASSUME TypeOK, Asked, [Promise!BankNext]_Promise!bankVars, NEW c \in Calls, Told(c)',
         Promise!AnswersHold
  PROVE  Holds(answer[c], request[c], status, Postgres)'
<1>0. Phases(pc) \in [Calls -> {Phase(l) : l \in Location}]  BY DEF Phases, TypeOK
<1>1. CASE Told(c) /\ answer'[c] = answer[c] /\ request'[c] = request[c] /\ Postgres' = Postgres
  <2>1. Holds(answer[c], request[c], status, Postgres)  BY <1>1, CallByCall
  <2>2. Postgres => \A card \in Cards : status[card] = "blocked" => status'[card] = "blocked"
    BY NothingUnblocked DEF TypeOK
  <2>3. Holds(answer[c], request[c], status', Postgres)  BY <2>1, <2>2, HoldsOn
  <2> QED  BY <1>1, <2>3 DEF Holds
<1>2. CASE UNCHANGED Promise!bankVars
  BY <1>1, <1>2 DEF Promise!bankVars, Told, Phases
<1>3. ASSUME NEW d \in Calls, Promise!Begin(d)
      PROVE  Holds(answer[c], request[c], status, Postgres)'
  <2>1. Phases(pc)' = [Phases(pc) EXCEPT ![d] = "begun"]  BY <1>3 DEF Promise!Begin, Phases
  <2>2. c # d  BY <1>0, <2>1 DEF Told
  <2>3. Told(c)  BY <1>0, <2>1, <2>2 DEF Told
  <2>4. answer'[c] = answer[c] /\ Postgres' = Postgres  BY <1>3 DEF Promise!Begin
  <2>5. request'[c] = request[c]  BY <1>3, <2>2 DEF Promise!Begin, TypeOK
  <2> QED  BY <1>1, <2>3, <2>4, <2>5
<1>4. ASSUME NEW d \in Calls, Promise!Answer(d)
      PROVE  Holds(answer[c], request[c], status, Postgres)'
  <2>1. Phases(pc)' = [Phases(pc) EXCEPT ![d] = "answered"] /\ Phases(pc)[d] = "carried_out"
    BY <1>4 DEF Promise!Answer, Phases
  <2>2. Told(c)  BY <1>0, <2>1 DEF Told
  <2>3. answer' = answer /\ request' = request /\ Postgres' = Postgres  BY <1>4 DEF Promise!Answer
  <2> QED  BY <1>1, <2>2, <2>3
<1>5. ASSUME NEW d \in Calls, Promise!CarryOut(d)
      PROVE  Holds(answer[c], request[c], status, Postgres)'
  <2>1. PICK told \in {InMemoryAnswer(request[d], status), PostgresAnswer(request[d], status)} :
          answer' = [answer EXCEPT ![d] = told]
    BY <1>5, SameAnswers DEF Promise!CarryOut
  <2>2. /\ status' = Effect(request[d], status) /\ request' = request /\ Postgres' = Postgres
        /\ \E p : Phases(pc)' = [Phases(pc) EXCEPT ![d] = p]
    BY <1>5, SameAnswers DEF Promise!CarryOut, Phases
  <2>3. CASE c = d
    <3>1. answer'[c] = told  BY <2>1, <2>3 DEF TypeOK
    <3>2. request[d] \in Request
      BY <1>5, PhaseOf DEF Promise!CarryOut, Phases, Asked
    <3>3. Holds(told, request[d], Effect(request[d], status), Postgres)
      BY <3>2, AnswersTrue DEF TypeOK
    <3> QED  BY <2>2, <2>3, <3>1, <3>3 DEF Holds
  <2>4. CASE c # d
    <3>1. answer'[c] = answer[c]  BY <2>1, <2>4 DEF TypeOK
    <3>2. Told(c)  BY <1>0, <2>2, <2>4 DEF Told
    <3> QED  BY <1>1, <2>2, <3>1, <3>2
  <2> QED  BY <2>3, <2>4
<1>6. ASSUME NEW d \in Calls, Promise!GiveUp(d)
      PROVE  Holds(answer[c], request[c], status, Postgres)'
  <2>1. /\ answer' = [answer EXCEPT ![d] = Unavailable]
        /\ Phases(pc)' = [Phases(pc) EXCEPT ![d] = "answered"]
        /\ request' = request /\ status' = status /\ Postgres' = Postgres
    BY <1>6, SameAnswers DEF Promise!GiveUp, Phases
  <2>2. CASE c = d
    <3>1. answer'[c] = Unavailable  BY <2>1, <2>2 DEF TypeOK
    <3> QED  BY <3>1 DEF Holds, Unavailable, Refusal
  <2>3. CASE c # d
    <3>1. answer'[c] = answer[c]  BY <2>1, <2>3 DEF TypeOK
    <3>2. Told(c)  BY <1>0, <2>1, <2>3 DEF Told
    <3> QED  BY <1>1, <2>1, <3>1, <3>2
  <2> QED  BY <2>2, <2>3
<1>7. CASE Promise!Restart
  <2>1. /\ Phases(pc)'[c] = IF Phases(pc)[c] \in {"begun", "carried_out"}
                            THEN "lost" ELSE Phases(pc)[c]
        /\ answer'[c] = IF Phases(pc)[c] \in {"begun", "carried_out"} THEN NoAnswer ELSE answer[c]
        /\ request' = request /\ Postgres' = Postgres
    BY <1>7 DEF Promise!Restart, Phases
  <2> QED  BY <1>1, <2>1 DEF Told
<1>8. ASSUME NEW card \in Cards, Promise!OtherBlocks(card)
      PROVE  Holds(answer[c], request[c], status, Postgres)'
  BY <1>1, <1>8 DEF Promise!OtherBlocks, Told, Phases
<1> QED  BY <1>2, <1>3, <1>4, <1>5, <1>6, <1>7, <1>8 DEF Promise!BankNext

(***************************************************************************)
(* A card whose blocking was confirmed is one of the bank's and stays      *)
(* blocked while the store exists, nothing is said to be missing that the  *)
(* bank has, and a listing fits its limit, whatever fails and whoever else *)
(* calls (block_card, list_transactions).  The steps looked at are those   *)
(* of Bank, which the repository implements.                               *)
(***************************************************************************)
THEOREM AnswersAlwaysHold == Spec => []AnswersStayTrue
<1>1. Init => Promise!AnswersHold
  <2>1. Init => \A c \in Calls : ~Told(c)  BY PhaseOf DEF Init, Told, Phases
  <2> QED  BY <2>1, CallByCall
<1>2. RepositoryInv /\ Promise!AnswersHold /\ [Next]_vars => Promise!AnswersHold'
  <2>1. SUFFICES ASSUME RepositoryInv, Promise!AnswersHold, [Next]_vars,
                        NEW c \in Calls, Told(c)'
                 PROVE  Holds(answer[c], request[c], status, Postgres)'
    BY CallByCall
  <2> QED  BY <2>1, BankStep, TellingStep DEF RepositoryInv
<1> QED  BY <1>1, <1>2, RepositoryInvariant, PTL DEF Spec, AnswersStayTrue
=============================================================================
