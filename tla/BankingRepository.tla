------------------------- MODULE BankingRepository -------------------------
(***************************************************************************)
(* A process that serves banking calls (the MCP server, or the API when    *)
(* the tools run inside it): concurrent calls of the repository's methods, *)
(* the pool of database connections that the first of them opens under a   *)
(* lock, and the statements they run on it.                                *)
(*                                                                         *)
(* The methods run on one event loop, so an action is what happens between *)
(* two awaits.  With no DATABASE_URL the store is a dictionary of the      *)
(* process and no method awaits anything.  Each of Calls is one call.      *)
(***************************************************************************)
EXTENDS BankingTools, Sequences, FiniteSets

CONSTANTS
  Calls, NoCall,
  Requests,      \* what the callers may ask
  NoRequest, NoAnswer,
  Seed,          \* SEED_ACCOUNTS, and the cards of db/schema.sql
  PoolSize       \* max_size of the pool

ASSUME RepositoryAssumption ==
  /\ NoCall \notin Calls /\ Calls # {}
  /\ Requests \subseteq Request
  /\ Seed \in CardStatus
  /\ PoolSize \in Nat \ {0}

VARIABLES
  store,              \* "memory" or "postgres", settled when the process starts
  status,             \* of the cards, in that store
  pool, pools,        \* _pool: opened or not; how many this process ever opened
  lock, waiters,      \* _pool_lock: who holds it, and who waits in which order
  pc,                 \* where each call is
  request, answer

poolVars == << pool, pools, lock, waiters >>
vars     == << store, status, poolVars, pc, request, answer >>

\* On the way to the pool; with a connection of it; and without either.
Seeking  == {"called", "waiting", "creating"}
Busy     == {"sent", "fetching", "served"}
Location == Seeking \union Busy \union {"idle", "ready", "found", "done", "lost"}

Postgres == store = "postgres"
Connections == {c \in Calls : pc[c] \in Busy}

Init ==
  /\ store \in {"memory", "postgres"} /\ status = Seed
  /\ pool = FALSE /\ pools = 0
  /\ lock = NoCall /\ waiters = << >>
  /\ pc = [c \in Calls |-> "idle"]
  /\ request = [c \in Calls |-> NoRequest]
  /\ answer = [c \in Calls |-> NoAnswer]

Move(c, from, to) == pc[c] = from /\ pc' = [pc EXCEPT ![c] = to]
Settle(c, a)      == answer' = [answer EXCEPT ![c] = a]

Call(c) ==
  /\ Move(c, "idle", "called")
  /\ \E r \in Requests : request' = [request EXCEPT ![c] = r]
  /\ UNCHANGED << store, status, poolVars, answer >>

-----------------------------------------------------------------------------
\* Without a database, and for a ticket with one: nothing is awaited.

NeedsDatabase(c) == Postgres /\ request[c].tool # "open_support_ticket"

AnswerAtOnce(c) ==
  /\ Move(c, "called", "done") /\ ~NeedsDatabase(c)
  /\ Settle(c, InMemoryAnswer(request[c], status))
  /\ status' = Effect(request[c], status)
  /\ UNCHANGED << store, poolVars, request >>

-----------------------------------------------------------------------------
\* _get_pool.

UsePool(c) ==
  /\ Move(c, "called", "ready") /\ NeedsDatabase(c) /\ pool
  /\ UNCHANGED << store, status, poolVars, request, answer >>

\* asyncio.Lock is taken at once only if no one waits for it.
LockIsFree == lock = NoCall /\ waiters = << >>

TakeLock(c) ==
  /\ Move(c, "called", "creating") /\ NeedsDatabase(c) /\ ~pool /\ LockIsFree
  /\ lock' = c
  /\ UNCHANGED << store, status, pool, pools, waiters, request, answer >>

QueueAtLock(c) ==
  /\ Move(c, "called", "waiting") /\ NeedsDatabase(c) /\ ~pool /\ ~LockIsFree
  /\ waiters' = Append(waiters, c)
  /\ UNCHANGED << store, status, pool, pools, lock, request, answer >>

\* Mutant: no second look at _pool.
LockGrantedUnseeing(c) ==
  /\ lock = NoCall /\ waiters # << >> /\ c = Head(waiters)
  /\ waiters' = Tail(waiters)
  /\ Move(c, "waiting", "creating") /\ lock' = c
  /\ UNCHANGED << store, status, pool, pools, request, answer >>

\* The second look at _pool: whoever held the lock before may have opened it.
LockGranted(c) ==
  /\ lock = NoCall /\ waiters # << >> /\ c = Head(waiters)
  /\ waiters' = Tail(waiters)
  /\ \/ pool /\ Move(c, "waiting", "ready") /\ UNCHANGED lock
     \/ ~pool /\ Move(c, "waiting", "creating") /\ lock' = c
  /\ UNCHANGED << store, status, pool, pools, request, answer >>

PoolCreated(c) ==
  /\ Move(c, "creating", "ready")
  /\ pool' = TRUE /\ pools' = pools + 1 /\ lock' = NoCall
  /\ UNCHANGED << store, status, waiters, request, answer >>

\* Mutant: acquire and release around create_pool, and no release when it fails.
PoolFailedLocked(c) ==
  /\ Move(c, "creating", "done") /\ Settle(c, Unavailable)
  /\ UNCHANGED << store, status, poolVars, request >>

\* create_pool opens its first connection at once; the lock is let go either way.
PoolFailed(c) ==
  /\ Move(c, "creating", "done") /\ Settle(c, Unavailable)
  /\ lock' = NoCall
  /\ UNCHANGED << store, status, pool, pools, waiters, request >>

-----------------------------------------------------------------------------
\* A statement on a connection of the pool.

\* list_transactions asks for the account first, and then anew for the rows.
NeedsRows(c) == request[c].tool = "list_transactions" /\ Known(request[c])

SendQuery(c) ==
  /\ Move(c, "ready", "sent") \/ Move(c, "found", "fetching")
  /\ Cardinality(Connections) < PoolSize
  /\ UNCHANGED << store, status, poolVars, request, answer >>

\* The connection goes back to the pool between the two statements.
AccountFound(c) ==
  /\ Move(c, "sent", "found") /\ NeedsRows(c)
  /\ UNCHANGED << store, status, poolVars, request, answer >>

\* The database runs the statement.
Execute(c) ==
  /\ \/ Move(c, "sent", "served") /\ ~NeedsRows(c)
     \/ Move(c, "fetching", "served")
  /\ Settle(c, PostgresAnswer(request[c], status))
  /\ status' = Effect(request[c], status)
  /\ UNCHANGED << store, poolVars, request >>

\* The result is back.
Return(c) ==
  /\ Move(c, "served", "done")
  /\ UNCHANGED << store, status, poolVars, request, answer >>

\* Mutant: the except branch leaves no row, and no row means not found.
QueryFailsAsNotFound(c) ==
  /\ pc[c] \in {"ready", "found"} \union Busy /\ pc' = [pc EXCEPT ![c] = "done"]
  /\ Settle(c, NotFound(request[c]))
  /\ UNCHANGED << store, status, poolVars, request >>

(***************************************************************************)
(* No connection can be had, or it breaks before the result is back: the   *)
(* statement may have been executed, or may still be (OtherBlocks).        *)
(***************************************************************************)
QueryFails(c) ==
  /\ pc[c] \in {"ready", "found"} \union Busy /\ pc' = [pc EXCEPT ![c] = "done"]
  /\ Settle(c, Unavailable)
  /\ UNCHANGED << store, status, poolVars, request >>

-----------------------------------------------------------------------------
\* The others.

\* Another process blocks a card, or this one's statement after its connection broke.
OtherBlocks(card) ==
  /\ Postgres /\ status[card] # "blocked"
  /\ status' = [status EXCEPT ![card] = "blocked"]
  /\ UNCHANGED << store, poolVars, pc, request, answer >>

Unfinished == {c \in Calls : pc[c] \notin {"idle", "done", "lost"}}

\* The process ends with its calls, its pool and what it kept in memory.
ProcessRestarts ==
  /\ pool' = FALSE /\ pools' = 0 /\ lock' = NoCall /\ waiters' = << >>
  /\ pc' = [c \in Calls |-> IF c \in Unfinished THEN "lost" ELSE pc[c]]
  /\ answer' = [c \in Calls |-> IF c \in Unfinished THEN NoAnswer ELSE answer[c]]
  /\ status' = IF Postgres THEN status ELSE Seed
  /\ UNCHANGED << store, request >>

-----------------------------------------------------------------------------
\* What a call does next of itself, if the database answers or its connection breaks.
Own(c) ==
  \/ AnswerAtOnce(c)
  \/ UsePool(c) \/ TakeLock(c) \/ QueueAtLock(c) \/ LockGranted(c)
  \/ PoolCreated(c) \/ PoolFailed(c)
  \/ SendQuery(c) \/ AccountFound(c) \/ Execute(c) \/ Return(c) \/ QueryFails(c)

Next ==
  \/ \E c \in Calls : Call(c) \/ Own(c)
  \/ \E card \in Cards : OtherBlocks(card)
  \/ ProcessRestarts

Spec     == Init /\ [][Next]_vars
FairSpec == Spec /\ \A c \in Calls : WF_vars(Own(c))

-----------------------------------------------------------------------------
\* The invariant.

TypeOK ==
  /\ store \in {"memory", "postgres"} /\ status \in CardStatus
  /\ pool \in BOOLEAN /\ pools \in Nat
  /\ lock \in Calls \union {NoCall} /\ waiters \in Seq(Calls)
  /\ pc \in [Calls -> Location]
  /\ request \in [Calls -> Request \union {NoRequest}]
  /\ answer \in [Calls -> Envelope \union {NoAnswer}]

\* A call that has begun knows what it asks; one on its way to a database has one.
Asked ==
  \A c \in Calls :
    /\ pc[c] # "idle" => request[c] \in Request
    /\ pc[c] \notin {"idle", "called", "done", "lost"} => Postgres

\* The lock is held by the one call that opens the pool, while there is none.
LockInv ==
  /\ \A c \in Calls : pc[c] = "creating" <=> lock = c
  /\ lock # NoCall => ~pool
  /\ pools = IF pool THEN 1 ELSE 0

\* The queue at the lock: those who wait, all of them, each once.
QueueInv ==
  /\ \A i \in 1 .. Len(waiters) : pc[waiters[i]] = "waiting"
  /\ \A c \in Calls : pc[c] = "waiting" => \E i \in 1 .. Len(waiters) : waiters[i] = c
  /\ \A i, j \in 1 .. Len(waiters) : waiters[i] = waiters[j] => i = j

(***************************************************************************)
(* The inductive invariant: only the holder of the lock opens the pool,    *)
(* nobody holds it once there is one, and the queue at the lock is made of *)
(* the calls that wait, each of them once (_get_pool).                     *)
(***************************************************************************)
RepositoryInv == TypeOK /\ Asked /\ LockInv /\ QueueInv

-----------------------------------------------------------------------------
\* Properties.

(***************************************************************************)
(* A process opens one pool at most, however many first calls arrive       *)
(* together: the check of _pool outside the lock is repeated inside it.    *)
(***************************************************************************)
OnePool == pools <= 1

(***************************************************************************)
(* Whoever waits at the lock waits for a call that can move: one that is   *)
(* opening the pool, or the first of the queue while the lock is free.     *)
(* No failed attempt leaves the lock taken or a call out of the queue, so  *)
(* the lock itself never is what everybody waits for (_get_pool).          *)
(***************************************************************************)
LockPassesOn ==
  \A c \in Calls : pc[c] = "waiting" =>
    \E d \in Calls :
      \/ pc[d] = "creating"
      \/ lock = NoCall /\ waiters # << >> /\ d = Head(waiters) /\ pc[d] = "waiting"

Phase(location) ==
  CASE location = "idle" -> "none"
    [] location = "served" -> "carried_out"
    [] location = "done" -> "answered"
    [] location = "lost" -> "lost"
    [] OTHER -> "begun"

Promise == INSTANCE Bank
  WITH durable <- Postgres, phase <- [c \in Calls |-> Phase(pc[c])]

(***************************************************************************)
(* The repository keeps the bank's promise over either store: a call takes *)
(* effect once at most, between its start and its answer, its answer tells *)
(* the truth of that instant, and when it is refused for want of a card or *)
(* an account that is because there is none (the except branches, and the  *)
(* row-is-None checks after them).                                         *)
(***************************************************************************)
ImplementsBank == Promise!BankSpec

(***************************************************************************)
(* What a caller was told still holds, whatever fails afterwards and       *)
(* whoever else calls: a card said to be blocked is, until its store ends; *)
(* nothing the bank has is said to be missing; a listing shows the newest  *)
(* rows, as many as were asked for or all there are, over either store     *)
(* (block_card, list_transactions).                                        *)
(***************************************************************************)
AnswersStayTrue == Promise!AnswersHold

(***************************************************************************)
(* Every call ends: a failed attempt to open the pool passes the lock on,  *)
(* and a call that waits for the lock or for a connection gets it.  The    *)
(* process may end first.                                                  *)
(***************************************************************************)
CallsEnd == \A c \in Calls : pc[c] = "called" ~> pc[c] \in {"done", "lost"}
=============================================================================
