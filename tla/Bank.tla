-------------------------------- MODULE Bank --------------------------------
(***************************************************************************)
(* What the callers of a banking repository may rely on, whichever store   *)
(* is behind it: a call is carried out at most once, at one instant        *)
(* between its start and its answer; its answer tells the truth of that    *)
(* instant, or says BANKING_SERVICE_UNAVAILABLE, which leaves open whether *)
(* it was carried out.  Nothing is ever unblocked, unless the store was    *)
(* the memory of a process that ended.                                     *)
(***************************************************************************)
EXTENDS BankingTools

CONSTANTS Calls, Requests, NoRequest, NoAnswer, Seed

VARIABLES
  durable,   \* the store outlives the process and is shared with others
  status,    \* of the cards
  phase,     \* how far each call has come
  request, answer

bankVars == << durable, status, phase, request, answer >>

BankInit ==
  /\ durable \in BOOLEAN /\ status = Seed
  /\ phase = [c \in Calls |-> "none"]
  /\ request = [c \in Calls |-> NoRequest]
  /\ answer = [c \in Calls |-> NoAnswer]

Begin(c) ==
  /\ phase[c] = "none" /\ phase' = [phase EXCEPT ![c] = "begun"]
  /\ \E r \in Requests : request' = [request EXCEPT ![c] = r]
  /\ UNCHANGED << durable, status, answer >>

\* Carried out: the effect and the answer are of one instant; it may be back at once.
CarryOut(c) ==
  /\ phase[c] = "begun"
  /\ \E p \in {"carried_out", "answered"} : phase' = [phase EXCEPT ![c] = p]
  /\ \E promised \in {InMemoryAnswer(request[c], status),
                      PostgresAnswer(request[c], status)} :
       answer' = [answer EXCEPT ![c] = promised]
  /\ status' = Effect(request[c], status)
  /\ UNCHANGED << durable, request >>

Answer(c) ==
  /\ phase[c] = "carried_out" /\ phase' = [phase EXCEPT ![c] = "answered"]
  /\ UNCHANGED << durable, status, request, answer >>

\* No answer could be had, whether or not the call was carried out.
GiveUp(c) ==
  /\ durable
  /\ phase[c] \in {"begun", "carried_out"} /\ phase' = [phase EXCEPT ![c] = "answered"]
  /\ answer' = [answer EXCEPT ![c] = Unavailable]
  /\ UNCHANGED << durable, status, request >>

\* Someone else blocks a card.
OtherBlocks(card) ==
  /\ durable
  /\ status' = [status EXCEPT ![card] = "blocked"]
  /\ UNCHANGED << durable, phase, request, answer >>

\* The process ends with its unfinished calls, and with the store if it held it.
Restart ==
  /\ phase' = [c \in Calls |->
                 IF phase[c] \in {"begun", "carried_out"} THEN "lost" ELSE phase[c]]
  /\ answer' = [c \in Calls |->
                  IF phase[c] \in {"begun", "carried_out"} THEN NoAnswer ELSE answer[c]]
  /\ status' = IF durable THEN status ELSE Seed
  /\ UNCHANGED << durable, request >>

BankNext ==
  \/ \E c \in Calls : Begin(c) \/ CarryOut(c) \/ Answer(c) \/ GiveUp(c)
  \/ \E card \in Cards : OtherBlocks(card)
  \/ Restart

BankSpec == BankInit /\ [][BankNext]_bankVars

\* The rows a listing with this limit may consist of, of total ones: the newest
\* n, where n is what was asked for or all there are; one that asks for fewer
\* than none is not answered with everything.
RowsFit(rows, limit, total) ==
  \E n \in 0 .. total :
    /\ rows = Newest(n)
    /\ limit >= 0 => n <= limit /\ (n = limit \/ n = total)
    /\ limit < 0 => n < total \/ n = 0

(***************************************************************************)
(* What was answered still holds: a card the caller was told is blocked    *)
(* stays blocked for as long as the store exists, a card or an account is  *)
(* only said to be missing when the bank has none such, and a listing that *)
(* succeeds shows rows that fit its limit, which the model that calls may  *)
(* choose out of any range (block_card, list_transactions, and the         *)
(* row-is-None checks).                                                    *)
(***************************************************************************)
AnswersHold ==
  \A c \in Calls : phase[c] \in {"carried_out", "answered"} =>
    /\ request[c].tool = "block_card" /\ answer[c].ok =>
         request[c].id \in Cards /\ (durable => status[request[c].id] = "blocked")
    /\ answer[c].error \in {"CARD_NOT_FOUND", "ACCOUNT_NOT_FOUND"} => ~Known(request[c])
    /\ request[c].tool = "list_transactions" /\ answer[c].ok =>
         RowsFit(answer[c].data, request[c].limit, Transactions[request[c].id])
=============================================================================
