---------------------------- MODULE BankingTools ----------------------------
(***************************************************************************)
(* The bank's tools as pure operators: what a call of each answers and     *)
(* what it does to the cards, given their status when it is carried out.   *)
(* An answer keeps what callers branch on: ok, the error code, and the     *)
(* rows of the data.  Amounts, names and dates are left out; a ticket has  *)
(* no data, for its number is drawn at random and stored nowhere.          *)
(***************************************************************************)
EXTENDS Integers

CONSTANTS
  Cards, Accounts,     \* last four digits, IBANs: those the bank knows
  UnknownIds,          \* identifiers it does not
  Owner,               \* the account of each card
  Transactions,        \* how many transactions each account has
  Limits               \* the limits a model may pass to list_transactions

ASSUME ToolsAssumption ==
  /\ (Cards \union Accounts) \intersect UnknownIds = {} /\ Cards \intersect Accounts = {}
  /\ Owner \in [Cards -> Accounts]
  /\ Transactions \in [Accounts -> Nat]
  /\ Limits \subseteq Int

Status     == {"active", "blocked"}
CardStatus == [Cards -> Status]

\* Tools called with an IBAN; block_card takes a card, open_support_ticket neither.
AccountTool == {"get_balance", "list_transactions", "list_cards"}
Tool        == AccountTool \union {"block_card", "open_support_ticket"}
Id          == Cards \union Accounts \union UnknownIds
Request     == [tool : Tool, id : Id, limit : Limits]

\* The {"ok": ..., "error": ..., "data": ...} envelope.
Ok(data)      == [ok |-> TRUE, error |-> "", data |-> data]
Refusal(code) == [ok |-> FALSE, error |-> code, data |-> {}]
Unavailable   == Refusal("BANKING_SERVICE_UNAVAILABLE")
ErrorCode     == {"CARD_NOT_FOUND", "ACCOUNT_NOT_FOUND", "BANKING_SERVICE_UNAVAILABLE"}

\* The rows: a transaction by its age, the balance of an account, a card with its status.
Row      == ({"row"} \X Nat) \union ({"balance"} \X Accounts) \union (Cards \X Status)
Envelope == [ok : BOOLEAN, error : ErrorCode \union {""}, data : SUBSET Row]

NotFound(request) ==
  Refusal(IF request.tool = "block_card" THEN "CARD_NOT_FOUND" ELSE "ACCOUNT_NOT_FOUND")

\* The identifier is one the tool's table has a row for.
Known(request) ==
  CASE request.tool \in AccountTool -> request.id \in Accounts
    [] request.tool = "block_card" -> request.id \in Cards
    [] OTHER -> TRUE

\* The newest n transactions of an account.
Newest(n) == {<<"row", i>> : i \in 1 .. n}

\* Mutant: a negative limit is no limit.
SlicedUnlessNegative(n, limit) == IF limit >= n \/ limit < 0 THEN n ELSE limit

\* transactions[:limit]: a negative limit drops that many from the end.
Sliced(n, limit) ==
  CASE limit >= n -> n
    [] limit < 0  -> IF n + limit > 0 THEN n + limit ELSE 0
    [] OTHER -> limit

Data(request, status) ==
  CASE request.tool = "get_balance" -> {<<"balance", request.id>>}
    [] request.tool = "list_transactions" ->
         Newest(Sliced(Transactions[request.id], request.limit))
    [] request.tool = "list_cards" ->
         {<<card, status[card]>> : card \in {c \in Cards : Owner[c] = request.id}}
    [] request.tool = "block_card" -> {<<request.id, "blocked">>}
    [] OTHER -> {}

\* The one tool that changes anything the bank keeps.
Effect(request, status) ==
  IF request.tool = "block_card" /\ request.id \in Cards
  THEN [status EXCEPT ![request.id] = "blocked"]
  ELSE status

\* InMemoryBankingRepository's answer.
InMemoryAnswer(request, status) ==
  IF Known(request) THEN Ok(Data(request, status)) ELSE NotFound(request)

(***************************************************************************)
(* PostgresBankingRepository's: list_cards asks no account whether it      *)
(* exists, and a LIMIT below zero is an error of the statement.            *)
(***************************************************************************)
PostgresAnswer(request, status) ==
  CASE request.tool = "list_cards" /\ ~Known(request) -> Ok({})
    [] request.tool = "list_transactions" /\ Known(request) /\ request.limit < 0 -> Unavailable
    [] OTHER -> InMemoryAnswer(request, status)
=============================================================================
