--------------------------- MODULE MCPlannedTools ---------------------------
(***************************************************************************)
(* The instance of PlannedTools that TLC checks: one account, two cards    *)
(* and a card number nobody has; a message that names nothing, one with an *)
(* IBAN and a card, and one that also names a card the patterns miss.      *)
(***************************************************************************)
EXTENDS PlannedPass, TLC

CONSTANTS card1, card2, iban1, unknown

MCCards        == {card1, card2}
MCAccounts     == {iban1}
MCUnknownIds   == {unknown}
MCOwner        == (card1 :> iban1) @@ (card2 :> iban1)
MCTransactions == iban1 :> 2
MCLimits       == {10}
MCEntityTypeOf == (iban1 :> "IBAN") @@ (card1 :> "CARD_LAST4") @@ (card2 :> "CARD_LAST4")
                  @@ (unknown :> "CARD_LAST4")

Nothing     == [written |-> {}, matched |-> {}]
InFull      == [written |-> {iban1, card2}, matched |-> {iban1, card2}]
InWords     == [written |-> {unknown, card1}, matched |-> {unknown}]
MCTexts     == {Nothing, InFull, InWords}
MCHistories == {<< >>, << InFull, InWords >>}

\* A turn of two intents that has come to its tool-driven one.
NothingPending == [intent |-> "None", entity_type |-> "None"]
MCTurn == [
  deployment |-> [fake |-> FALSE, session |-> TRUE, recursion_limit |-> 25],
  stored |-> [pending |-> NothingPending, stage |-> "None"], outcome |-> "running",
  carried_pending_request |-> NothingPending, carried_escalation_stage |-> "None",
  user_query |-> "request", intent |-> "CARD_ACTION", intent_source |-> "classified",
  extra_intents |-> << >>, pending_entity_request |-> NothingPending,
  escalation_stage |-> "None", draft_answer |-> << >>,
  collected_drafts |-> << "RAG_QUERY" >>, tool_agent_done |-> FALSE,
  worker_pass_done |-> FALSE, iteration_count |-> 0, final_answer |-> << >>,
  guardrail_flags |-> {}, steps |-> 7, answered |-> << "RAG_QUERY" >>, asked |-> {}
]

Propose(tool, id) == [tool |-> tool, id |-> id, limit |-> 10]
MCProposals == {
  Propose("block_card", card1), Propose("block_card", card2), Propose("block_card", unknown),
  Propose("get_balance", iban1), Propose("list_cards", iban1),
  Propose("open_support_ticket", unknown)
}
=============================================================================
