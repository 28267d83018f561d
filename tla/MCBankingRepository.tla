------------------------ MODULE MCBankingRepository ------------------------
(***************************************************************************)
(* The instance of BankingRepository that TLC checks: two accounts, one    *)
(* with two cards, the other with none; three calls and a pool of one      *)
(* connection, so that calls wait for the lock and for the connection.     *)
(***************************************************************************)
EXTENDS BankingRepository, TLC

CONSTANTS call1, call2, call3, none, card1, card2, iban1, iban2, unknown

MCCalls        == {call1, call2, call3}
MCCards        == {card1, card2}
MCAccounts     == {iban1, iban2}
MCUnknownIds   == {unknown}
MCOwner        == (card1 :> iban1) @@ (card2 :> iban1)
MCTransactions == (iban1 :> 2) @@ (iban2 :> 0)
MCSeed         == (card1 :> "active") @@ (card2 :> "blocked")
MCLimits       == {-1, 1, 10}

Ask(tool, id, limit) == [tool |-> tool, id |-> id, limit |-> limit]

MCRequests == {
  Ask("block_card", card1, 10),
  Ask("block_card", unknown, 10),
  Ask("list_cards", iban1, 10),
  Ask("list_cards", unknown, 10),
  Ask("list_transactions", iban1, -1),
  Ask("list_transactions", iban1, 1),
  Ask("open_support_ticket", unknown, 10)
}
=============================================================================
