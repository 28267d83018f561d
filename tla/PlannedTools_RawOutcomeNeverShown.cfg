SPECIFICATION Spec
CONSTANTS
  card1 = card1
  card2 = card2
  iban1 = iban1
  unknown = unknown
  Cards <- MCCards
  Accounts <- MCAccounts
  UnknownIds <- MCUnknownIds
  Owner <- MCOwner
  Transactions <- MCTransactions
  Limits <- MCLimits
  EntityTypeOf <- MCEntityTypeOf
  Texts <- MCTexts
  Histories <- MCHistories
  Proposals <- MCProposals
  turn <- MCTurn
  NerInvents = FALSE
  MaxAgentIterations = 2
  MaxToolCallsPerHop = 2
CHECK_DEADLOCK FALSE
INVARIANT RawOutcomeNeverShown
