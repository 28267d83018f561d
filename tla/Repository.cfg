SPECIFICATION FairSpec
CONSTANTS
  call1 = call1
  call2 = call2
  call3 = call3
  card1 = card1
  card2 = card2
  iban1 = iban1
  iban2 = iban2
  unknown = unknown
  none = none
  NoCall = none
  NoRequest = none
  NoAnswer = none
  Calls <- MCCalls
  Cards <- MCCards
  Accounts <- MCAccounts
  UnknownIds <- MCUnknownIds
  Owner <- MCOwner
  Transactions <- MCTransactions
  Limits <- MCLimits
  Requests <- MCRequests
  Seed <- MCSeed
  PoolSize = 1
INVARIANT RepositoryInv
INVARIANT AnswersStayTrue
PROPERTY ImplementsBank
PROPERTY CallsEnd
