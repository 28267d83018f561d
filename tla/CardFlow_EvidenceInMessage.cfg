SPECIFICATION Spec
CONSTANTS
  a = a
  b = b
  x = x
  NoCard = nocard
  NoMessage = nomessage
  Cards <- MCCards
  OwnCards <- MCOwn
  BankCards <- MCOwn
  Messages <- MCMessages
  KeptMessages = 3
  Faults = {}
INVARIANT EvidenceInMessage
