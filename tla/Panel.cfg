SPECIFICATION FairPanelSpec
CONSTANTS
  Turns = {t1, t2, t3}
  NoTurn = none
  Replicas = {r1, r2}
  Backends = {"in_memory", "redis"}
  HistoryLimit = 3
  Faults <- Fault
INVARIANTS HistoryWellFormed CarryOfLastAnswer PanelInv ContextUsedOnce MemoryInPanelOrder
PROPERTIES ImplementsTranscript PanelUnlocks
CHECK_DEADLOCK FALSE
