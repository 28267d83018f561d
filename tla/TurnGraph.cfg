SPECIFICATION FairSpec
CONSTANTS
  MaxAgentIterations = 2
  Deployments <- MCDeployments
  RawExtras <- MCRawExtras
INVARIANTS OneOpenThread ScriptRunsNoTool DetourKeepsStage NoIntentServedTwice EveryAnswerDelivered QuestionRemembered SlotFillCompletes TurnIsShort IInv
PROPERTIES ImplementsScript TurnAnswered
