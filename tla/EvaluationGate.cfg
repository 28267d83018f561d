SPECIFICATION Spec
CONSTANTS
  IntentRuns <- MCIntentRuns
  RetrievalRuns <- MCRetrievalRuns
  UtteranceRuns <- MCUtteranceRuns
INVARIANT QuantilesOrdered
PROPERTY GatedBaselineHolds
