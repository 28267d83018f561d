SPECIFICATION Spec
CONSTANTS
  MaxAgentIterations = 2
  Deployments <- MCDeployments
  RawExtras <- MCRawExtras
INVARIANT LimitReported
