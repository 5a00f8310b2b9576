SPECIFICATION FairSpec
CHECK_DEADLOCK FALSE
PROPERTIES
  DecisionReachesWaiter ClaimableRuns
