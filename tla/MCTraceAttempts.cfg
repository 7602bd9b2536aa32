SPECIFICATION FairSpec
CONSTANTS
  c1 = c1
  c2 = c2
  c3 = c3
  stepA = stepA
  stepB = stepB
  noGroup = noGroup
  groupX = groupX
  Calls <- PairCalls
  Steps <- MCSteps
  Groups <- PairGroups
  StepOf <- PairStepOf
  GroupOf <- PairGroupOf
  UnitSteps <- MCUnit
  RetryLookups = 3
  MaxAttempt = 3
INVARIANTS
  RecordedArtifactsExist
  EveryCallHasItsOwnRun
PROPERTIES
  CallsSettle
  ReplaysAreStable
  RecordingsAtHandAreKept
  ImplementsMemo
