SPECIFICATION Spec
CONSTANTS
  c1 = c1
  c2 = c2
  c3 = c3
  stepA = stepA
  stepB = stepB
  noGroup = noGroup
  groupX = groupX
  Calls <- MCCalls
  Steps <- MCSteps
  Groups <- MCGroups
  StepOf <- MCStepOf
  GroupOf <- MCGroupOf
  UnitSteps <- MCUnit
  RetryLookups = 0
  MaxAttempt = 2
INVARIANTS
  TypeOK
  UniqueNames
  NamesIndependentOfSchedule
  ReplayIsSameStep
  RecordedStepsAreNotRerun
SYMMETRY Identical
