SPECIFICATION Spec
CONSTANTS
  c1 = c1
  c2 = c2
  c3 = c3
  stepA = stepA
  stepB = stepB
  noGroup = noGroup
  groupX = groupX
  Calls <- UnitCalls
  Steps <- UnitStepsAB
  Groups <- UnitGroups
  StepOf <- UnitStepOf
  GroupOf <- UnitGroupOf
  UnitSteps <- UnitUnit
  RetryLookups = 0
  MaxAttempt = 2
INVARIANT
  RecordedStepsAreReplayed
