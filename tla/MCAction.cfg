SPECIFICATION FairSpec
CONSTANTS
  load = load
  use1 = use1
  use2 = use2
  Calls <- MCCalls
  FunctionOf <- MCFunction
  ArgumentsOf <- MCArguments
  RetryLookups = 1
  Launches <- MCLaunches
  Faults = {"putFails", "watchFails", "watchEnds", "bodyPanics", "kill"}
  MaxAttempt = 2
INVARIANTS
  TypeOK
  ReportsAreCoherent
  RetriesReportTheSame
  RetriesOnlyReplay
PROPERTY
  AttemptsEnd
