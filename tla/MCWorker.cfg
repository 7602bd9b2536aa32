SPECIFICATION FairSpec
CONSTANTS
  Launches <- MCLaunches
  Faults <- FaultKinds
  MaxAttempt = 3
INVARIANTS
  TypeOK
  RunsItsAssignment
  ReportIsTheResult
  ArtifactsAreTrue
  ExitCodeOrReport
  NothingLeftOnlyIfPutFailed
PROPERTY
  ProcessEnds
