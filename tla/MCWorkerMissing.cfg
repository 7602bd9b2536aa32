SPECIFICATION Spec
CONSTANTS
  Launches <- OneLaunch
  Faults <- OnlyPut
  MaxAttempt = 1
INVARIANT
  SomeArtifact
