SPECIFICATION Spec
CONSTANTS
  Launches <- OneLaunch
  Faults <- OnlyWatch
  MaxAttempt = 1
INVARIANT
  OneArtifact
