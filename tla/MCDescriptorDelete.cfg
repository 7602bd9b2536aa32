SPECIFICATION Spec
CONSTANTS
  old = old
  new = new
  other = other
  Descriptors <- MCDescriptors
  VersionOf <- MCVersionOf
  Supported = 1
  NumPlaces = 2
  Commits <- AloneCommits
  Fallbacks <- AloneFallbacks
  Checkouts <- AloneCheckouts
INVARIANT
  SafeToDelete
