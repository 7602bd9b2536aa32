SPECIFICATION Spec
CONSTANTS
  old = old
  new = new
  other = other
  Descriptors <- MCDescriptors
  VersionOf <- MCVersionOf
  Supported = 1
  NumPlaces = 2
  Commits <- MCCommits
  Fallbacks <- MCFallbacks
  Checkouts <- MCCheckouts
INVARIANTS
  TypeOK
  OnlySupportedVersions
  ContainerAgrees
  CommittedInterfaceTravels
  DescribesItsBinary
