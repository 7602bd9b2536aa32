SPECIFICATION Spec
SYMMETRY MCSymmetry
CONSTANTS
  t1 = t1
  t2 = t2
  a = a
  b = b
  Strands <- MCStrands
  Assignments <- MCAssignments
  RunOf <- MCRunOf
  ActionOf <- MCActionOf
  Groups <- MCGroups
  Containers <- MCContainers
  MaxDepth = 3
INVARIANTS
  TypeOK
  UnderItsOwnAction
  NestedStepsArePlain
  GroupsAreKept
  NothingGoesUnrecorded
