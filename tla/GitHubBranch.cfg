\* Safety and convergence of the GitHub publisher.
CONSTANTS
  None = None
  a = a
  o = o
  ArtifactPaths = {a}
  OtherPaths = {o}
  Bases <- SomeBases
  Strangers <- SomeStrangers
  MaxEdits = 2
  MaxFaults = 2
SPECIFICATION Spec
CHECK_DEADLOCK FALSE
INVARIANTS
  TypeOK
  ReturnedBranchIsExact
PROPERTIES
  RetryConverges
