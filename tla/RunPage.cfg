\* Safety and action properties, and liveness.
CONSTANTS
  None = None
  r1 = r1
  r2 = r2
  Runs = {r1, r2}
  Earlier <- AnalysedBefore
  Visited <- PublishedAndStranded
  MaxFailures = 0
  Slots = {1, 2}
  MaxReloads = 1
  Lossy = TRUE
SPECIFICATION FairSpec
CHECK_DEADLOCK FALSE
INVARIANTS
  TypeOK
  TimelineIsExact
  NeverSilent
PROPERTIES
  StreamClosesAfterAll
  PageSettles
