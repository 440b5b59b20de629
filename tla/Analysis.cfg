\* Safety, action properties and liveness of analysis and shutdown.
CONSTANTS
  None = None
  r1 = r1
  r2 = r2
  Runs = {r1, r2}
  Configs <- SomeConfigs
  MaxRestarts = 1
  MaxFaults = 1
SPECIFICATION FairSpec
CHECK_DEADLOCK FALSE
INVARIANTS
  TypeOK
  AwaitingIsJustified
  NoRunForgotten
  ClosedOnlyIdle
PROPERTIES
  AnalysisIsFinal
  OneTaskPerRun
  TasksEnd
  ShutdownEnds
