\* Analysis and publication of two runs of one key.
CONSTANTS
  None = None
  r1 = r1
  r2 = r2
  k1 = k1
  c1 = c1
  repoA = repoA
  serverA = serverA
  Runs = {r1, r2}
  MaxRestarts = 1
  MaxFaults = 1
  AnalysisConfigs <- Live
  Keys = {k1}
  KeyOf <- OneKey
  LiveKeys = {k1}
  AgingRuns = {r1}
  Clients = {c1}
  Repos = {repoA}
  Servers = {serverA}
  PublicationConfigs <- BothSinks
  MaxPulls = 1
SPECIFICATION Spec
CHECK_DEADLOCK FALSE
INVARIANTS
  EffectsAreJustified
  FailedRunsAreClean
