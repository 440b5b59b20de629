\* Safety, action properties, refinement, and liveness with an owner who resumes.
CONSTANTS
  None = None
  r1 = r1
  r2 = r2
  k1 = k1
  repoA = repoA
  repoB = repoB
  serverA = serverA
  serverB = serverB
  c1 = c1
  c2 = c2
  Runs = {r1, r2}
  Keys = {k1}
  KeyOf <- OneKey
  LiveKeys = {k1}
  AgingRuns = {r1}
  Clients = {c1, c2}
  Repos = {repoA, repoB}
  Servers = {serverA, serverB}
  Configs <- SomeConfigs
  MaxRestarts = 2
  MaxPulls = 2
SPECIFICATION RecoverySpec
CHECK_DEADLOCK FALSE
INVARIANTS
  TypeOK
  CompletedRunHasSealedReceipt
  ReceiptIsTruthful
  EffectsOnlyWhereBound
  LiveWorkIsAuthorized
  OwnerCanResume
  MutationsInOrder
PROPERTIES
  SealedForEver
  CheckpointsOnlyGrow
  NoDuplicatePull
  ImplementsContract
  ResumedIsSealed
