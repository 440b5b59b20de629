\* Safety and liveness of the DataHub adapter.
CONSTANTS
  None = None
  r1 = r1
  r2 = r2
  publisher = publisher
  reader = reader
  a = a
  b = b
  c = c
  d = d
  x = x
  y = y
  z = z
  Callers = {publisher, reader}
  Publisher = publisher
  Runs = {r1, r2}
  Saved <- Resumed
  Catalogues <- SomeCatalogues
  Origin <- First
  Field = a
  PageSize = 2
  MaxEdits = 1
  LateRuns = {r1}
  RetryCount = 1
SPECIFICATION Spec
CHECK_DEADLOCK FALSE
INVARIANTS
  ConfirmedWriteStands
  AcceptedReadIsWhole
PROPERTIES
  OperationsEnd
