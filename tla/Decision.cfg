\* Every gate on the way to an approval.
CONSTANTS
  None = None
  w1 = w1
  w2 = w2
  Requests <- SomeRequests
  Reserved <- SomeReserved
  Phrased <- SomePhrased
  Edits = {"model", "yaml", "test", "migration", "pr", "rollback", "manifest"}
  Bindings = {w1, w2}
  MaxAge = 1
  MaxTime = 2
SPECIFICATION Spec
CHECK_DEADLOCK FALSE
INVARIANTS
  GatesAgree
  ApprovedIsReviewed
