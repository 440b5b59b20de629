\* Safety of the warehouse adapter.
CONSTANTS
  None = None
  v1 = v1
  v2 = v2
  Validations = {v1, v2}
  MaxRows = 1
SPECIFICATION Spec
CHECK_DEADLOCK FALSE
INVARIANTS
  TypeOK
  OneSession
  AnswerIsTruthful
