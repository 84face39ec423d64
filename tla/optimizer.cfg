SPECIFICATION Spec
CONSTANTS
  Actions = {"draft", "send"}
  Candidates = {"slm", "code"}
  Kinds <- MCKinds
  Thresholds <- MCThresholds
  MaxRecords = 3
  MaxHistory = 2
INVARIANT BatchAgrees
PROPERTY PromotedOnConduct
PROPERTY FailureNeverPromotes
CHECK_DEADLOCK FALSE
