SPECIFICATION Spec
CONSTANTS
  Attempts = 2
  MaxSubmissions = 2
  MaxFaults = 2
  None = None
INVARIANTS
  TypeOK
  ProofBacked
  ProgressIsTrue
PROPERTIES
  DroppedWhenCompleted
  NotRepeated
  UploadsFinish
CHECK_DEADLOCK FALSE
