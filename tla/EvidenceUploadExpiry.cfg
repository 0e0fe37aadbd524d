SPECIFICATION Spec
CONSTANTS
  Attempts = 2
  MaxSubmissions = 1
  MaxFaults = 2
  None = None
PROPERTY
  EvidenceArrives
CHECK_DEADLOCK FALSE
