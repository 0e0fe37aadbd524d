SPECIFICATION Spec
CONSTANTS
  Dispatchers = {w1, w2}
  BatchSize = 2
  Attempts = 2
  MaxProofs = 2
  MaxFaults = 3
  MaxStalled = 1
  None = None
INVARIANTS
  TypeOK
  NothingForgotten
  PublishedOnce
PROPERTIES
  ImplementsDelivery
CHECK_DEADLOCK FALSE
