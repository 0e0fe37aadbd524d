SPECIFICATION Spec
CONSTANTS
  Syncs = {s1, s2}
  Tokens = {t1, t2, t3, t4, t5}
  MaxFaults = 3
  None = None
INVARIANTS
  TypeOK
  StoredAccepted
  ThrownOutForAReason
  LeftStaysOut
PROPERTIES
  ComesToSynchronise
