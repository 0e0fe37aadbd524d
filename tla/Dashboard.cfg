SPECIFICATION Spec
CONSTANTS
  a1 = a1
  a2 = a2
  r1 = r1
  r2 = r2
  d1 = d1
  Activities = {a1, a2}
  Created = {a1}
  Drivers = {d1}
  Routes = {r1}
  PlannedDate <- Dates
  Loads = {l1, l2}
  Requests = {q1, q2}
  Reads = {m1, m2}
  MaxFaults = 1
  None = None
INVARIANTS
  TypeOK
  NumbersKept
  HeldAsConfirmed
PROPERTIES
  SavingEnds
  PageConverges
  ImplementsOwnership
