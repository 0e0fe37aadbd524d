SPECIFICATION Spec
CONSTANTS
  Activities = {a1, a2}
  Drivers = {d1}
  Routes = {r1}
  Journeys = {j1}
  Handlers = {h1, h2}
  Operations <- AllOperations
  MaxProofs = 1
  None = None
PROPERTY
  FinalIsFinal
CHECK_DEADLOCK FALSE
