SPECIFICATION Spec
CONSTANTS
  Activities = {a1, a2}
  Drivers = {d1, d2}
  Routes = {r1, r2}
  Journeys = {j1, j2, j3}
  Handlers = {h1, h2}
  Operations <- AllOperations
  MaxProofs = 2
  None = None
SYMMETRY Symmetry
INVARIANTS
  TypeOK
  AssignmentAgreement
  JourneyBacked
  OneJourneyPerRoute
  ProofsNumbered
PROPERTIES
  RouteAdvances
  JourneyEndsWithRoute
  ImplementsOwnership
CHECK_DEADLOCK FALSE
