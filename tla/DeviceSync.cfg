SPECIFICATION Spec
CONSTANTS
  Slots = {q1, q2}
  Operations <- JourneyOperations
  Dashboard = {"start", "complete"}
  Unusable = {}
  Permissions = {TRUE, FALSE}
  Attempts = 2
  Limit = 2
  MaxCommands = 3
  MaxPoints = 1
  MaxFaults = 2
  None = None
INVARIANTS
  TypeOK
  OrderKept
PROPERTY
  ImplementsHandover
