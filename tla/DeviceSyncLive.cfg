SPECIFICATION Spec
CONSTANTS
  Slots = {q1, q2}
  Operations <- ConflictingOperations
  Dashboard = {}
  Unusable = {2}
  Permissions = {TRUE}
  Attempts = 2
  Limit = 2
  MaxCommands = 3
  MaxPoints = 2
  MaxFaults = 1
  None = None
PROPERTIES
  OutboxDrains
  PointsArrive
  ViewConverges
