SPECIFICATION Spec
CONSTANTS
  Slots = {q1, q2}
  Operations <- JourneyOperations
  Dashboard = {}
  Unusable = {}
  Permissions = {TRUE}
  Attempts = 2
  Limit = 2
  MaxCommands = 3
  MaxPoints = 1
  MaxFaults = 1
  None = None
PROPERTY
  TrackingEnds
