SPECIFICATION Spec
CONSTANTS
  Radius = 3
  Tolerance = 1
  MaxAge = 1
  MaxAccuracy = 2
  Distances <- Places
  Accuracies <- ReportedAccuracies
  Offsets <- ClockOffsets
  Horizon = 2
  MaxReadings = 2
  MaxArrivals = 1
  MaxFaults = 1
  None = None
INVARIANTS TypeOK RefusedForAReason ArrivalWasReal
PROPERTIES ScreenCorrected ReadingsArrive
