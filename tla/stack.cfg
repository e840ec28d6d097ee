SPECIFICATION StackSpec
CONSTANTS
  NaN = NaN
  Inf = Inf
  None = None
  Timeout = 1
  Hold = 2
  Commands <- MCCommands
  StopDistance = 1
  SlowDistance = 2
  SectorHalfAngle = 45
  MinValidRange = 0
  MaxSpeed = 1
  MaxReverseSpeed = 0
  MaxYaw = 0
  MaxYawNear = 0
  AllowLateral = FALSE
  ScanTimeout = 0
  CmdTimeout = 1
  Requests <- MCCommands
  Scans <- MCScans
  MaxLoss = 1
INVARIANTS
  StackTypeOK
  GovernorStopsTheCar
  DeadmanStopsTheCar
  ReleasedMeansStopped
PROPERTIES
  DriverlessCarStops
