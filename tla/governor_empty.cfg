SPECIFICATION Spec
CONSTANTS
  NaN = NaN
  Inf = Inf
  None = None
  StopDistance = 35
  SlowDistance = 90
  SectorHalfAngle = 45
  MinValidRange = 2
  MaxSpeed = 35
  MaxReverseSpeed = 10
  MaxYaw = 150
  MaxYawNear = 40
  AllowLateral = FALSE
  ScanTimeout = 2
  CmdTimeout = 1
  Requests <- MCRequests
  Scans <- MCScans
PROPERTIES
  EmptyScanStops
