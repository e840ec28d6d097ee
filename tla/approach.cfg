SPECIFICATION Spec
CONSTANTS
  NaN = NaN
  Inf = Inf
  None = None
  Timeout = 2
  Hold = 8
  Commands <- MCCommands
  StopDistance = 35
  SlowDistance = 90
  SectorHalfAngle = 45
  MinValidRange = 2
  MaxSpeed = 9
  MaxReverseSpeed = 3
  MaxYaw = 38
  MaxYawNear = 10
  AllowLateral = FALSE
  ScanTimeout = 2
  CmdTimeout = 2
  Requests <- MCRequests
  Scans <- MCScans
  Far = 100
  Clearance = 23
INVARIANTS
  TypeOK
  KeepsClearance
  CoastIsBounded
PROPERTIES
  ImplementsLease
