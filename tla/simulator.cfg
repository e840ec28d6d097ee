SPECIFICATION SimSpec
CHECK_DEADLOCK FALSE
CONSTANTS
  NoScan = NoScan
  ScanHz = 120
  CeilingHz = 400
  FirstHz = 100
  EarlyTrims = 2
  Gains = {6, 12, 14}
  FlatRates = {60, 130}
  MaxDrift = 3
  Window = 10
  MaxSpeed = 1
  DeadTime = 2
  MaxGap = 2
  Far = 12
  Bridges = {b1, b2}
  Watched = b1
  Turn = 3
  MaxRate = 1
  OdomTimeout = 2
  LookTime = 2
  MaxTickGap = 3
  Places = {0, 1, 2}
  MaxScans = 4
  PassHz = 12
  OdomHz = 2
  ImuHz = 5
  MaxHitch = 4
  MaxHitches = 2
INVARIANTS
  SimTypeOK
  MatchingRoomIsFiltered
  CommandTakesEffect
  WheelsFollowOdometry
  SoleUnlessTogether
  PoseIsTheMatchedMotion
PROPERTIES
  PacingSettles
  RatesRecover
