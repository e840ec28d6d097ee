SPECIFICATION Spec
CHECK_DEADLOCK FALSE
CONSTANTS
  MaxSessions = 2
  Budget = 1
  Invocations = {p1, p2}
  MaxInvocations = 3
  Scales = {4, 7, 10, 11}
  Lengths = {0, 5, 10}
  Stages = {1, 2, 3}
  Stops = {1, 3, 18}
  BenchReps = 3
  HoldRounds = 3
  MaxRounds = 6
  MaxLate = 2
  Nothing = Nothing
  LatencyRepeats = 3
  PushTime = 3
  QuietTime = 1
  OdomPeriod = 2
  MaxLatency = 2
  SlipSteps = 4
  Hold = 2
  MaxGap = 2
  FrameMax = 3
  WindowLength = 6
  Warmup = 1
  MaxStreak = 1
  Threshold = 50
  ArenaHalf = 10
  Leg = 5
  StopCells = 2
  MaxCoast = 3
  LoopSteps = 20
  MaxAttempts = 3
  Rogues = {teleop, nav2}
  Companion = deadman
INVARIANTS
  OperatorTypeOK
  StopLeavesAtRest
  StopLeavesNothing
  KeptRunsAreOfOneScale
  SaidStoppedStaysStopped
  MeasuredBoundsAreSafe
  
  NoBurstPasses
  EveryReturnIsReported
