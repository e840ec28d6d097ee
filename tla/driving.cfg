SPECIFICATION Spec
CHECK_DEADLOCK FALSE
CONSTANTS
  None = None
  Seconds = 15
  Confirm = 6
  Topics = {cmd_vel, cmd_vel_raw}
  Reps = 3
  MaxLoss = 2
  LegTicks = 6
  TurnTicks = 2
  StuckTicks = 2
  MaxLag = 1
  MaxLaps = 2
INVARIANTS
  TypeOK
  CarInTheDwellIsFound
  LeftStopped
  BlockedIsNoticed
