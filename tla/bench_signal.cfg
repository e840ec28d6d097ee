SPECIFICATION Spec
CHECK_DEADLOCK FALSE
CONSTANTS
  BenchReps = 3
INVARIANT
  NothingDrivesOn
