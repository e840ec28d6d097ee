SPECIFICATION Spec
CONSTANTS
  NaN = NaN
  Inf = Inf
  None = None
  Timeout = 10
  Hold = 40
  Commands <- MCCommands
INVARIANTS
  TypeOK
  SilenceIsAnswered
  HoldSendsItsQuota
PROPERTIES
  NeverInterrupts
