CONSTANTS
  MAXJOBS = 2
  Pids = {1, 2}
  JidBound = 2
  ForkErrors = TRUE
  Interrupts = {"INT", "TSTP"}
SPECIFICATION WaitingSpec
PROPERTY
  WaitEnds ZombiesAreReaped ImplementsJobControl
