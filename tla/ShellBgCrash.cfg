CONSTANTS
  MAXJOBS = 2
  Pids = {1, 2}
  JidBound = 2
  ForkErrors = FALSE
  Interrupts = {}
SPECIFICATION Spec
INVARIANT
  NoCrash
