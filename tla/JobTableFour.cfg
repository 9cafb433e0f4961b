CONSTANTS
  MAXJOBS = 4
  Pids = {1, 2, 3, 4, 5}
  JidBound = 7
SPECIFICATION Spec
INVARIANT
  JidsFindTheirJobs
CHECK_DEADLOCK FALSE
