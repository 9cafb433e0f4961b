SPECIFICATION Spec
CONSTANTS
  Clients = {c1, c2, c3}
  Nobody = nobody
  MaxFd = 6
  Hung = {}
  Refused = {}
  Impatient = {c2}
INVARIANTS RepliesReachTheirClients
CHECK_DEADLOCK FALSE
