SPECIFICATION InTimeSpec
CONSTANTS
  Clients = {c1, c2, c3}
  Nobody = nobody
  MaxFd = 4
  Hung = {c1}
  Refused = {c2}
  Impatient = {c2}
INVARIANTS TypeOK OwnConnections NoDescriptorLeaks RepliesReachTheirClients
PROPERTIES AllAreServed
CHECK_DEADLOCK FALSE
