SPECIFICATION Spec
CONSTANTS
  Clients = {c1, c2}
  Nobody = nobody
  Impatient = {c1}
  HeaderSets <- SomeHeaders
INVARIANTS TypeOK RepliesAreRight
PROPERTIES AllAreServed
CHECK_DEADLOCK FALSE
