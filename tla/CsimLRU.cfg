SPECIFICATION Spec
CONSTANTS
  S = 2
  E = 2
  B = 2
  Memory = 12
  MaxAccesses = 5
INVARIANTS TypeOK OneLinePerTag QueueOrdersLines CountsAreLRU
PROPERTIES SecondAccessHits ImplementsLRU
CHECK_DEADLOCK FALSE
