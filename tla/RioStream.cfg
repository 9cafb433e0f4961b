SPECIFICATION ConnectionSpec
CONSTANTS
  Addresses = {v4, v6}
  MaxList = 2
  Bytes = {x, nl}
  NL = nl
  MaxMessage = 5
  Capacity = 3
  BufSize = 2
  MaxLine = 4
  Resets = TRUE
INVARIANTS TypeOK InOrder NothingIsLeftOpen
PROPERTIES ReturnsWhole WalksEndRight EverythingArrives
CHECK_DEADLOCK FALSE
