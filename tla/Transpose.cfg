SPECIFICATION Spec
CONSTANTS
  Sizes <- SomeSizes
INVARIANTS TypeOK FinishedBlocksAreRight EachBlockLoadsOnce
