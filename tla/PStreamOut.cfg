SPECIFICATION FairOutSpec
CONSTANTS
  Bufs = {b1, b2}
  Duplex = {b1}
  BufSz = 1
  PipeCap = 1
  Budget <- Enough
INVARIANTS NothingLost OnlyOthersHold
PROPERTIES KilledOnlyAfterExit CloseEnds
CHECK_DEADLOCK FALSE
