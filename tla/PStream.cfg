SPECIFICATION FairTidySpec
CONSTANTS
  Bufs = {b1, b2}
  Modes = {{"out"}, {"err"}}
  PipeIds = {1, 2, 3}
  None = None
  PipeCap = 1
  BufSz = 1
  Budget = 2
  Closable = {"out"}
  MaxOpens = 1
INVARIANTS NoDescriptorLeak EndsOwnedOnce OwnOutputOnly OnlyOthersDelay
PROPERTIES CloseTerminates
CHECK_DEADLOCK FALSE
