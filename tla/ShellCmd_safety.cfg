SPECIFICATION ShellSpec
CONSTANTS
  Bufs = {t1, t2}
  Modes = {{"out", "err"}}
  PipeIds = {1, 2, 3, 4}
  None = None
  PipeCap = 1
  BufSz = 1
  Budget = 2
  Closable = {}
  MaxOpens = 1
  Configs = {"cmd", "malformed"}
  NDEBUG = TRUE
SYMMETRY Symmetry
INVARIANTS IdleHoldsNothing ReplyCarriesOutput StandstillNeedsFullStderr SecondReplyOnlyAfterParseError
CHECK_DEADLOCK FALSE
