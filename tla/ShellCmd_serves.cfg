SPECIFICATION FairShellSpec
CONSTANTS
  Bufs = {t1, t2}
  Modes = {{"out", "err"}}
  PipeIds = {1, 2, 3, 4}
  None = None
  PipeCap = 1
  BufSz = 1
  Budget = 1
  Closable = {}
  MaxOpens = 1
  Configs = {"missing", "nocmd", "cmd"}
  NDEBUG = FALSE
PROPERTIES ServesRequests
CHECK_DEADLOCK TRUE
