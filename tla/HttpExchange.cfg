SPECIFICATION Spec
CONSTANTS
  HMax = 11
  NoLength = 35
  Traffic <- Cases
  Callers = {"GetHttp", "Write", "Query", "read", "header"}
  AllocSize = 4
  MaxRead = 6
INVARIANTS ReadsWhatWasSent FailsForCause NoNeedlessWait KeepAliveAgrees OneBuffer
CHECK_DEADLOCK FALSE
