SPECIFICATION FairExecSpec
CONSTANTS
  Threads = {t1, t2}
INVARIANTS ReportIsTrue
PROPERTIES OpenReturns
CHECK_DEADLOCK TRUE
