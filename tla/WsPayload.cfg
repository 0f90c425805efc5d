SPECIFICATION Spec
CONSTANTS
  Cases <- Mixed
  AllocSize = 2
  MaxMsg = 5
  MaxFrames = 2
  MaxSessions = 2
INVARIANTS DeliversInOrder TextJudged ThrowsOnlyWhenSpent BuffersSound
CHECK_DEADLOCK FALSE
