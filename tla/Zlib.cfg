SPECIFICATION MCSpec
INVARIANTS RoundTrip   MessagesNeverFail
PROPERTIES GoesBackOnlyWithBitsInHand
CHECK_DEADLOCK FALSE
