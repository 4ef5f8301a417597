CONSTANTS
  Ids = {ss1, ss2}
  Callers <- MCCallers
  Catching <- MCCatching
  MaxSummoners = 2
  MaxRows = 3
SPECIFICATION LookupFairSpec
INVARIANTS Survives AnswersAreComplete
PROPERTY Answered
CHECK_DEADLOCK FALSE
