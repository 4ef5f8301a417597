CONSTANTS
  Operators <- MCOperators
  Words <- MCWords
  MaxWords = 6
SPECIFICATION Spec
INVARIANT Understood
CHECK_DEADLOCK FALSE
