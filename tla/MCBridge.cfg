CONSTANTS
  Handlers <- MCAsBuilt
  MaxSaid = 2
  MaxStops = 1
SPECIFICATION FairSpec
INVARIANTS NoEcho InOrder AnswersMakeSense
PROPERTIES Bridged ComesToRest
CHECK_DEADLOCK FALSE
