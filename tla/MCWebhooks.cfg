CONSTANTS
  Hooks <- MCHooks
  MaxHandlers = 2
  MaxRequests = 2
  MaxKills = 1
SPECIFICATION WebhookFairSpec
INVARIANT AckIsHonest
PROPERTIES EveryoneAnswered ListensAgain
CHECK_DEADLOCK FALSE
