CONSTANTS
  Pages <- MCPages
  Patterns <- MCPatterns
  Broken <- MCBroken
  Matches <- MCMatches
  LoweredMatches <- MCMatches
  MaxURLsInMessage = 2
  MaxSites = 3
  MaxMessages = 2
  MaxRules = 1
  MaxStops = 1
SPECIFICATION PreviewSpec
INVARIANT LoggedAndShown
CHECK_DEADLOCK FALSE
