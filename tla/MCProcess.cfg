CONSTANTS
  MaxEdits = 1
  Discord = "discord"
  Order <- MCOrder
  Alphabetical <- MCAlphabetical
  Posting <- MCPosting
  Serving <- MCServing
  Listening <- MCListening
  Fragile <- MCFragile
  Configs <- MCConfigs
  MaxReloads = 2
SPECIFICATION FairProcess
INVARIANTS EnabledAsConfigured EndsForAReason
PROPERTIES StopEndsAll ReconnectsAnew
CHECK_DEADLOCK FALSE
