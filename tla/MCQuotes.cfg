CONSTANTS
  xmpp = xmpp
  discord = discord
  Threads <- MCThreads
  MaxQuotes = 4
  MaxStops = 2
SYMMETRY MCSymmetry
SPECIFICATION Spec
INVARIANT IndexOrder
CHECK_DEADLOCK FALSE
