CONSTANTS
  xmppThread = xmppThread
  gatewayThread = gatewayThread
  Threads <- MCThreads
  Lengths <- MCLengths
  PieceLimit = 2
  MaxCalls = 2
  Horizon = 4
  NoThread = NoThread
SPECIFICATION FairSpec
INVARIANTS SameOrder Delivered
PROPERTIES Spacing BroadcastSpec LockReleased
