CONSTANTS
  Threads = {xmpp, gateway}
  Users <- MCUsers
  AtNicks <- MCAtNicks
  Addresses <- MCAddresses
  Lifetime = 0
  MaxMessages = 2
  MaxTime = 1
  MaxStops = 1
SYMMETRY Symmetry
SPECIFICATION Spec
INVARIANTS Durable NothingLost SentOnce JidIsPrivate
PROPERTIES NothingLeft
CHECK_DEADLOCK FALSE
