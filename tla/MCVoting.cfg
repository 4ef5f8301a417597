CONSTANTS
  Threads = {xmpp, gateway}
  People <- MCPeople
  Themes <- MCThemes
  MultiThemes <- MCMultiThemes
  PollIds <- MCPollIds
  IdOf <- MCIdOf
  Invitees <- MCInvitees
  NumOptions = 2
  MaxPolls = 2
  NoPoll = NoPoll
SYMMETRY Symmetry
SPECIFICATION Spec
INVARIANTS SingleChoice InvitedOnce
CHECK_DEADLOCK FALSE
