CONSTANTS
  nn1 = nn1
  nn2 = nn2
  jj1 = jj1
  jj2 = jj2
  uu1 = uu1
  XNicks <- MCXNicks
  XJids <- MCXJids
  SharedJids <- MCSharedJids
  Ids <- MCIds
  DNicks <- MCDNicks
  EmptyNick = EmptyNick
  EmptyJid = EmptyJid
  NoNick = NoNick
  NoJid = NoJid
  MaxTime = 1
SPECIFICATION SeenSpec
VIEW View
INVARIANTS TypeOK Attribution ReverseSound PresentIsListed AnswersAreTrue
PROPERTY ArrivalIsNews
