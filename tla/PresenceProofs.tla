--------------------------- MODULE PresenceProofs ---------------------------
(***************************************************************************)
(* The properties of Presence, and of LastSeen, which is composed with it, *)
(* for any room, any number of Discord users and any names: proofs that    *)
(* TLAPS checks.                                                           *)
(*                                                                         *)
(* The properties are not inductive one by one.  ReverseSound survives a   *)
(* departure only because Attribution says who it was that left, and       *)
(* PresentIsListed survives an arrival only because a jid that is not      *)
(* shared has one owner.  IInv adds what is missing: a nick that waits for *)
(* the second half of its rename is in the room, and jids that are not     *)
(* shared are unique.                                                      *)
(*                                                                         *)
(* LastSeen's step is a step of Presence, so IInv holds of it as well.     *)
(* SeenIInv adds that the table agrees with what was heard of every jid    *)
(* that is not torn, and that there is something to agree with for whoever *)
(* is in the room or has ever been under a nick.                           *)
(***************************************************************************)
EXTENDS LastSeen, TLAPS

RenamingIsPresent == renaming \subseteq Occupants

UniqueJids ==
  \A n, m \in XNicks :
    room[n] = room[m] /\ room[n] \in XJids \ SharedJids => n = m

IInv ==
  /\ TypeOK
  /\ Attribution
  /\ ReverseSound
  /\ PresentIsListed
  /\ RenamingIsPresent
  /\ UniqueJids

-----------------------------------------------------------------------------
\* One branch of Bot::OnPresence, run for known arguments, keeps the two maps
\* and the notice of their types.
LEMMA OnPresenceType ==
  ASSUME TypeOK,
         NEW nick \in Nicks, NEW jid \in Jids,
         NEW online \in BOOLEAN, NEW newNick \in Nicks,
         OnPresence(nick, jid, online, newNick)
  PROVE  /\ nick2jid' \in [Nicks -> Jids \cup {NoJid}]
         /\ jid2nick' \in [Jids -> Nicks \cup {NoNick}]
         /\ notice' \in [nick : Nicks \cup {NoNick}, jid : Jids \cup {NoJid},
                         connected : BOOLEAN]
<1>1. CASE WentOnline(nick, jid)
  <2>1. (nick2jid[nick] = NoJid) \in BOOLEAN
    OBVIOUS
  <2> QED BY <1>1, <2>1 DEF TypeOK, WentOnline, Tell
<1>2. CASE WentOffline(nick, jid)
  BY <1>2 DEF TypeOK, WentOffline, Tell
<1>3. CASE Renamed(nick, jid, newNick)
  BY <1>3 DEF TypeOK, Renamed, Tell
<1> QED BY <1>1, <1>2, <1>3 DEF OnPresence

\* The gateway has touched the entry of a nick, which then is no jid of the room.
Taken(n) == nick2jid'[n] \notin XJids /\ (n \in XNicks => n \in fromDiscord')

\* Presence that comes from Discord leaves the reverse map of the room as it was;
\* of the common map it can change the entry of its own nick only, and never to a
\* jid of the room.
LEMMA DiscordLeavesRoomAlone ==
  ASSUME TypeOK,
         NEW nick \in DNicks \cup {EmptyNick}, NEW jid \in Ids \cup {EmptyJid},
         NEW online \in BOOLEAN,
         SendDiscordPresense(nick, jid, online)
  PROVE  /\ \A n \in Nicks : nick2jid'[n] = nick2jid[n] \/ Taken(n)
         /\ \A j \in XJids : jid2nick'[j] = jid2nick[j]
         /\ notice'.nick = nick /\ notice'.jid = jid
         /\ nick \in XNicks => nick \in fromDiscord'
         /\ fromDiscord \subseteq fromDiscord'
         /\ fromDiscord' \subseteq XNicks
<1>1. /\ nick \in Nicks /\ jid \in Jids /\ jid \notin XJids /\ NoJid \notin XJids
      /\ XNicks \subseteq Nicks /\ XJids \subseteq Jids
      /\ fromDiscord' = fromDiscord \cup (XNicks \cap {nick})
  BY PresenceAssumption DEF Nicks, Jids, SendDiscordPresense
<1>2. WentOnline(nick, jid) \/ WentOffline(nick, jid)
  BY DEF SendDiscordPresense, OnPresence
<1>3. \A n \in Nicks : nick2jid'[n] = nick2jid[n] \/ (n = nick /\ nick2jid'[n] \notin XJids)
  BY <1>1, <1>2 DEF WentOnline, WentOffline, TypeOK
<1>4. \A j \in XJids : jid2nick'[j] = jid2nick[j]
  BY <1>1, <1>2 DEF WentOnline, WentOffline, TypeOK
<1>5. notice'.nick = nick /\ notice'.jid = jid
  BY <1>2 DEF WentOnline, WentOffline, Tell
<1>6. fromDiscord' \subseteq XNicks
  BY <1>1 DEF TypeOK
<1> QED BY <1>1, <1>3, <1>4, <1>5, <1>6 DEF Taken

\* What a step that leaves the room and its part of the maps alone preserves.
LEMMA RoomUnchanged ==
  ASSUME IInv, TypeOK',
         UNCHANGED <<room, renaming>>, fromDiscord \subseteq fromDiscord',
         \A n \in Nicks : nick2jid'[n] = nick2jid[n] \/ Taken(n),
         \A j \in XJids : jid2nick'[j] = jid2nick[j]
  PROVE  IInv'
<1>1. Attribution'
  BY DEF IInv, Attribution, Occupants, Taken, Nicks
<1>2. ReverseSound'
  BY DEF IInv, ReverseSound, Occupants
<1>3. PresentIsListed'
  BY DEF IInv, TypeOK, PresentIsListed, Occupants
<1>4. RenamingIsPresent' /\ UniqueJids'
  BY DEF IInv, RenamingIsPresent, UniqueJids, Occupants
<1> QED BY <1>1, <1>2, <1>3, <1>4 DEF IInv

\* What ArrivalIsNews says of one nick and one step.
IsNews(n) ==
  (notice'.connected /\ notice'.nick = n)
    <=> (n \in Occupants' \ Occupants /\ Occupants \subseteq Occupants')

-----------------------------------------------------------------------------
(* The XMPP stream, action by action.                                      *)

LEMMA EnterStep ==
  ASSUME IInv, NEW n \in XNicks, NEW j \in XJids, Enter(n, j)
  PROVE  IInv' /\ \A k \in XNicks \ fromDiscord' : IsNews(k)
<1>1. /\ room[n] = NoJid /\ room \in [XNicks -> XJids \cup {NoJid}]
      /\ nick2jid[n] \notin XJids /\ (n \notin fromDiscord => nick2jid[n] = NoJid)
      /\ n \in Nicks /\ j \in Jids /\ j # NoJid /\ NoJid \notin XJids
      /\ nick2jid' = IF nick2jid[n] = NoJid THEN [nick2jid EXCEPT ![n] = j] ELSE nick2jid
      /\ jid2nick' = [jid2nick EXCEPT ![j] = n]
      /\ notice' = [nick |-> n, jid |-> j, connected |-> nick2jid[n] = NoJid]
      /\ room' = [room EXCEPT ![n] = j]
      /\ UNCHANGED <<renaming, users, fromDiscord>>
  BY PresenceAssumption
  DEF IInv, TypeOK, Attribution, Enter, OnPresence, WentOnline, Tell, Occupants, Nicks, Jids
<1>2. TypeOK'
  <2>1. (nick2jid[n] = NoJid) \in BOOLEAN
    OBVIOUS
  <2> QED BY <1>1, <2>1 DEF IInv, TypeOK
<1>3. Attribution'
  BY <1>1 DEF IInv, TypeOK, Attribution, Nicks, Occupants
<1>4. ReverseSound'
  BY <1>1, PresenceAssumption DEF IInv, TypeOK, ReverseSound, Occupants, Jids
<1>5. UniqueJids'
  BY <1>1 DEF IInv, TypeOK, UniqueJids, Enter
<1>6. PresentIsListed'
  BY <1>1, PresenceAssumption DEF IInv, TypeOK, PresentIsListed, Occupants, Enter, Jids
<1>7. Occupants' = Occupants \cup {n} /\ n \notin Occupants
  BY <1>1 DEF Occupants
<1>8. RenamingIsPresent'
  BY <1>1, <1>7 DEF IInv, RenamingIsPresent
<1>9. \A k \in XNicks \ fromDiscord' : IsNews(k)
  <2>1. /\ notice'.nick = n
        /\ n \notin fromDiscord' => notice'.connected
    BY <1>1
  <2>2. Occupants \subseteq Occupants' /\ \A k : k \in Occupants' \ Occupants <=> k = n
    BY <1>7
  <2> QED BY <2>1, <2>2 DEF IsNews
<1> QED BY <1>2, <1>3, <1>4, <1>5, <1>6, <1>8, <1>9 DEF IInv

\* An "available" for a nick of somebody present refreshes the reverse map, and
\* puts back an entry of the common map that the gateway has erased.
LEMMA AvailableAgain ==
  ASSUME IInv, NEW n \in Occupants, OnPresence(n, room[n], TRUE, EmptyNick),
         UNCHANGED <<room, users, fromDiscord>>, renaming' \subseteq renaming
  PROVE  IInv' /\ \A k \in XNicks \ fromDiscord' : IsNews(k)
<1>1. /\ n \in XNicks /\ room[n] \in XJids /\ room[n] # NoJid
      /\ n \notin fromDiscord => nick2jid[n] = room[n]
      /\ n \in Nicks /\ room[n] \in Jids
      /\ nick2jid' = IF nick2jid[n] = NoJid THEN [nick2jid EXCEPT ![n] = room[n]] ELSE nick2jid
      /\ jid2nick' = [jid2nick EXCEPT ![room[n]] = n]
      /\ notice' = [nick |-> n, jid |-> room[n], connected |-> nick2jid[n] = NoJid]
  BY PresenceAssumption
  DEF IInv, TypeOK, Attribution, OnPresence, WentOnline, Tell, Occupants, Nicks, Jids
<1>2. TypeOK'
  <2>1. (nick2jid[n] = NoJid) \in BOOLEAN
    OBVIOUS
  <2> QED BY <1>1, <2>1 DEF IInv, TypeOK
<1>3. Attribution' /\ UniqueJids'
  BY <1>1 DEF IInv, TypeOK, Attribution, UniqueJids, Occupants
<1>4. ReverseSound'
  BY <1>1 DEF IInv, TypeOK, ReverseSound, Occupants, Jids
<1>5. PresentIsListed'
  BY <1>1 DEF IInv, TypeOK, PresentIsListed, Occupants, UniqueJids, Jids
<1>6. RenamingIsPresent'
  BY DEF IInv, RenamingIsPresent, Occupants
<1>7. \A k \in XNicks \ fromDiscord' : IsNews(k)
  <2>1. notice'.nick = n /\ (n \notin fromDiscord' => ~notice'.connected)
    BY <1>1
  <2>2. Occupants' = Occupants
    BY DEF Occupants
  <2> QED BY <2>1, <2>2 DEF IsNews
<1> QED BY <1>2, <1>3, <1>4, <1>5, <1>6, <1>7 DEF IInv

LEMMA LeaveStep ==
  ASSUME IInv, NEW n \in XNicks, Leave(n)
  PROVE  IInv' /\ \A k \in XNicks : IsNews(k)
<1>1. /\ n \in Occupants /\ n \notin renaming
      /\ room[n] \in XJids /\ room[n] # NoJid
      /\ n \in Nicks /\ room[n] \in Jids
      /\ nick2jid' = [nick2jid EXCEPT ![n] = NoJid]
      /\ jid2nick' = [jid2nick EXCEPT ![room[n]] = NoNick]
      /\ notice' = [nick |-> n, jid |-> room[n], connected |-> FALSE]
      /\ room' = [room EXCEPT ![n] = NoJid]
      /\ UNCHANGED <<renaming, users, fromDiscord>>
  BY PresenceAssumption
  DEF IInv, TypeOK, Leave, OnPresence, WentOffline, Renamed, Tell, Occupants, Nicks, Jids
<1>2. TypeOK'
  BY <1>1 DEF IInv, TypeOK
<1>3. Attribution'
  BY <1>1, PresenceAssumption DEF IInv, TypeOK, Attribution, Nicks, Occupants, Jids
<1>4. ReverseSound'
  BY <1>1 DEF IInv, TypeOK, ReverseSound, Occupants, Jids
<1>5. UniqueJids'
  BY <1>1, PresenceAssumption DEF IInv, TypeOK, UniqueJids, Jids
<1>6. PresentIsListed'
  BY <1>1 DEF IInv, TypeOK, PresentIsListed, Occupants, UniqueJids, Jids
<1>7. Occupants' = Occupants \ {n}
  BY <1>1 DEF IInv, TypeOK, Occupants
<1>8. RenamingIsPresent'
  BY <1>1, <1>7 DEF IInv, RenamingIsPresent
<1>9. notice'.connected = FALSE /\ ~(Occupants \subseteq Occupants')
  BY <1>1, <1>7 DEF Occupants
<1> QED BY <1>2, <1>3, <1>4, <1>5, <1>6, <1>8, <1>9 DEF IInv, IsNews

LEMMA StartRenameStep ==
  ASSUME IInv, NEW n \in XNicks, NEW m \in XNicks, StartRename(n, m)
  PROVE  IInv' /\ \A k \in XNicks : IsNews(k)
<1>1. /\ n \in Occupants /\ n \notin renaming /\ m \notin Occupants /\ n # m
      /\ room[n] \in XJids /\ room[n] # NoJid /\ m # EmptyNick /\ m # NoNick
      /\ n \in Nicks /\ m \in Nicks /\ room[n] \in Jids
      /\ nick2jid' = [nick2jid EXCEPT ![n] = NoJid, ![m] = room[n]]
      /\ jid2nick' = [jid2nick EXCEPT ![room[n]] = m]
      /\ notice' = [nick |-> n, jid |-> room[n], connected |-> FALSE]
      /\ room' = [room EXCEPT ![n] = NoJid, ![m] = room[n]]
      /\ renaming' = renaming \cup {m}
      /\ UNCHANGED <<users, fromDiscord>>
  BY PresenceAssumption
  DEF IInv, TypeOK, StartRename, OnPresence, WentOffline, Renamed, Tell, Occupants, Nicks, Jids
<1>2. TypeOK'
  BY <1>1 DEF IInv, TypeOK
<1>3. Attribution'
  BY <1>1, PresenceAssumption DEF IInv, TypeOK, Attribution, Nicks, Occupants, Jids
<1>4. ReverseSound'
  BY <1>1 DEF IInv, TypeOK, ReverseSound, Occupants, Jids
<1>5. UniqueJids'
  BY <1>1, PresenceAssumption DEF IInv, TypeOK, UniqueJids, Jids
<1>6. PresentIsListed'
  BY <1>1 DEF IInv, TypeOK, PresentIsListed, Occupants, UniqueJids, Jids
<1>7. Occupants' = (Occupants \ {n}) \cup {m}
  BY <1>1 DEF IInv, TypeOK, Occupants
<1>8. RenamingIsPresent'
  BY <1>1, <1>7 DEF IInv, RenamingIsPresent
<1>9. notice'.connected = FALSE /\ ~(Occupants \subseteq Occupants')
  BY <1>1, <1>7 DEF Occupants
<1> QED BY <1>2, <1>3, <1>4, <1>5, <1>6, <1>8, <1>9 DEF IInv, IsNews

\* A step of the Discord gateway: no handler is told of a nick that the gateway
\* has not spoken of.
LEMMA DiscordStep ==
  ASSUME IInv, DiscordNext
  PROVE  /\ IInv'
         /\ UNCHANGED room
         /\ \/ notice' = Silent
            \/ /\ notice'.nick \in XNicks => notice'.nick \in fromDiscord'
               /\ notice'.nick \in Nicks /\ notice'.jid \in Jids
<1>1. ASSUME UNCHANGED <<room, renaming, nick2jid, jid2nick, fromDiscord>>, notice' = Silent,
             users' \in [Ids -> [nick : DNicks \cup {EmptyNick}, username : Ids \cup {EmptyJid}]]
      PROVE  IInv'
  <2>1. TypeOK'
    BY <1>1 DEF IInv, TypeOK, Silent
  <2> QED BY <1>1, <2>1, RoomUnchanged
<1>2. ASSUME NEW nick \in DNicks \cup {EmptyNick}, NEW jid \in Ids \cup {EmptyJid},
             NEW online \in BOOLEAN, SendDiscordPresense(nick, jid, online),
             UNCHANGED <<room, renaming>>,
             users' \in [Ids -> [nick : DNicks \cup {EmptyNick}, username : Ids \cup {EmptyJid}]]
      PROVE  /\ IInv'
             /\ notice'.nick \in XNicks => notice'.nick \in fromDiscord'
             /\ notice'.nick \in Nicks /\ notice'.jid \in Jids
  <2>1. nick \in Nicks /\ jid \in Jids /\ EmptyNick \in Nicks /\ TypeOK
    BY DEF Nicks, Jids, IInv
  <2>2. /\ \A n \in Nicks : nick2jid'[n] = nick2jid[n] \/ Taken(n)
        /\ \A j \in XJids : jid2nick'[j] = jid2nick[j]
        /\ notice'.nick = nick /\ notice'.jid = jid
        /\ nick \in XNicks => nick \in fromDiscord'
        /\ fromDiscord \subseteq fromDiscord'
        /\ fromDiscord' \subseteq XNicks
    BY <1>2, <2>1, DiscordLeavesRoomAlone
  <2>3. OnPresence(nick, jid, online, EmptyNick)
    BY <1>2 DEF SendDiscordPresense
  <2>4. TypeOK'
    BY <1>2, <2>1, <2>2, <2>3, OnPresenceType DEF TypeOK
  <2> QED BY <1>2, <2>1, <2>2, <2>4, RoomUnchanged
<1>3. \A id \in Ids : /\ users[id].nick \in DNicks \cup {EmptyNick}
                      /\ users[id].username \in Ids \cup {EmptyJid}
  BY DEF IInv, TypeOK
<1>4. ASSUME NEW members \in SUBSET Ids, NEW nickOf \in [members -> DNicks],
             GuildCreate(members, nickOf)
      PROVE  IInv' /\ notice' = Silent /\ UNCHANGED room
  <2>1. users' \in [Ids -> [nick : DNicks \cup {EmptyNick}, username : Ids \cup {EmptyJid}]]
    BY <1>4 DEF IInv, TypeOK, GuildCreate
  <2> QED BY <1>1, <1>4, <2>1 DEF GuildCreate
<1>5. ASSUME NEW id \in Ids, NEW nick \in DNicks, GuildMemberAdd(id, nick)
      PROVE  /\ IInv' /\ UNCHANGED room
             /\ notice'.nick \in XNicks => notice'.nick \in fromDiscord'
             /\ notice'.nick \in Nicks /\ notice'.jid \in Jids
  <2>1. users' \in [Ids -> [nick : DNicks \cup {EmptyNick}, username : Ids \cup {EmptyJid}]]
    BY <1>5 DEF IInv, TypeOK, GuildMemberAdd
  <2> QED BY <1>2, <1>3, <1>5, <2>1 DEF GuildMemberAdd
<1>6. ASSUME NEW id \in Ids, NEW nick \in DNicks, GuildMemberUpdate(id, nick)
      PROVE  IInv' /\ notice' = Silent /\ UNCHANGED room
  <2>1. users' \in [Ids -> [nick : DNicks \cup {EmptyNick}, username : Ids \cup {EmptyJid}]]
    BY <1>6 DEF IInv, TypeOK, GuildMemberUpdate
  <2> QED BY <1>1, <1>6, <2>1 DEF GuildMemberUpdate
<1>7. ASSUME NEW id \in Ids, GuildMemberRemove(id)
      PROVE  IInv' /\ notice' = Silent /\ UNCHANGED room
  <2>1. users' \in [Ids -> [nick : DNicks \cup {EmptyNick}, username : Ids \cup {EmptyJid}]]
    BY <1>7 DEF IInv, TypeOK, GuildMemberRemove, UnknownUser
  <2> QED BY <1>1, <1>7, <2>1 DEF GuildMemberRemove
<1>8. ASSUME NEW id \in Ids, NEW online \in BOOLEAN, PresenceUpdate(id, online)
      PROVE  /\ IInv' /\ UNCHANGED room
             /\ notice'.nick \in XNicks => notice'.nick \in fromDiscord'
             /\ notice'.nick \in Nicks /\ notice'.jid \in Jids
  <2>1. users' \in [Ids -> [nick : DNicks \cup {EmptyNick}, username : Ids \cup {EmptyJid}]]
    BY <1>8 DEF IInv, TypeOK, PresenceUpdate
  <2> QED BY <1>2, <1>3, <1>8, <2>1 DEF PresenceUpdate
<1> QED BY <1>4, <1>5, <1>6, <1>7, <1>8 DEF DiscordNext

-----------------------------------------------------------------------------
LEMMA InitIInv == Init => IInv
<1> SUFFICES ASSUME Init PROVE IInv OBVIOUS
<1>1. TypeOK
  BY PresenceAssumption DEF Init, TypeOK, UnknownUser, Silent
<1>2. Attribution /\ ReverseSound /\ PresentIsListed
  BY PresenceAssumption DEF Init, Attribution, ReverseSound, PresentIsListed, Occupants, Nicks, Jids
<1>3. RenamingIsPresent /\ UniqueJids
  BY PresenceAssumption DEF Init, RenamingIsPresent, UniqueJids, Jids
<1> QED BY <1>1, <1>2, <1>3 DEF IInv

\* NewBot is Init once more.
LEMMA NewBotStep ==
  ASSUME IInv, NewBot
  PROVE  IInv' /\ Occupants' = {} /\ notice' = Silent
<1>1. TypeOK'
  BY PresenceAssumption DEF NewBot, TypeOK, UnknownUser, Silent
<1>2. Attribution' /\ ReverseSound' /\ PresentIsListed'
  BY PresenceAssumption DEF NewBot, Attribution, ReverseSound, PresentIsListed, Occupants, Nicks, Jids
<1>3. RenamingIsPresent' /\ UniqueJids'
  BY PresenceAssumption DEF NewBot, RenamingIsPresent, UniqueJids, Jids
<1> QED BY <1>1, <1>2, <1>3 DEF IInv, NewBot, Occupants

\* A step keeps the inductive invariant and announces arrivals, and only those.
LEMMA NextStep ==
  ASSUME IInv, [Next]_vars
  PROVE  /\ IInv'
         /\ [\A k \in XNicks \ fromDiscord' : IsNews(k)]_vars
<1>1. ASSUME NEW n \in XNicks, NEW j \in XJids, Enter(n, j)
      PROVE  IInv' /\ \A k \in XNicks \ fromDiscord' : IsNews(k)
  BY <1>1, EnterStep
<1>2. ASSUME NEW n \in XNicks, ChangeStatus(n)
      PROVE  IInv' /\ \A k \in XNicks \ fromDiscord' : IsNews(k)
  <2>1. n \in Occupants /\ OnPresence(n, room[n], TRUE, EmptyNick)
        /\ UNCHANGED <<room, users, fromDiscord>> /\ renaming' \subseteq renaming
    BY <1>2 DEF ChangeStatus
  <2> QED BY <2>1, AvailableAgain
<1>3. ASSUME NEW n \in XNicks, Leave(n)
      PROVE  IInv' /\ \A k \in XNicks \ fromDiscord' : IsNews(k)
  BY <1>3, LeaveStep
<1>4. ASSUME NEW n \in XNicks, NEW m \in XNicks, StartRename(n, m)
      PROVE  IInv' /\ \A k \in XNicks \ fromDiscord' : IsNews(k)
  BY <1>4, StartRenameStep
<1>5. ASSUME NEW n \in XNicks, FinishRename(n)
      PROVE  IInv' /\ \A k \in XNicks \ fromDiscord' : IsNews(k)
  <2>1. n \in Occupants /\ OnPresence(n, room[n], TRUE, EmptyNick)
        /\ UNCHANGED <<room, users, fromDiscord>> /\ renaming' \subseteq renaming
    BY <1>5 DEF FinishRename, IInv, RenamingIsPresent
  <2> QED BY <2>1, AvailableAgain
<1>6. CASE DiscordNext
  <2>1. Occupants' = Occupants
    BY <1>6, DiscordStep DEF Occupants
  <2>2. \A k \in XNicks \ fromDiscord' : ~(notice'.connected /\ notice'.nick = k)
    BY <1>6, DiscordStep, PresenceAssumption DEF Silent
  <2> QED BY <2>1, <2>2, <1>6, DiscordStep DEF IsNews
<1>7. CASE NewBot
  <2>1. notice'.connected = FALSE /\ \A k : k \notin Occupants'
    BY <1>7, NewBotStep DEF Silent
  <2> QED BY <2>1, <1>7, NewBotStep DEF IsNews
<1>8. CASE UNCHANGED vars
  <2>1. TypeOK' /\ UNCHANGED <<room, renaming, nick2jid, jid2nick, fromDiscord>>
    BY <1>8 DEF vars, IInv, TypeOK
  <2> QED BY <1>8, <2>1, RoomUnchanged
<1> QED BY <1>1, <1>2, <1>3, <1>4, <1>5, <1>6, <1>7, <1>8 DEF Next, XmppNext

\* The inductive invariant holds in every reachable state.
THEOREM Invariance == Spec => []IInv
<1>1. IInv /\ [Next]_vars => IInv'
  BY NextStep
<1> QED BY InitIInv, <1>1, PTL DEF Spec

\* Bot's maps, the Discord table and the notice keep their types.
THEOREM TypeCorrect == Spec => []TypeOK
<1>1. IInv => TypeOK
  BY DEF IInv
<1> QED BY Invariance, <1>1, PTL

\* A message without a jid is never attributed to another participant of the room,
\* and is attributed to the one who has the nick unless the gateway has spoken of
\* somebody with that nick (Bot::GetJidByNick).
THEOREM AttributionCorrect == Spec => []Attribution
<1>1. IInv => Attribution
  BY DEF IInv
<1> QED BY Invariance, <1>1, PTL

\* Bot::GetNickByJid never names somebody who has gone.
THEOREM ReverseSoundCorrect == Spec => []ReverseSound
<1>1. IInv => ReverseSound
  BY DEF IInv
<1> QED BY Invariance, <1>1, PTL

\* Every participant with a jid of their own is found by Bot::GetNickByJid.
THEOREM PresentIsListedCorrect == Spec => []PresentIsListed
<1>1. IInv => PresentIsListed
  BY DEF IInv
<1> QED BY Invariance, <1>1, PTL

\* Handlers hear "connected" of a nick of the room exactly when somebody arrives
\* with it, as long as the gateway has not spoken of that nick.
THEOREM ArrivalIsNewsCorrect == Spec => ArrivalIsNews
<1>1. IInv /\ [Next]_vars =>
        [\A n \in XNicks \ fromDiscord' :
           (notice'.connected /\ notice'.nick = n)
             <=> (n \in Occupants' \ Occupants /\ Occupants \subseteq Occupants')]_vars
  BY NextStep DEF IsNews
<1> QED BY Invariance, <1>1, PTL DEF Spec, ArrivalIsNews

-----------------------------------------------------------------------------
(* LastSeen                                                                *)

\* Every step of LastSeen is one of Presence, or leaves its variables alone.
LEMMA SeenStepIsPresenceStep ==
  ASSUME [SeenNext]_allVars
  PROVE  [Next]_vars
BY DEF SeenNext, allVars, Presences, Messages, Tick, DiesBetween, Next

\* LastSeen is a composition with Presence: the theorems above hold of it.
THEOREM SeenIsPresence == SeenSpec => Spec
<1>1. SeenInit => Init
  BY DEF SeenInit
<1> QED BY <1>1, SeenStepIsPresenceStep, PTL DEF SeenSpec, Spec

\* The table has what was heard of each jid whose last presence was written.
TableAgrees == \A j \in XJids \ torn : activity[j] = heard[j]

\* Something was heard of everybody in the room, and of every jid of the room that
\* is in "nicks".
PresentWereHeard == \A n \in Occupants : heard[room[n]] # Never
NicksWereHeard == \A n \in XNicks : nicks[n] \in XJids => heard[nicks[n]] # Never

SeenIInv ==
  /\ SeenTypeOK
  /\ TableAgrees
  /\ PresentWereHeard
  /\ NicksWereHeard

\* The handler is told of nicks and jids that somebody has; whoever is in the room
\* after a step was there before under some nick, or is the one it is told of.
LEMMA NoticeIsOfParticipant ==
  ASSUME IInv, Next
  PROVE  /\ notice'.nick # NoNick => notice'.nick \in Nicks /\ notice'.jid \in Jids
         /\ \A m \in Occupants' :
              \/ \E n \in Occupants : room'[m] = room[n]
              \/ notice'.nick \in XNicks /\ room'[m] = notice'.jid
<1>1. ASSUME NEW n \in XNicks, NEW j \in XJids, Enter(n, j)
      PROVE  /\ notice' = [nick |-> n, jid |-> j, connected |-> notice'.connected]
             /\ \A m \in Occupants' : (m \in Occupants /\ room'[m] = room[m]) \/ room'[m] = j
  <2>1. notice' = [nick |-> n, jid |-> j, connected |-> notice'.connected]
    BY <1>1 DEF Enter, OnPresence, WentOnline, Tell
  <2>2. room' = [room EXCEPT ![n] = j] /\ room \in [XNicks -> XJids \cup {NoJid}]
    BY <1>1 DEF Enter, IInv, TypeOK
  <2> QED BY <2>1, <2>2 DEF Occupants
<1>2. ASSUME NEW n \in XNicks, ChangeStatus(n) \/ FinishRename(n)
      PROVE  notice'.nick = n /\ notice'.jid = room[n] /\ n \in Occupants /\ room' = room
  BY <1>2 DEF ChangeStatus, FinishRename, OnPresence, WentOnline, Tell, IInv, RenamingIsPresent
<1>3. ASSUME NEW n \in XNicks, Leave(n)
      PROVE  /\ notice'.nick = n /\ notice'.jid = room[n] /\ n \in Occupants
             /\ room' = [room EXCEPT ![n] = NoJid]
  BY <1>3 DEF Leave, OnPresence, WentOffline, Renamed, Tell
<1>4. ASSUME NEW n \in XNicks, NEW m \in XNicks, StartRename(n, m)
      PROVE  /\ notice'.nick = n /\ notice'.jid = room[n] /\ n \in Occupants
             /\ room' = [room EXCEPT ![n] = NoJid, ![m] = room[n]]
  BY <1>4 DEF StartRename, OnPresence, WentOffline, Renamed, Tell
<1>5. CASE DiscordNext
  BY <1>5, DiscordStep DEF Occupants, Silent
<1>6. CASE NewBot
  <2>1. notice' = Silent /\ Occupants' = {}
    BY <1>6 DEF NewBot, Occupants
  <2> QED BY <2>1 DEF Silent
<1>7. \A n \in Occupants : room[n] \in XJids
  BY DEF IInv, TypeOK, Occupants
<1>8. room \in [XNicks -> XJids \cup {NoJid}]
  BY DEF IInv, TypeOK
<1>9. ASSUME NEW n \in XNicks, NEW j \in XJids, Enter(n, j)
      PROVE  /\ notice'.nick \in XNicks /\ notice'.jid \in XJids
             /\ \A m \in Occupants' :
                  (\E k \in Occupants : room'[m] = room[k]) \/ room'[m] = notice'.jid
  <2>1. notice'.nick = n /\ notice'.jid = j
    BY <1>1, <1>9
  <2> QED BY <2>1, <1>1, <1>9
<1>10. ASSUME NEW n \in XNicks, ChangeStatus(n) \/ FinishRename(n)
       PROVE  /\ notice'.jid \in XJids
              /\ \A m \in Occupants' : \E k \in Occupants : room'[m] = room[k]
  BY <1>2, <1>7, <1>10 DEF Occupants
<1>11. ASSUME NEW n \in XNicks, Leave(n)
       PROVE  /\ notice'.jid \in XJids
              /\ \A m \in Occupants' : \E k \in Occupants : room'[m] = room[k]
  BY <1>3, <1>7, <1>8, <1>11 DEF Occupants
<1>12. ASSUME NEW n \in XNicks, NEW m \in XNicks, StartRename(n, m)
       PROVE  /\ notice'.jid \in XJids
              /\ \A p \in Occupants' : \E k \in Occupants : room'[p] = room[k]
  BY <1>4, <1>7, <1>8, <1>12 DEF Occupants
<1>13. XNicks \subseteq Nicks /\ XJids \subseteq Jids
  BY DEF Nicks, Jids
<1>14. ASSUME NEW n \in XNicks, notice'.nick = n
       PROVE  notice'.nick \in Nicks
  BY <1>13, <1>14
<1> QED BY <1>2, <1>3, <1>4, <1>5, <1>6, <1>9, <1>10, <1>11, <1>12, <1>13, <1>14
        DEF Next, XmppNext

\* Init leaves nothing to be heard.
LEMMA InitSeenIInv == SeenInit => SeenIInv
<1> SUFFICES ASSUME SeenInit PROVE SeenIInv OBVIOUS
<1>1. SeenTypeOK
  BY LastSeenAssumption DEF SeenInit, SeenTypeOK, Times, Never
<1>2. Occupants = {}
  BY DEF SeenInit, Init, Occupants
<1>3. NoJid \notin XJids
  BY PresenceAssumption DEF Jids
<1> QED BY <1>1, <1>2, <1>3 DEF SeenIInv, SeenInit, TableAgrees, PresentWereHeard, NicksWereHeard

\* What the two writes keep, whether the second fails or not, of the rows that
\* the room has.
LEMMA HandlePresenceStep ==
  ASSUME SeenIInv, NEW nick \in Nicks, NEW jid \in Jids, HandlePresence(nick, jid)
  PROVE  /\ SeenTypeOK' /\ TableAgrees' /\ NicksWereHeard'
         /\ jid \in XJids => heard'[jid] # Never
         /\ \A j \in XJids : heard[j] # Never => heard'[j] # Never
<1>1. /\ now \in Times /\ now # Never /\ now' = now
      /\ nicks \in [XNicks -> Jids \cup {NoJid}]
      /\ activity \in [XJids -> Times \cup {Never}]
      /\ heard \in [XJids -> Times \cup {Never}]
      /\ torn \subseteq XJids
  BY LastSeenAssumption DEF SeenIInv, SeenTypeOK, HandlePresence, Times, Never
<1>2. nicks' = [nicks EXCEPT ![nick] = jid] /\ heard' = [heard EXCEPT ![jid] = now]
  BY DEF HandlePresence
<1>3. \/ activity' = [activity EXCEPT ![jid] = now] /\ torn' = torn \ {jid}
      \/ torn' = XJids \cap (torn \cup {jid}) /\ activity' = activity
  BY DEF HandlePresence
<1>4. SeenTypeOK'
  <2>1. nicks' \in [XNicks -> Jids \cup {NoJid}]
    BY <1>1, <1>2
  <2>2. heard' \in [XJids -> Times \cup {Never}]
    BY <1>1, <1>2
  <2>3. activity' \in [XJids -> Times \cup {Never}] /\ torn' \subseteq XJids
    BY <1>1, <1>3
  <2> QED BY <1>1, <2>1, <2>2, <2>3 DEF SeenTypeOK
<1>5. TableAgrees'
  BY <1>1, <1>2, <1>3 DEF SeenIInv, TableAgrees
<1>6. /\ jid \in XJids => heard'[jid] # Never
      /\ \A j \in XJids : heard[j] # Never => heard'[j] # Never
  BY <1>1, <1>2
<1>7. NicksWereHeard'
  BY <1>1, <1>2, <1>6 DEF SeenIInv, NicksWereHeard
<1> QED BY <1>4, <1>5, <1>6, <1>7

\* What a message keeps: the row of somebody who was heard of has a status.
LEMMA HandleMessageStep ==
  ASSUME SeenIInv, NEW jid, jid \in XJids => heard[jid] # Never, HandleMessage(jid)
  PROVE  SeenTypeOK' /\ TableAgrees'
<1>1. /\ now \in Times
      /\ activity \in [XJids -> Times \cup {Never}]
      /\ UNCHANGED <<now, nicks, heard, torn>>
      /\ \/ activity' = [activity EXCEPT ![jid] = IF @ = Never THEN now ELSE @]
         \/ activity' = activity
  BY DEF SeenIInv, SeenTypeOK, HandleMessage
<1>2. SeenTypeOK'
  BY <1>1 DEF SeenIInv, SeenTypeOK
<1>3. TableAgrees'
  BY <1>1 DEF SeenIInv, TableAgrees
<1> QED BY <1>2, <1>3

LEMMA SeenStep ==
  ASSUME IInv, SeenIInv, [SeenNext]_allVars
  PROVE  SeenIInv'
<1>1. CASE Presences
  <2>1. CASE notice'.nick # NoNick
    <3>1. /\ notice'.nick \in Nicks /\ notice'.jid \in Jids
          /\ HandlePresence(notice'.nick, notice'.jid)
      BY <1>1, <2>1, NoticeIsOfParticipant DEF Presences
    <3>2. /\ SeenTypeOK' /\ TableAgrees' /\ NicksWereHeard'
          /\ notice'.jid \in XJids => heard'[notice'.jid] # Never
          /\ \A j \in XJids : heard[j] # Never => heard'[j] # Never
      BY <3>1, HandlePresenceStep
    <3>3. \A n \in Occupants : room[n] \in XJids
      BY DEF IInv, TypeOK, Occupants
    <3>4. IInv' /\ \A n \in Occupants' : room'[n] \in XJids
      BY <1>1, NextStep DEF Presences, IInv, TypeOK, Occupants
    <3>5. PresentWereHeard'
      BY <1>1, <3>2, <3>3, <3>4, NoticeIsOfParticipant
      DEF Presences, SeenIInv, PresentWereHeard, Never
    <3> QED BY <3>2, <3>5 DEF SeenIInv
  <2>2. CASE notice'.nick = NoNick
    <3>1. UNCHANGED seenVars
      BY <1>1, <2>2 DEF Presences
    <3>2. notice'.nick \notin XNicks
      BY <2>2, PresenceAssumption
    <3>3. PresentWereHeard'
      BY <1>1, <3>1, <3>2, NoticeIsOfParticipant
      DEF Presences, SeenIInv, PresentWereHeard, seenVars, Never
    <3> QED BY <3>1, <3>3 DEF SeenIInv, SeenTypeOK, TableAgrees, NicksWereHeard, seenVars
  <2> QED BY <2>1, <2>2
<1>2. CASE Messages
  <2>1. PICK jid : /\ HandleMessage(jid)
                   /\ \/ \E n \in Nicks : jid = JidOf(n)
                      \/ \E id \in Ids : jid = users[id].username
    BY <1>2 DEF Messages, Occupants, Nicks, IInv, TypeOK
  <2>2. jid \in XJids => heard[jid] # Never
    <3>1. \A n \in Nicks : JidOf(n) \in XJids => heard[JidOf(n)] # Never
      <4>1. TAKE n \in Nicks
      <4>2. HAVE JidOf(n) \in XJids
      <4>3. JidOf(n) = nick2jid[n]
        BY <4>2, PresenceAssumption DEF JidOf
      <4> QED BY <4>2, <4>3 DEF IInv, Attribution, SeenIInv, PresentWereHeard
    <3>2. \A id \in Ids : users[id].username \notin XJids
      BY PresenceAssumption DEF IInv, TypeOK
    <3> QED BY <2>1, <3>1, <3>2
  <2>3. SeenTypeOK' /\ TableAgrees'
    BY <2>1, <2>2, HandleMessageStep
  <2>4. UNCHANGED <<now, nicks, heard, torn, room>>
    BY <1>2, <2>1 DEF Messages, HandleMessage, vars
  <2>5. PresentWereHeard' /\ NicksWereHeard'
    BY <2>4 DEF SeenIInv, PresentWereHeard, NicksWereHeard, Occupants
  <2> QED BY <2>3, <2>5 DEF SeenIInv
<1>3. CASE Tick
  <2>1. now' \in Times /\ UNCHANGED <<nicks, activity, heard, torn, room>>
    BY <1>3, LastSeenAssumption DEF Tick, SeenIInv, SeenTypeOK, Times, vars
  <2> QED BY <2>1 DEF SeenIInv, SeenTypeOK, TableAgrees, PresentWereHeard, NicksWereHeard,
                     Occupants
<1>4. ASSUME NEW nick \in Nicks, NEW jid \in Jids, DiesBetween(nick, jid)
      PROVE  SeenIInv'
  <2>1. Occupants' = {}
    BY <1>4 DEF DiesBetween, NewBot, Occupants
  <2>2. HandlePresence(nick, jid)
    BY <1>4 DEF DiesBetween, HandlePresence
  <2> QED BY <2>1, <2>2, HandlePresenceStep DEF SeenIInv, PresentWereHeard
<1>5. CASE UNCHANGED allVars
  BY <1>5 DEF allVars, vars, seenVars, SeenIInv, SeenTypeOK, TableAgrees, PresentWereHeard,
              NicksWereHeard, Occupants
<1> QED BY <1>1, <1>2, <1>3, <1>4, <1>5 DEF SeenNext

\* The inductive invariant of LastSeen holds in every reachable state.
THEOREM SeenInvariance == SeenSpec => [](IInv /\ SeenIInv)
<1>1. SeenInit => IInv /\ SeenIInv
  BY InitIInv, InitSeenIInv DEF SeenInit
<1>2. IInv /\ SeenIInv /\ [SeenNext]_allVars => IInv' /\ SeenIInv'
  BY SeenStepIsPresenceStep, NextStep, SeenStep
<1> QED BY <1>1, <1>2, PTL DEF SeenSpec

\* LastSeen::GetUserInfo says of everybody with a jid of their own whether they
\* are in the room and under which nick, or since when they are not.
THEOREM AnswersAreTrueCorrect == SeenSpec => []AnswersAreTrue
<1>1. ASSUME IInv, SeenIInv, NEW n \in XNicks \ Jids,
             nicks[n] \in XJids \ SharedJids, nicks[n] \notin torn
      PROVE  IF \E m \in Occupants : room[m] = nicks[n]
               THEN GetUserInfo(n).kind = "here" /\ room[GetUserInfo(n).as] = nicks[n]
               ELSE GetUserInfo(n).kind = "seen" /\ GetUserInfo(n).ago = now - heard[nicks[n]]
  <2>1. PICK j \in XJids \ SharedJids : j = nicks[n]
    BY <1>1
  <2>2. j # NoJid /\ activity[j] = heard[j] /\ heard[j] # Never
    BY <1>1, <2>1, PresenceAssumption DEF SeenIInv, TableAgrees, NicksWereHeard, Jids
  <2>3. GetLastStatus(n) = [kind |-> "known", jid |-> j]
    <3>1. ~HasRow(n) /\ HasRow(nicks[n])
      BY <1>1, <2>1, <2>2 DEF HasRow, Jids
    <3> QED BY <2>1, <2>2, <3>1, <1>1 DEF GetLastStatus
  <2>4. CASE \E m \in Occupants : room[m] = j
    <3>1. PICK m \in Occupants : room[m] = j
      BY <2>4
    <3>2. jid2nick[j] = m
      BY <1>1, <3>1 DEF IInv, PresentIsListed
    <3>3. m \notin {NoNick, EmptyNick}
      BY PresenceAssumption DEF Occupants
    <3>4. GetUserInfo(n) = [kind |-> "here", as |-> m]
      BY <2>3, <3>2, <3>3 DEF GetUserInfo
    <3> QED BY <2>1, <2>4, <3>1, <3>4
  <2>5. CASE ~ \E m \in Occupants : room[m] = j
    <3>1. jid2nick[j] = NoNick
      BY <1>1, <2>5 DEF IInv, ReverseSound
    <3>2. GetUserInfo(n) = [kind |-> "seen", ago |-> now - activity[j]]
      BY <2>3, <3>1 DEF GetUserInfo
    <3> QED BY <2>1, <2>2, <2>5, <3>2
  <2> QED BY <2>4, <2>5
<1>2. IInv /\ SeenIInv => AnswersAreTrue
  BY <1>1 DEF AnswersAreTrue
<1> QED BY SeenInvariance, <1>2, PTL
=============================================================================
