------------------------------ MODULE Presence ------------------------------
(***************************************************************************)
(* Who is who: the two maps between nicks and jids that Bot keeps          *)
(* (src/bot.h: _nick2jid, _jid2nick) and the two feeds that change them:   *)
(*   - the XMPP stream, through GlooxClient::handleMUCParticipantPresence; *)
(*   - the Discord gateway, whose event handlers keep the table _users and *)
(*     call LemonBot::SendDiscordPresense.                                 *)
(* Both end in Bot::OnPresence, which also tells every enabled handler     *)
(* whether this is a new connection (Pager and Voting act on that flag).   *)
(*                                                                         *)
(* The room is the environment.  The bot sees it only through the ordered  *)
(* stream of presence stanzas, so "room" is the roster as the stream has   *)
(* conveyed it so far; a rename takes two stanzas (the old nick becomes    *)
(* unavailable and names the new one, then the new nick becomes            *)
(* available), and "renaming" holds the nicks that wait for the second.    *)
(*                                                                         *)
(* Both sides share one map: a person who has the same nick in the room    *)
(* and on Discord is one key of _nick2jid, with two jids.                  *)
(***************************************************************************)
EXTENDS FiniteSets

CONSTANTS
  XNicks,      \* nicks used in the XMPP room, some of them on Discord as well
  XJids,       \* bare jids of its participants
  SharedJids,  \* jids several participants may have at once: an account that
               \* is in the room twice, or "unknown@unknown"
  Ids,         \* Discord users; an id also stands for its name#discriminator
  DNicks,      \* nicks used on Discord
  EmptyNick,   \* the empty string, as a nick
  EmptyJid,    \* the empty string, as a jid
  NoNick,      \* "_jid2nick has no such key"
  NoJid        \* "_nick2jid has no such key"

ASSUME PresenceAssumption ==
  /\ SharedJids \subseteq XJids
  /\ XJids \cap (Ids \cup {EmptyJid}) = {}
  /\ EmptyNick \notin XNicks \cup DNicks
  /\ NoNick \notin XNicks \cup DNicks \cup {EmptyNick}
  /\ NoJid \notin XJids \cup Ids \cup {EmptyJid}

Nicks == XNicks \cup DNicks \cup {EmptyNick}
Jids == XJids \cup Ids \cup {EmptyJid}

VARIABLES
  room,      \* environment: the jid behind each nick, as far as conveyed
  renaming,  \* environment: new nicks whose "available" is still to come
  nick2jid,  \* Bot::_nick2jid
  jid2nick,  \* Bot::_jid2nick
  users,     \* Discord::_users: nick and username of each id
  notice,    \* what the last step told the handlers, or Silent
  fromDiscord  \* ghost: nicks of the room that the gateway has told this Bot of

mapVars == <<nick2jid, jid2nick, notice>>
vars == <<room, renaming, nick2jid, jid2nick, users, notice, fromDiscord>>

UnknownUser == [nick |-> EmptyNick, username |-> EmptyJid]
Silent == [nick |-> NoNick, jid |-> NoJid, connected |-> FALSE]
Occupants == {n \in XNicks : room[n] # NoJid}

TypeOK ==
  /\ room \in [XNicks -> XJids \cup {NoJid}]
  /\ renaming \subseteq XNicks
  /\ nick2jid \in [Nicks -> Jids \cup {NoJid}]
  /\ jid2nick \in [Jids -> Nicks \cup {NoNick}]
  /\ users \in [Ids -> [nick : DNicks \cup {EmptyNick}, username : Ids \cup {EmptyJid}]]
  /\ notice \in [nick : Nicks \cup {NoNick}, jid : Jids \cup {NoJid}, connected : BOOLEAN]
  /\ fromDiscord \subseteq XNicks

Init ==
  /\ room = [n \in XNicks |-> NoJid]
  /\ renaming = {}
  /\ nick2jid = [n \in Nicks |-> NoJid]
  /\ jid2nick = [j \in Jids |-> NoNick]
  /\ users = [i \in Ids |-> UnknownUser]
  /\ notice = Silent
  /\ fromDiscord = {}

-----------------------------------------------------------------------------
(* Bot::OnPresence, one operator per branch.                               *)

\* What each branch passes on to LemonHandler::HandlePresence.
Tell(nick, jid, connected) ==
  notice' = [nick |-> nick, jid |-> jid, connected |-> connected]

\* Faulty variants of the branches, used to test the properties.
WentOnline_Swapped(nick, jid) ==
  /\ nick2jid' = [nick2jid EXCEPT ![nick] = nick]
  /\ jid2nick' = [jid2nick EXCEPT ![jid] = nick]
  /\ Tell(nick, jid, nick2jid[nick] = NoJid)

WentOffline_KeepsJid(nick, jid) ==
  /\ nick2jid' = [nick2jid EXCEPT ![nick] = NoJid]
  /\ UNCHANGED jid2nick
  /\ Tell(nick, jid, FALSE)

Renamed_KeepsOldNick(nick, jid, newNick) ==
  /\ nick2jid' = [nick2jid EXCEPT ![newNick] = jid]
  /\ jid2nick' = [jid2nick EXCEPT ![jid] = newNick]
  /\ Tell(nick, jid, FALSE)

Renamed_ErasesJid(nick, jid, newNick) ==
  /\ nick2jid' = [nick2jid EXCEPT ![nick] = NoJid, ![newNick] = jid]
  /\ jid2nick' = [jid2nick EXCEPT ![jid] = NoNick]
  /\ Tell(nick, jid, FALSE)

Renamed_NotMapped(nick, jid, newNick) ==
  /\ nick2jid' = [nick2jid EXCEPT ![nick] = NoJid]
  /\ jid2nick' = [jid2nick EXCEPT ![jid] = newNick]
  /\ Tell(nick, jid, FALSE)

\* insert() keeps an entry that is already there, operator[] overwrites it.
WentOnline(nick, jid) ==
  /\ nick2jid' = IF nick2jid[nick] = NoJid
                   THEN [nick2jid EXCEPT ![nick] = jid] ELSE nick2jid
  /\ jid2nick' = [jid2nick EXCEPT ![jid] = nick]
  /\ Tell(nick, jid, nick2jid[nick] = NoJid)

WentOffline(nick, jid) ==
  /\ nick2jid' = [nick2jid EXCEPT ![nick] = NoJid]
  /\ jid2nick' = [jid2nick EXCEPT ![jid] = NoNick]
  /\ Tell(nick, jid, FALSE)

Renamed(nick, jid, newNick) ==
  /\ nick2jid' = [nick2jid EXCEPT ![nick] = NoJid, ![newNick] = jid]
  /\ jid2nick' = [jid2nick EXCEPT ![jid] = newNick]
  /\ Tell(nick, jid, FALSE)

OnPresence(nick, jid, online, newNick) ==
  \/ online /\ WentOnline(nick, jid)
  \/ ~online /\ newNick = EmptyNick /\ WentOffline(nick, jid)
  \/ ~online /\ newNick # EmptyNick /\ Renamed(nick, jid, newNick)

-----------------------------------------------------------------------------
(* The XMPP stream.  Every stanza is handled to its end on the thread of   *)
(* GlooxClient before the next one is read.                                *)

Enter(n, j) ==
  /\ n \notin Occupants
  /\ j \in SharedJids \/ \A m \in XNicks : room[m] # j
  /\ room' = [room EXCEPT ![n] = j]
  /\ OnPresence(n, j, TRUE, EmptyNick)
  /\ UNCHANGED <<renaming, users, fromDiscord>>

\* A participant changes status ("away"): available again, under the same nick.
ChangeStatus(n) ==
  /\ n \in Occupants \ renaming
  /\ OnPresence(n, room[n], TRUE, EmptyNick)
  /\ UNCHANGED <<room, renaming, users, fromDiscord>>

Leave(n) ==
  /\ n \in Occupants \ renaming
  /\ room' = [room EXCEPT ![n] = NoJid]
  /\ OnPresence(n, room[n], FALSE, EmptyNick)
  /\ UNCHANGED <<renaming, users, fromDiscord>>

StartRename(n, m) ==
  /\ n \in Occupants \ renaming
  /\ m \in XNicks \ Occupants
  /\ room' = [room EXCEPT ![n] = NoJid, ![m] = room[n]]
  /\ renaming' = renaming \cup {m}
  /\ OnPresence(n, room[n], FALSE, m)
  /\ UNCHANGED <<users, fromDiscord>>

FinishRename(m) ==
  /\ m \in renaming
  /\ renaming' = renaming \ {m}
  /\ OnPresence(m, room[m], TRUE, EmptyNick)
  /\ UNCHANGED <<room, users, fromDiscord>>

-----------------------------------------------------------------------------
(* The Discord gateway: one action per event handler of Discord::Init that *)
(* touches _users.                                                         *)

\* LemonBot::SendDiscordPresense.
SendDiscordPresense(nick, userid, online) ==
  /\ OnPresence(nick, userid, online, EmptyNick)
  /\ fromDiscord' = fromDiscord \cup (XNicks \cap {nick})

GuildCreate(members, nickOf) ==
  /\ users' = [i \in Ids |-> IF i \in members
                               THEN [nick |-> nickOf[i], username |-> i]
                               ELSE users[i]]
  /\ notice' = Silent
  /\ UNCHANGED <<room, renaming, nick2jid, jid2nick, fromDiscord>>

\* _username is not set here: it is empty unless GuildCreate has set it.
GuildMemberAdd(id, nick) ==
  /\ users' = [users EXCEPT ![id].nick = nick]
  /\ SendDiscordPresense(nick, users[id].username, FALSE)
  /\ UNCHANGED <<room, renaming>>

\* A new nick is stored, but OnPresence is not told.
GuildMemberUpdate(id, nick) ==
  /\ users' = [users EXCEPT ![id].nick = nick]
  /\ notice' = Silent
  /\ UNCHANGED <<room, renaming, nick2jid, jid2nick, fromDiscord>>

GuildMemberRemove(id) ==
  /\ users' = [users EXCEPT ![id] = UnknownUser]
  /\ notice' = Silent
  /\ UNCHANGED <<room, renaming, nick2jid, jid2nick, fromDiscord>>

PresenceUpdate(id, online) ==
  /\ SendDiscordPresense(users[id].nick, users[id].username, online)
  /\ UNCHANGED <<room, renaming, users>>

-----------------------------------------------------------------------------
\* main() drops the Bot when its connection ends and builds a new one, which
\* starts with empty maps and is sent the whole roster again.
NewBot ==
  /\ room' = [n \in XNicks |-> NoJid]
  /\ renaming' = {}
  /\ nick2jid' = [n \in Nicks |-> NoJid]
  /\ jid2nick' = [j \in Jids |-> NoNick]
  /\ users' = [i \in Ids |-> UnknownUser]
  /\ notice' = Silent
  /\ fromDiscord' = {}

XmppNext ==
  \E n \in XNicks :
    \/ \E j \in XJids : Enter(n, j)
    \/ ChangeStatus(n)
    \/ Leave(n)
    \/ \E m \in XNicks : StartRename(n, m)
    \/ FinishRename(n)

DiscordNext ==
  \/ \E members \in SUBSET Ids : \E nickOf \in [members -> DNicks] :
       GuildCreate(members, nickOf)
  \/ \E id \in Ids :
       \/ \E nick \in DNicks : GuildMemberAdd(id, nick) \/ GuildMemberUpdate(id, nick)
       \/ GuildMemberRemove(id)
       \/ \E online \in BOOLEAN : PresenceUpdate(id, online)

Next == XmppNext \/ DiscordNext \/ NewBot

Spec == Init /\ [][Next]_vars

-----------------------------------------------------------------------------
(* Properties                                                              *)

\* Bot::GetJidByNick, which Bot::OnMessage uses to attribute a message that
\* came without a jid, gives a jid of the room for no other nick than one that a
\* participant with this jid has; and it gives exactly the jid of the participant
\* who now has the nick, unless the gateway has spoken of somebody with that nick:
\* through joins, renames, status changes, shared jids and traffic on Discord.
Attribution ==
  /\ \A n \in Nicks : nick2jid[n] \in XJids => n \in Occupants /\ nick2jid[n] = room[n]
  /\ \A n \in XNicks \ fromDiscord : nick2jid[n] = room[n]

\* Bot::GetNickByJid never names somebody who is gone or somebody else: if a
\* jid is mapped to a nick, a participant with that nick and jid is present.
\* LastSeen answers "is still here as ..." from it.
ReverseSound ==
  \A j \in XJids : jid2nick[j] # NoNick =>
    jid2nick[j] \in Occupants /\ room[jid2nick[j]] = j

\* Nobody present is overlooked by GetNickByJid and GetOnlineUsers, as long as
\* the jid is not one that several participants have.
PresentIsListed ==
  \A n \in Occupants : room[n] \notin SharedJids => jid2nick[room[n]] = n

\* The handlers hear "connected" for a nick of the room in exactly the steps in
\* which somebody enters with it: a rename or a change of status is no arrival,
\* so Pager and Voting neither repeat nor miss a delivery because of one.  A nick
\* that the gateway has spoken of is left out: its entry in the common map may
\* be there before the arrival, or be gone before a change of status.
ArrivalIsNews ==
  [][\A n \in XNicks \ fromDiscord' :
       (notice'.connected /\ notice'.nick = n)
         <=> (n \in Occupants' \ Occupants /\ Occupants \subseteq Occupants')]_vars

\* The same of every nick of the room, which one map for both sides does not keep.
ArrivalIsNewsOnBothSides ==
  [][\A n \in XNicks :
       (notice'.connected /\ notice'.nick = n /\ notice'.jid \in XJids)
         <=> (n \in Occupants' \ Occupants /\ Occupants \subseteq Occupants')]_vars

\* "!jabber - list current jabber users online": every entry of
\* Bot::GetOnlineUsers, whose heading is "Jabber users:", is a jid of the room.
OnlineListIsJabber ==
  \A j \in Jids : jid2nick[j] # NoNick => j \in XJids
=============================================================================
