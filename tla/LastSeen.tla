------------------------------ MODULE LastSeen ------------------------------
(***************************************************************************)
(* "!seen": who was here when, and what they said last                     *)
(* (src/handlers/lastseen.cpp).  The handler hears of every presence from  *)
(* Bot::OnPresence and of every message from Bot::OnMessage, and keeps two *)
(* tables, which outlive the process.  Its answers put these together with *)
(* Bot::GetNickByJid, so this module composes it with Presence.            *)
(*                                                                         *)
(* A presence takes two writes.  The second may fail, which is logged, and *)
(* the process may end between the two.  A row of the table "useractivity" *)
(* is its column "status" here: when the jid's presence last changed.  The *)
(* columns "active" and "message", which the answer only quotes, and       *)
(* "nick", which nothing reads, are left out.  Of the two tables the rows  *)
(* with keys that the room has are followed, whichever side writes them.   *)
(***************************************************************************)
EXTENDS Presence, Naturals

CONSTANT MaxTime  \* bound: the clock

ASSUME LastSeenAssumption == MaxTime \in Nat

Times == 0..MaxTime
Never == MaxTime + 1

VARIABLES
  now,       \* the system clock
  nicks,     \* the table "nicks": the jid each nick was last seen with
  activity,  \* the table "useractivity", by jid
  heard,     \* ghost: when each jid's presence last changed
  torn       \* ghost: jids whose last presence did not reach that table

seenVars == <<now, nicks, activity, heard, torn>>
allVars == <<vars, seenVars>>

SeenTypeOK ==
  /\ now \in Times
  /\ nicks \in [XNicks -> Jids \cup {NoJid}]
  /\ activity \in [XJids -> Times \cup {Never}]
  /\ heard \in [XJids -> Times \cup {Never}]
  /\ torn \subseteq XJids

SeenInit ==
  /\ Init
  /\ now = 0
  /\ nicks = [n \in XNicks |-> NoJid]
  /\ activity = [j \in XJids |-> Never]
  /\ heard = [j \in XJids |-> Never]
  /\ torn = {}

-----------------------------------------------------------------------------
(* LastSeen::HandlePresence and LastSeen::HandleMessage                    *)

HasRow(name) == name \in XJids /\ activity[name] # Never

\* Faulty variant: an update of a row that is there leaves its status alone.
HandlePresence_OnlyNew(nick, jid) ==
  /\ nicks' = [nicks EXCEPT ![nick] = jid]
  /\ heard' = [heard EXCEPT ![jid] = now]
  /\ activity' = IF HasRow(jid) THEN activity ELSE [activity EXCEPT ![jid] = now]
  /\ torn' = torn \ {jid}
  /\ UNCHANGED now

\* Two tables, two writes; the second throws.
HandlePresence(nick, jid) ==
  /\ nicks' = [nicks EXCEPT ![nick] = jid]
  /\ heard' = [heard EXCEPT ![jid] = now]
  /\ \/ activity' = [activity EXCEPT ![jid] = now] /\ torn' = torn \ {jid}
     \/ torn' = XJids \cap (torn \cup {jid}) /\ UNCHANGED activity
  /\ UNCHANGED now

\* A message of somebody who has no row yet writes a new one, with its status.
HandleMessage(jid) ==
  /\ \/ activity' = [activity EXCEPT ![jid] = IF @ = Never THEN now ELSE @]
     \/ UNCHANGED activity
  /\ UNCHANGED <<now, nicks, heard, torn>>

-----------------------------------------------------------------------------
(* LastSeen::GetUserInfo                                                   *)

\* LastSeen::GetLastStatus: the name is looked up as a jid, then as a nick.
GetLastStatus(name) ==
  IF HasRow(name)
    THEN [kind |-> "known", jid |-> name]
  ELSE IF name \notin XNicks \/ nicks[name] = NoJid
    THEN [kind |-> "unknown", jid |-> EmptyJid]
  ELSE [kind |-> IF HasRow(nicks[name]) THEN "known" ELSE "mismatch", jid |-> nicks[name]]

\* Bot::GetNickByJid gives the empty string for a jid it does not know.
GetUserInfo(name) ==
  LET found == GetLastStatus(name)
      nick == jid2nick[found.jid]
  IN IF found.kind # "known" THEN [kind |-> found.kind]
     ELSE IF nick \notin {NoNick, EmptyNick} THEN [kind |-> "here", as |-> nick]
     ELSE [kind |-> "seen", ago |-> now - activity[found.jid]]

-----------------------------------------------------------------------------
\* A step of Presence, of either side, with what the handler does about it.
Presences ==
  /\ Next
  /\ IF notice'.nick # NoNick THEN HandlePresence(notice'.nick, notice'.jid)
                              ELSE UNCHANGED seenVars

\* Bot::OnMessage gives a message without a jid that of the nick: one of the room,
\* and one of a Discord user whose username is not known yet.
JidOf(nick) == IF nick2jid[nick] = NoJid THEN EmptyJid ELSE nick2jid[nick]

Messages ==
  /\ \/ \E n \in Occupants : HandleMessage(JidOf(n))
     \/ \E id \in Ids : HandleMessage(IF users[id].username = EmptyJid
                                        THEN JidOf(users[id].nick) ELSE users[id].username)
  /\ UNCHANGED vars

\* The process ends between the two writes for somebody who enters, or who comes
\* online on Discord.
DiesBetween(nick, jid) ==
  /\ \/ /\ nick \in XNicks \ Occupants /\ jid \in XJids
        /\ jid \in SharedJids \/ \A m \in XNicks : room[m] # jid
     \/ \E id \in Ids : nick = users[id].nick /\ jid = users[id].username
  /\ NewBot
  /\ nicks' = [nicks EXCEPT ![nick] = jid]
  /\ heard' = [heard EXCEPT ![jid] = now]
  /\ torn' = XJids \cap (torn \cup {jid})
  /\ UNCHANGED <<now, activity>>

Tick ==
  /\ now < MaxTime
  /\ now' = now + 1
  /\ UNCHANGED <<vars, nicks, activity, heard, torn>>

SeenNext ==
  \/ Presences \/ Messages \/ Tick
  \/ \E nick \in Nicks, jid \in Jids : DiesBetween(nick, jid)

SeenSpec == SeenInit /\ [][SeenNext]_allVars

-----------------------------------------------------------------------------
(* Properties                                                              *)

\* "!seen" tells the truth of everybody whose jid is visible and their own: if
\* they are in the room, under which nick, and otherwise how long ago their
\* presence last changed.  Their messages, what others do, restarts, and
\* failures that a later presence has made good do not change that, nor does a
\* nick that is used on Discord as well: then the answer is about whoever of
\* the two was heard of last.  A nick that reads like a jid is left out: the
\* name is looked up as a jid first.
AnswersAreTrue ==
  \A n \in XNicks \ Jids :
    LET j == nicks[n]
        answer == GetUserInfo(n)
    IN j \in XJids \ SharedJids /\ j \notin torn =>
         IF \E m \in Occupants : room[m] = j
           THEN answer.kind = "here" /\ room[answer.as] = j
           ELSE answer.kind = "seen" /\ answer.ago = now - heard[j]
=============================================================================
