------------------------------- MODULE Bridge -------------------------------
(***************************************************************************)
(* The way of a message through the bot.  What is said in the XMPP room    *)
(* arrives in GlooxClient::handleMUCMessage, what is said on Discord in    *)
(* the MessageCreate handler of Discord::Init; both end in Bot::OnMessage, *)
(* which answers a few commands of its own and offers all else to the      *)
(* enabled handlers until one stops it.  One of them, "discord", mirrors   *)
(* room messages to Discord; the others answer commands, and               *)
(* Bot::SendMessage puts the answers on both sides.                        *)
(* Everything the bot posts comes back to it: the room reflects it, and    *)
(* the gateway reports it.                                                 *)
(*                                                                         *)
(* The two sides are handled on a thread each.  Bot::SendMessage is one    *)
(* step here; Sender looks into it.                                        *)
(***************************************************************************)
EXTENDS Naturals, Sequences, FiniteSets, SequencesExt

CONSTANTS
  Handlers,  \* the enabled handlers in order: "discord", and "answers" for all others
  MaxSaid,   \* bound: messages people write
  MaxStops   \* bound: ends of the process

\* There is one handler for Discord: a bot that was reloaded (Registry) is left out.
ASSUME BridgeAssumption ==
  /\ Handlers \in Seq({"discord", "answers"})
  /\ \A k, l \in DOMAIN Handlers : Handlers[k] = "discord" /\ Handlers[l] = "discord" => k = l
  /\ MaxSaid \in Nat /\ MaxStops \in Nat

Sides == {"room", "discord"}
Ids == 1..MaxSaid
\* A message is a command of some handler, one of Bot's own (!uptime, !help), or
\* neither.  On Discord it is in the channel that is bridged ("main") or another.
Message == [side : Sides, kind : {"talk", "command", "own"}, main : BOOLEAN]
Post == [id : Ids, kind : {"said", "mirror", "reply"}, by : {"user", "bot", "webhook"}]
Stanza == [post : Post, history : BOOLEAN]
Jobs == [id : Ids, at : 0..(Len(Handlers) + 2)]

VARIABLES
  webhook,  \* discord.webhook is configured, with its id
  phase,    \* "down", "starting" (the gateway is connected) or "joined"
  said,     \* what people have written
  room,     \* the posts in the room, in order
  discord,  \* the posts on Discord, in order
  stanzas,  \* room posts on their way to the bot, and whether they are history
  events,   \* Discord posts on their way to the bot
  job,      \* for each side, the message its thread is handling, and the place
            \* in Handlers where it is: 0 before Bot::OnMessage, or Idle
  lost,     \* messages whose mirroring has failed
  stops

vars == <<webhook, phase, said, room, discord, stanzas, events, job, lost, stops>>

Idle == [id |-> 0, at |-> 0]

TypeOK ==
  /\ webhook \in BOOLEAN
  /\ phase \in {"down", "starting", "joined"}
  /\ said \in Seq(Message) /\ Len(said) <= MaxSaid
  /\ room \in Seq(Post) /\ discord \in Seq(Post)
  /\ stanzas \in Seq(Stanza)
  /\ events \in Seq(Post)
  /\ job \in [Sides -> {Idle} \cup Jobs]
  /\ lost \subseteq Ids
  /\ stops \in 0..MaxStops

Init ==
  /\ webhook \in BOOLEAN
  /\ phase = "starting"
  /\ said = <<>> /\ room = <<>> /\ discord = <<>>
  /\ stanzas = <<>> /\ events = <<>>
  /\ job = [s \in Sides |-> Idle]
  /\ lost = {} /\ stops = 0

-----------------------------------------------------------------------------
(* The room and the guild                                                  *)

PostInRoom(post) ==
  /\ room' = Append(room, post)
  /\ stanzas' = IF phase = "joined"
                  THEN Append(stanzas, [post |-> post, history |-> FALSE]) ELSE stanzas

PostOnDiscord(post) ==
  /\ discord' = Append(discord, post)
  /\ events' = IF phase # "down" THEN Append(events, post) ELSE events

Say(message) ==
  LET post == [id |-> Len(said) + 1, kind |-> "said", by |-> "user"]
  IN /\ Len(said) < MaxSaid
     /\ said' = Append(said, message)
     /\ IF message.side = "room"
          THEN PostInRoom(post) /\ UNCHANGED <<discord, events>>
          ELSE PostOnDiscord(post) /\ UNCHANGED <<room, stanzas>>
     /\ UNCHANGED <<webhook, phase, job, lost, stops>>

-----------------------------------------------------------------------------
(* Arrival                                                                 *)

\* Faulty variant: the history of the room is taken for news.
IsNews_History(stanza) == stanza.post.by # "bot"

\* GlooxClient::handleMUCMessage
IsNews(stanza) == ~stanza.history /\ stanza.post.by # "bot"

\* Faulty variants: the newest stanza first; what is not news is not taken off.
HandleStanza_Newest ==
  /\ stanzas # <<>> /\ job["room"] = Idle
  /\ stanzas' = Front(stanzas)
  /\ job' = IF IsNews(Last(stanzas))
              THEN [job EXCEPT !["room"] = [id |-> Last(stanzas).post.id, at |-> 1]] ELSE job
  /\ UNCHANGED <<webhook, phase, said, room, discord, events, lost, stops>>

HandleStanza_Keeps ==
  /\ stanzas # <<>> /\ job["room"] = Idle
  /\ IsNews(Head(stanzas))
  /\ stanzas' = Tail(stanzas)
  /\ job' = [job EXCEPT !["room"] = [id |-> Head(stanzas).post.id, at |-> 1]]
  /\ UNCHANGED <<webhook, phase, said, room, discord, events, lost, stops>>

HandleStanza ==
  /\ stanzas # <<>> /\ job["room"] = Idle
  /\ stanzas' = Tail(stanzas)
  /\ job' = IF IsNews(Head(stanzas))
              THEN [job EXCEPT !["room"] = [id |-> Head(stanzas).post.id, at |-> 1]] ELSE job
  /\ UNCHANGED <<webhook, phase, said, room, discord, events, lost, stops>>

IsUsers(post) == post.by \notin {"bot", "webhook"}

\* MessageCreate.  A message of the bridged channel is sent to the room first.
HandleEvent ==
  /\ events # <<>> /\ job["discord"] = Idle
  /\ events' = Tail(events)
  /\ job' = IF IsUsers(Head(events))
              THEN [job EXCEPT !["discord"] =
                      [id |-> Head(events).id, at |-> IF said[Head(events).id].main THEN 0 ELSE 1]]
              ELSE job
  /\ UNCHANGED <<webhook, phase, said, room, discord, stanzas, lost, stops>>

\* Bot::SendMessage with the origin Discord: not sent back there, and not seen
\* in a room that is not joined yet.
MirrorInRoom ==
  LET id == job["discord"].id
  IN /\ job["discord"] # Idle /\ job["discord"].at = 0
     /\ IF phase = "joined"
          THEN PostInRoom([id |-> id, kind |-> "mirror", by |-> "bot"]) /\ UNCHANGED lost
          ELSE lost' = lost \cup {id} /\ UNCHANGED <<room, stanzas>>
     /\ job' = [job EXCEPT !["discord"].at = 1]
     /\ UNCHANGED <<webhook, phase, said, discord, events, stops>>

-----------------------------------------------------------------------------
(* Bot::OnMessage: its own commands, and the handlers in turn              *)

Offered(side, handler) ==
  /\ job[side].at \in DOMAIN Handlers /\ said[job[side].id].kind # "own"
  /\ Handlers[job[side].at] = handler

GoOn(side) == job' = [job EXCEPT ![side].at = @ + 1]

\* Discord::HandleMessage of a room message.  What became of a post to the
\* webhook is not looked at, and a failure of the REST call is logged.
Copy(id) ==
  \/ /\ PostOnDiscord([id |-> id, kind |-> "mirror", by |-> IF webhook THEN "webhook" ELSE "bot"])
     /\ UNCHANGED lost
  \/ lost' = lost \cup {id} /\ UNCHANGED <<discord, events>>

\* Faulty variant: commands are not worth mirroring.
Mirror_NoCommands(side) ==
  /\ Offered(side, "discord")
  /\ GoOn(side)
  /\ IF side = "room" /\ said[job[side].id].kind # "command"
       THEN Copy(job[side].id) ELSE UNCHANGED <<discord, events, lost>>
  /\ UNCHANGED <<webhook, phase, said, room, stanzas, stops>>

Mirror(side) ==
  /\ Offered(side, "discord")
  /\ GoOn(side)
  /\ IF side = "room" THEN Copy(job[side].id) ELSE UNCHANGED <<discord, events, lost>>
  /\ UNCHANGED <<webhook, phase, said, room, stanzas, stops>>

Reply(side) ==
  /\ LET reply == [id |-> job[side].id, kind |-> "reply", by |-> "bot"]
     IN /\ IF phase = "joined" THEN PostInRoom(reply) ELSE UNCHANGED <<room, stanzas>>
        /\ PostOnDiscord(reply)
  /\ job' = [job EXCEPT ![side] = Idle]
  /\ UNCHANGED <<webhook, phase, said, lost, stops>>

\* A handler that knows the command answers, on both sides, and stops the message.
Answer(side) ==
  /\ Offered(side, "answers") /\ said[job[side].id].kind = "command"
  /\ Reply(side)

Own(side) == job[side].at \in {1, 2} /\ said[job[side].id].kind = "own"

\* Faulty variant: Bot answers without a word to Discord of the question.
MirrorOwn_Not ==
  /\ Own("room") /\ job["room"].at = 1
  /\ GoOn("room")
  /\ UNCHANGED <<webhook, phase, said, room, discord, stanzas, events, lost, stops>>

\* "FIXME: dirty hack": Bot's own commands do not come to the handlers, so the
\* one of "discord" is called first, enabled or not, if they come from the room.
MirrorOwn ==
  /\ Own("room") /\ job["room"].at = 1
  /\ GoOn("room")
  /\ Copy(job["room"].id)
  /\ UNCHANGED <<webhook, phase, said, room, stanzas, stops>>

AnswerOwn(side) ==
  /\ Own(side) /\ (side = "room" => job[side].at = 2)
  /\ Reply(side)

Ignore(side) ==
  /\ Offered(side, "answers") /\ said[job[side].id].kind = "talk"
  /\ GoOn(side)
  /\ UNCHANGED <<webhook, phase, said, room, discord, stanzas, events, lost, stops>>

HandlersDone(side) ==
  /\ job[side].at > Len(Handlers) /\ said[job[side].id].kind # "own"
  /\ job' = [job EXCEPT ![side] = Idle]
  /\ UNCHANGED <<webhook, phase, said, room, discord, stanzas, events, lost, stops>>

-----------------------------------------------------------------------------
(* The process                                                             *)

\* Bot::OnConnect.  The room sends its history to whoever joins.
Join ==
  /\ phase = "starting"
  /\ phase' = "joined"
  /\ stanzas' = [k \in DOMAIN room |-> [post |-> room[k], history |-> TRUE]]
  /\ UNCHANGED <<webhook, said, room, discord, events, job, lost, stops>>

Stop ==
  /\ phase # "down" /\ stops < MaxStops
  /\ stops' = stops + 1
  /\ phase' = "down"
  /\ stanzas' = <<>> /\ events' = <<>>
  /\ job' = [s \in Sides |-> Idle]
  /\ UNCHANGED <<webhook, said, room, discord, lost>>

Start ==
  /\ phase = "down"
  /\ phase' = "starting"
  /\ UNCHANGED <<webhook, said, room, discord, stanzas, events, job, lost, stops>>

Stream ==
  \/ HandleStanza
  \/ Mirror("room") \/ Answer("room") \/ Ignore("room") \/ HandlersDone("room")
  \/ MirrorOwn \/ AnswerOwn("room")
Gateway ==
  \/ HandleEvent \/ MirrorInRoom
  \/ Mirror("discord") \/ Answer("discord") \/ Ignore("discord") \/ HandlersDone("discord")
  \/ AnswerOwn("discord")

Next ==
  \/ \E message \in Message : (message.side = "room" => message.main) /\ Say(message)
  \/ Stream \/ Gateway
  \/ Join \/ Stop \/ Start

Spec == Init /\ [][Next]_vars
FairSpec == Spec /\ WF_vars(Stream) /\ WF_vars(Gateway) /\ WF_vars(Join) /\ WF_vars(Start)

-----------------------------------------------------------------------------
(* Properties                                                              *)

Places(log, id, kind) == {k \in DOMAIN log : log[k].id = id /\ log[k].kind = kind}

\* The bridge does not echo.  Nothing is mirrored to the side it comes from,
\* and nothing is mirrored or answered twice, although the bot gets to see all
\* its own posts, and the history of the room after every start.
NoEcho ==
  \A id \in DOMAIN said :
    /\ said[id].side = "room" => Places(room, id, "mirror") = {}
    /\ said[id].side = "discord" => Places(discord, id, "mirror") = {}
    /\ \A log \in {room, discord} : \A kind \in {"mirror", "reply"} :
         Cardinality(Places(log, id, kind)) <= 1

\* On either side a command stands before its answer, and the messages mirrored
\* from the other side stand in the order in which they were written there.
InOrder ==
  \A log \in {room, discord} : \A i, j \in DOMAIN log : i < j =>
    /\ ~(log[i].kind = "reply" /\ log[j].kind \in {"said", "mirror"} /\ log[i].id = log[j].id)
    /\ log[i].kind = "mirror" /\ log[j].kind = "mirror" => log[i].id < log[j].id

\* Nothing is answered on Discord that Discord has not seen, unless mirroring
\* has failed: whoever reads there can follow.
AnswersMakeSense ==
  \A id \in DOMAIN said :
    Places(discord, id, "reply") # {} /\ said[id].side = "room" /\ id \notin lost =>
      Places(discord, id, "mirror") # {}

\* Every message that reaches the bot gets to the other side, or its mirroring
\* fails, or the bot is stopped; and a bot that is up comes to rest: the
\* answers do not call for further answers.
Bridged ==
  \A id \in Ids :
    [](id \in DOMAIN said /\ job[said[id].side].id = id /\ said[id].main
         => <>(\/ Places(room, id, "mirror") \cup Places(discord, id, "mirror") # {}
               \/ id \in lost \/ phase = "down"))
ComesToRest == []<>(stanzas = <<>> /\ events = <<>> /\ \A s \in Sides : job[s] = Idle)
=============================================================================
