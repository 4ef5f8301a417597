------------------------------ MODULE Webhooks ------------------------------
(***************************************************************************)
(* GitHub's webhooks (src/handlers/githubwebhooks.cpp and                  *)
(* src/handlers/util/github_webhook_formatter.cpp).  The handler starts a  *)
(* thread with a web server of libevent, which handles one request after   *)
(* the other and posts what it makes of it through Bot::SendMessage.  The  *)
(* destructor, on another thread, wakes the server's loop and joins it.    *)
(* SendMessage drops what there is no room for, and what it looks into may *)
(* be gone while the bot is destroyed.  JSON that is not made as the code  *)
(* expects makes jsoncpp throw, which nobody catches.                      *)
(*                                                                         *)
(* A bot that was reloaded has one more handler, whose server finds the    *)
(* port taken (see Registry), and a bot that was restarted starts with new *)
(* ones.  The process may be killed at any time.                           *)
(***************************************************************************)
EXTENDS Naturals

CONSTANTS
  Hooks,        \* deliveries of GitHub: records of the header (is X-GitHub-Event
                \* there), the json (is the text JSON), fit (is what is read of it
                \* of the kind it should be), the type and the action
  MaxHandlers,  \* bound: handlers in one bot, one more than !reload commands
  MaxRequests,  \* bound: requests
  MaxKills      \* bound: how often the process is killed, or started after a crash

ASSUME WebhooksAssumption ==
  /\ Hooks \subseteq [header : BOOLEAN, json : BOOLEAN, fit : BOOLEAN,
                       type : STRING, action : STRING]
  /\ MaxHandlers \in Nat \ {0} /\ MaxRequests \in Nat /\ MaxKills \in Nat

Handlers == 1..MaxHandlers
Requests == 1..MaxRequests
Nobody == 0

VARIABLES
  bot,       \* "live", "dying", "dead"
  presence,  \* of the bot in its room: "coming", "there", "left"
  server,    \* the state of each handler's thread
  stopping,  \* the handler whose destructor has woken the loop
  port,      \* who listens on Github.Port
  posting,   \* the request for which each server is in SendMessage
  hook,      \* what each request holds
  stage,     \* how far each request has come
  code,      \* the status it is answered with
  announced, \* how often it was given to SendMessage
  shown,     \* the requests that are in the room
  apart,     \* ghost: those for which the bot was not in the room all the time from
             \* the request to the post
  crashed,   \* what the process has died of, or "none"
  kills      \* how often it was killed

webhookVars ==
  <<bot, presence, server, stopping, port, posting, hook, stage, code, announced, shown,
    apart, crashed, kills>>
serverVars == <<bot, presence, server, stopping, port, crashed, kills>>
requestVars == <<posting, hook, stage, code, announced, shown, apart>>

NoHook == [header |-> FALSE, json |-> FALSE, fit |-> FALSE, type |-> "", action |-> ""]

WebhookInit ==
  /\ bot = "live" /\ presence = "coming"
  /\ server = [g \in Handlers |-> IF g = 1 THEN "starting" ELSE "none"]
  /\ stopping = Nobody /\ port = Nobody
  /\ posting = [g \in Handlers |-> Nobody]
  /\ hook = [r \in Requests |-> NoHook]
  /\ stage = [r \in Requests |-> "unsent"]
  /\ code = [r \in Requests |-> 0]
  /\ announced = [r \in Requests |-> 0]
  /\ shown = {} /\ apart = {}
  /\ crashed = "none" /\ kills = 0

Up == crashed = "none"

-----------------------------------------------------------------------------
(* GithubWebhookFormatter: what is worth a line in the chat                *)

Printed(h) ==
  CASE h.type = "issues"       -> h.action \notin {"labeled", "unlabeled", "unassigned"}
    [] h.type = "pull_request" -> h.action \notin {"labeled", "unlabeled", "unassigned", "synchronize"}
    [] OTHER                   -> h.type \in {"fork", "watch", "release"}

\* What the functions of this file look at, and jsoncpp refuses.
Malformed(h) == ~h.fit /\ h.type \in {"issues", "pull_request", "fork", "watch", "release"}

\* Faulty variant: a message that has come out empty is not told apart.
FormatWebhookMessage_Empty(h) ==
  CASE ~h.json                -> "JSONParseError"
    [] h.json /\ Malformed(h) -> "throws"
    [] OTHER                  -> "OK"

FormatWebhookMessage(h) ==
  CASE ~h.json                               -> "JSONParseError"
    [] h.json /\ Malformed(h)                -> "throws"
    [] h.json /\ ~Malformed(h) /\ Printed(h) -> "OK"
    [] OTHER                                 -> "IgnoredHook"

-----------------------------------------------------------------------------
(* httpServerThread                                                        *)

\* The base, the server and the event that breaks the loop are made; from now
\* on _breakLoop is set.
MakeServer(g) ==
  /\ Up /\ server[g] = "starting"
  /\ server' = [server EXCEPT ![g] = "made"]
  /\ UNCHANGED <<bot, presence, stopping, port, crashed, kills, requestVars>>

Bind(g) ==
  /\ Up /\ server[g] = "made"
  /\ IF port = Nobody
       THEN port' = g /\ server' = [server EXCEPT ![g] = "listening"]
       ELSE server' = [server EXCEPT ![g] = "ended"] /\ UNCHANGED port
  /\ UNCHANGED <<bot, presence, stopping, crashed, kills, requestVars>>

\* GitHub connects; without a server it is refused and does not try again.
Deliver(r, h) ==
  /\ Up /\ stage[r] = "unsent" /\ \A q \in Requests : q < r => stage[q] # "unsent"
  /\ stage' = [stage EXCEPT ![r] = IF port # Nobody /\ server[port] = "listening"
                                     THEN "waiting" ELSE "lost"]
  /\ hook' = [hook EXCEPT ![r] = h]
  /\ apart' = IF presence = "there" THEN apart ELSE apart \cup {r}
  /\ UNCHANGED <<serverVars, posting, code, announced, shown>>

Free(g) == Up /\ server[g] = "listening" /\ posting[g] = Nobody

\* httpHandler, up to the call of SendMessage if there is one.
Handle(g, r) ==
  LET result == IF hook[r].header THEN FormatWebhookMessage(hook[r]) ELSE "NoHeader"
  IN /\ Free(g) /\ port = g /\ stage[r] = "waiting" /\ result # "throws"
     /\ IF result = "OK"
          THEN /\ posting' = [posting EXCEPT ![g] = r]
               /\ stage' = [stage EXCEPT ![r] = "posting"]
               /\ UNCHANGED code
          ELSE /\ stage' = [stage EXCEPT ![r] = "replied"]
               /\ code' = [code EXCEPT ![r] = CASE result = "IgnoredHook"    -> 200
                                                [] result = "JSONParseError" -> 500
                                                [] result = "NoHeader"       -> 400]
               /\ UNCHANGED posting
     /\ UNCHANGED <<serverVars, hook, announced, shown, apart>>

\* Faulty variant: the case of a message does not fall through to the reply.
Posted_Break(g) ==
  /\ Up /\ posting[g] # Nobody
  /\ announced' = [announced EXCEPT ![posting[g]] = @ + 1]
  /\ shown' = IF presence = "there" THEN shown \cup {posting[g]} ELSE shown
  /\ posting' = [posting EXCEPT ![g] = Nobody]
  /\ UNCHANGED <<serverVars, hook, stage, code, apart>>

\* SendMessage has returned, and the handler goes on to the reply.
Posted(g) ==
  /\ Up /\ posting[g] # Nobody
  /\ LET r == posting[g]
     IN /\ announced' = [announced EXCEPT ![r] = @ + 1]
        /\ shown' = IF presence = "there" THEN shown \cup {r} ELSE shown
        /\ stage' = [stage EXCEPT ![r] = "replied"]
        /\ code' = [code EXCEPT ![r] = 200]
  /\ posting' = [posting EXCEPT ![g] = Nobody]
  /\ UNCHANGED <<serverVars, hook, apart>>

\* evhttp_send_reply has only filled a buffer, which the loop writes out later.
WriteOut(g, r) ==
  /\ Free(g) /\ port = g /\ stage[r] = "replied"
  /\ stage' = [stage EXCEPT ![r] = "answered"]
  /\ UNCHANGED <<serverVars, posting, hook, code, announced, shown, apart>>

-----------------------------------------------------------------------------
(* The life of the bot                                                     *)

\* !reload; GithubWebhooks::Init of a new handler.
ReloadHandler(g) ==
  /\ Up /\ bot = "live" /\ g > 1
  /\ server[g] = "none" /\ server[g - 1] # "none"
  /\ server' = [server EXCEPT ![g] = "starting"]
  /\ UNCHANGED <<bot, presence, stopping, port, crashed, kills, requestVars>>

EnterRoom ==
  /\ Up /\ bot = "live" /\ presence = "coming"
  /\ presence' = "there"
  /\ UNCHANGED <<bot, server, stopping, port, crashed, kills, requestVars>>

\* Whatever has not been posted now will be dropped.
Leave ==
  /\ presence' = "left"
  /\ apart' = apart \cup {r \in Requests : stage[r] \in {"waiting", "posting"}}

LoseRoom ==
  /\ Up /\ bot = "live" /\ presence = "there"
  /\ Leave
  /\ UNCHANGED <<bot, server, stopping, port, crashed, kills, posting, hook, stage, code,
                 announced, shown>>

RetireBot ==
  /\ Up /\ bot = "live"
  /\ bot' = "dying"
  /\ Leave
  /\ UNCHANGED <<server, stopping, port, crashed, kills, posting, hook, stage, code,
                 announced, shown>>

Unanswered == {r \in Requests : stage[r] \in {"waiting", "posting", "replied"}}
Dropped == [r \in Requests |-> IF r \in Unanswered THEN "lost" ELSE stage[r]]

\* The process ends, and with it every thread and connection.
ProcessEnds ==
  /\ server' = [g \in Handlers |-> "none"]
  /\ posting' = [g \in Handlers |-> Nobody]
  /\ stopping' = Nobody /\ port' = Nobody
  /\ stage' = Dropped
  /\ UNCHANGED <<hook, code, announced, shown>>

\* httpHandler reads what jsoncpp does not give, on the thread of the server.
HandlerFails(g, r) ==
  /\ Free(g) /\ port = g /\ stage[r] = "waiting"
  /\ hook[r].header /\ FormatWebhookMessage(hook[r]) = "throws"
  /\ crashed' = "exception" /\ ProcessEnds
  /\ UNCHANGED <<bot, presence, kills, apart>>

\* SendMessage, from a server that the destructor has yet to join, after the map of
\* handlers has been destroyed.
LatePost(g) ==
  /\ Up /\ bot = "dying" /\ posting[g] # Nobody
  /\ crashed' = "latePost" /\ ProcessEnds
  /\ UNCHANGED <<bot, presence, kills, apart>>

\* ~GithubWebhooks, up to the join.  If the thread has not come far enough, the
\* std::thread is destroyed as it is, which calls std::terminate.
Stop(g) ==
  /\ Up /\ bot = "dying" /\ stopping = Nobody /\ server[g] \notin {"none", "gone"}
  /\ IF server[g] = "starting"
       THEN crashed' = "threadDropped" /\ ProcessEnds /\ UNCHANGED apart
       ELSE stopping' = g /\ UNCHANGED <<server, port, crashed, requestVars>>
  /\ UNCHANGED <<bot, presence, kills>>

\* terminateServer: the loop ends between two events, and its connections with it.
Break(g) ==
  /\ Free(g) /\ stopping = g
  /\ server' = [server EXCEPT ![g] = "ended"]
  /\ stage' = Dropped
  /\ UNCHANGED <<bot, presence, stopping, port, crashed, kills, posting, hook, code, announced,
                 shown, apart>>

\* Faulty variant: the sockets stay open.
Joined_KeepsPort(g) ==
  /\ Up /\ stopping = g /\ server[g] = "ended"
  /\ server' = [server EXCEPT ![g] = "gone"]
  /\ stopping' = Nobody
  /\ UNCHANGED <<bot, presence, port, crashed, kills, requestVars>>

\* The rest of ~GithubWebhooks: the thread is joined, evhttp_free frees the port.
Joined(g) ==
  /\ Up /\ stopping = g /\ server[g] = "ended"
  /\ server' = [server EXCEPT ![g] = "gone"]
  /\ stopping' = Nobody
  /\ port' = IF port = g THEN Nobody ELSE port
  /\ UNCHANGED <<bot, presence, crashed, kills, requestVars>>

Dead ==
  /\ Up /\ bot = "dying" /\ \A g \in Handlers : server[g] \in {"none", "gone"}
  /\ bot' = "dead"
  /\ UNCHANGED <<presence, server, stopping, port, crashed, kills, requestVars>>

\* The next bot starts its first server.
BuildBot ==
  /\ Up /\ bot = "dead"
  /\ bot' = "live" /\ presence' = "coming"
  /\ server' = [g \in Handlers |-> IF g = 1 THEN "starting" ELSE "none"]
  /\ UNCHANGED <<stopping, port, crashed, kills, requestVars>>

\* The process is killed, or has crashed, and is started again.
Kill ==
  /\ kills < MaxKills /\ kills' = kills + 1
  /\ bot' = "dead" /\ crashed' = "none"
  /\ Leave /\ ProcessEnds

Serve(g) ==
  \/ MakeServer(g) \/ Bind(g) \/ Posted(g) \/ LatePost(g) \/ Break(g)
  \/ \E r \in Requests : Handle(g, r) \/ HandlerFails(g, r) \/ WriteOut(g, r)
MainThread == Dead \/ BuildBot \/ \E g \in Handlers : Stop(g) \/ Joined(g)

WebhookNext ==
  \/ \E g \in Handlers : Serve(g) \/ ReloadHandler(g)
  \/ \E r \in Requests, h \in Hooks : Deliver(r, h)
  \/ MainThread \/ EnterRoom \/ LoseRoom \/ RetireBot \/ Kill

WebhookSpec == WebhookInit /\ [][WebhookNext]_webhookVars
\* The thread of each server and the main thread go on; SendMessage returns
\* (Sender).  Requests are few, so nothing keeps the loop from anything for ever.
WebhookFairSpec ==
  /\ WebhookSpec /\ WF_webhookVars(MainThread)
  /\ \A g \in Handlers : WF_webhookVars(Serve(g))

-----------------------------------------------------------------------------
(* Properties                                                              *)

\* GitHub is told 200 of an event that belongs in the chat only when SendMessage
\* has been given it, once, also if the bot stops or is killed in between; and then
\* it is in the room, if the bot was there from the request to the post.  Of nothing
\* else does anything get there.
AckIsHonest ==
  \A r \in Requests :
    LET fits == hook[r].header /\ hook[r].json /\ ~Malformed(hook[r])
        belongs == fits /\ Printed(hook[r])
    IN /\ announced[r] <= (IF belongs THEN 1 ELSE 0)
       /\ r \in shown => announced[r] = 1
       /\ stage[r] = "answered" =>
            /\ belongs => announced[r] = 1 /\ r \in shown \cup apart
            /\ code[r] = 200 <=> fits

\* "OK": GitHub is told 200 of an event only if it can be read in the room.
AckMeansShown ==
  \A r \in Requests : announced[r] = 1 /\ stage[r] = "answered" => r \in shown

\* Whoever has been let in gets an answer, unless the bot ends first.
EveryoneAnswered ==
  \A r \in Requests : stage[r] = "waiting" ~> stage[r] \in {"answered", "lost"}

\* The bot can be restarted: servers that have come to listen are stopped and
\* joined whatever they are doing, unless one has come too late with a post or has
\* thrown, and the next bot listens on the same port.
ListensAgain ==
  /\ (bot = "dying" /\ Up /\ \A g \in Handlers : server[g] # "starting")
       ~> bot = "dead" \/ crashed \in {"latePost", "exception"}
  /\ bot = "dead" ~> (port # Nobody /\ server[port] = "listening") \/ bot = "dying" \/ ~Up
=============================================================================
