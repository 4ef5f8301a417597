----------------------------- MODULE Lifecycle -----------------------------
(***************************************************************************)
(* The life of the process: the loop of main(), the Bot it builds in every *)
(* round, the connection that Bot::Run blocks on, and what can end it: the *)
(* network, !die and !restart (from either side of the bridge), SIGTERM.   *)
(* With it goes the config file, which somebody may edit at any time, and  *)
(* the settings that main() and !reload read from it.                      *)
(***************************************************************************)
EXTENDS Naturals

CONSTANT MaxEdits  \* bound: versions of the config file

ASSUME LifecycleAssumption == MaxEdits \in Nat

VARIABLES
  pc,         \* where main() is
  installed,  \* SIGTERM is handled, by the Bot that was built last
  exitCode,   \* Bot::_exitCode
  result,     \* exitCode in main()
  status,     \* how the process ended, or "running"
  client,     \* GlooxClient::_client: "none", "new", "connected", "closed"
  room,       \* GlooxClient::_room is set
  file,       \* the config file: its version, and whether it is fit to be read
  settings,   \* versions of the file that Settings::_config and Settings::_JID,
              \* _password, _MUC come from
  asked       \* the commands and signals there have been so far

vars == <<pc, installed, exitCode, result, status, client, room, file, settings, asked>>

BotAlive == pc \in {"registering", "creating", "connecting", "online", "ended",
                    "returned", "reread"}

TypeOK ==
  /\ pc \in {"opening", "building", "registering", "creating", "connecting", "online",
             "ended", "returned", "reread", "destroying", "deciding", "exited"}
  /\ installed \in BOOLEAN
  /\ exitCode \in {"Error", "TerminationRequested", "RestartRequested"}
  /\ result \in {"Error", "TerminationRequested", "RestartRequested"}
  /\ status \in {"running", "done", "not started", "bad config", "killed"}
  /\ client \in {"none", "new", "connected", "closed"}
  /\ room \in BOOLEAN
  /\ file \in [version : 0..MaxEdits, kind : {"good", "incomplete", "broken"}]
  /\ settings \in [config : 0..MaxEdits, ids : 0..MaxEdits]
  /\ asked \subseteq {"stop", "restart"}

Init ==
  /\ pc = "opening"
  /\ installed = FALSE
  /\ exitCode = "Error" /\ result = "Error"
  /\ status = "running"
  /\ client = "none" /\ room = FALSE
  /\ file \in [version : {0}, kind : {"good", "incomplete", "broken"}]
  /\ settings = [config |-> 0, ids |-> 0]
  /\ asked = {}

-----------------------------------------------------------------------------
(* Settings::Open.  A file without the mandatory entries replaces _config  *)
(* before it is refused.                                                   *)

OpenSucceeds == file.kind = "good"

Open ==
  settings' = CASE file.kind = "good"       -> [config |-> file.version, ids |-> file.version]
                [] file.kind = "incomplete" -> [settings EXCEPT !.config = file.version]
                [] file.kind = "broken"     -> settings

EditFile(kind) ==
  /\ file.version < MaxEdits
  /\ file' = [version |-> file.version + 1, kind |-> kind]
  /\ UNCHANGED <<pc, installed, exitCode, result, status, client, room, settings, asked>>

-----------------------------------------------------------------------------
(* main(), and the Bot on its thread                                       *)

Start ==
  /\ pc = "opening"
  /\ Open
  /\ IF OpenSucceeds THEN pc' = "building" /\ UNCHANGED status
                     ELSE pc' = "exited" /\ status' = "not started"
  /\ UNCHANGED <<installed, exitCode, result, client, room, file, asked>>

\* Bot::Bot, with a GlooxClient of its own.
Build ==
  /\ pc = "building"
  /\ installed' = TRUE
  /\ exitCode' = "Error"
  /\ client' = "none" /\ room' = FALSE
  /\ pc' = "registering"
  /\ UNCHANGED <<result, status, file, settings, asked>>

\* Bot::Run: RegisterAllHandlers, which may take long (it fetches feeds) and
\* connects to Discord.
Register ==
  /\ pc = "registering"
  /\ pc' = "creating"
  /\ UNCHANGED <<installed, exitCode, result, status, client, room, file, settings, asked>>

\* GlooxClient::Connect builds the gloox client, then blocks in connect().
CreateClient ==
  /\ pc = "creating"
  /\ client' = "new"
  /\ pc' = "connecting"
  /\ UNCHANGED <<installed, exitCode, result, status, room, file, settings, asked>>

\* GlooxClient::onConnect, Bot::OnConnect: the room is joined.
Connected ==
  /\ pc = "connecting"
  /\ client' = "connected"
  /\ room' = TRUE
  /\ pc' = "online"
  /\ UNCHANGED <<installed, exitCode, result, status, file, settings, asked>>

ConnectFails ==
  /\ pc = "connecting"
  /\ client' = "closed"
  /\ pc' = "ended"
  /\ UNCHANGED <<installed, exitCode, result, status, room, file, settings, asked>>

\* The network drops the connection: onDisconnect only logs it.
ConnectionLost ==
  /\ pc = "online" /\ client = "connected"
  /\ client' = "closed"
  /\ UNCHANGED <<pc, installed, exitCode, result, status, room, file, settings, asked>>

\* connect() comes back when the connection is closed, by whomever.
ConnectReturns ==
  /\ pc = "online" /\ client = "closed"
  /\ pc' = "ended"
  /\ UNCHANGED <<installed, exitCode, result, status, client, room, file, settings, asked>>

\* Faulty variant: Bot::Run forgets the exit code.
RunReturns_IgnoresExitCode ==
  /\ pc = "ended"
  /\ result' = "Error"
  /\ pc' = "returned"
  /\ UNCHANGED <<installed, exitCode, status, client, room, file, settings, asked>>

\* Bot::Run returns _exitCode, and from here on main() has its own copy.
RunReturns ==
  /\ pc = "ended"
  /\ result' = exitCode
  /\ pc' = "returned"
  /\ UNCHANGED <<installed, exitCode, status, client, room, file, settings, asked>>

Reread ==
  /\ pc = "returned"
  /\ IF result = "RestartRequested" THEN Open ELSE UNCHANGED settings
  /\ IF result = "RestartRequested" /\ ~OpenSucceeds
       THEN status' = "bad config" ELSE UNCHANGED status
  /\ pc' = "reread"
  /\ UNCHANGED <<installed, exitCode, result, client, room, file, asked>>

\* Bot::~Bot restores the default action of SIGTERM; then its members go, and
\* with them the handlers (Process).
StartDestroying ==
  /\ pc = "reread"
  /\ installed' = FALSE
  /\ pc' = "destroying"
  /\ UNCHANGED <<exitCode, result, status, client, room, file, settings, asked>>

\* botPtr goes out of scope before the condition of the loop is tested.
Destroyed ==
  /\ pc = "destroying"
  /\ pc' = IF status = "running" THEN "deciding" ELSE "exited"
  /\ UNCHANGED <<installed, exitCode, result, status, client, room, file, settings, asked>>

\* Faulty variant: only a requested restart starts another round.
Decide_GivesUp ==
  /\ pc = "deciding"
  /\ IF result # "RestartRequested"
       THEN pc' = "exited" /\ status' = "done"
       ELSE pc' = "building" /\ UNCHANGED status
  /\ UNCHANGED <<installed, exitCode, result, client, room, file, settings, asked>>

Decide ==
  /\ pc = "deciding"
  /\ IF result = "TerminationRequested"
       THEN pc' = "exited" /\ status' = "done"
       ELSE pc' = "building" /\ UNCHANGED status
  /\ UNCHANGED <<installed, exitCode, result, client, room, file, settings, asked>>

-----------------------------------------------------------------------------
(* What interrupts it                                                      *)

\* GlooxClient::Disconnect: without a connection there is nothing to close, and
\* nothing remembers that it was asked for.
Disconnect ==
  /\ room' = FALSE
  /\ client' = IF client = "connected" THEN "closed" ELSE client

\* An admin's commands, handled by Bot::OnMessage.  From the XMPP side they come
\* while the bot is online; the gateway of Discord, which has a thread of its
\* own, is there from the start of Register until the Bot is gone.
Die ==
  /\ BotAlive
  /\ exitCode' = "TerminationRequested"
  /\ asked' = asked \cup {"stop"}
  /\ Disconnect
  /\ UNCHANGED <<pc, installed, result, status, file, settings>>

Restart ==
  /\ BotAlive
  /\ exitCode' = "RestartRequested"
  /\ asked' = asked \cup {"restart"}
  /\ Disconnect
  /\ UNCHANGED <<pc, installed, result, status, file, settings>>

\* !reload; the handlers are registered again if the file was read (Registry).
Reload ==
  /\ BotAlive
  /\ Open
  /\ UNCHANGED <<pc, installed, exitCode, result, status, client, room, file, asked>>

\* handleSigTerm runs Bot::OnSIGTERM at any point of the above; while no Bot
\* has installed it, SIGTERM has its default effect.
SigTerm ==
  /\ pc # "exited"
  /\ asked' = asked \cup {"stop"}
  /\ IF installed
       THEN /\ exitCode' = "TerminationRequested"
            /\ Disconnect
            /\ UNCHANGED <<pc, status>>
       ELSE /\ pc' = "exited" /\ status' = "killed"
            /\ UNCHANGED <<exitCode, client, room>>
  /\ UNCHANGED <<installed, result, file, settings>>

Main ==
  \/ Start \/ Build \/ Register \/ CreateClient \/ Connected \/ ConnectFails
  \/ ConnectReturns \/ RunReturns \/ Reread
  \/ StartDestroying \/ Destroyed \/ Decide

Next ==
  \/ Main
  \/ ConnectionLost \/ Die \/ Restart \/ Reload \/ SigTerm
  \/ \E kind \in {"good", "incomplete", "broken"} : EditFile(kind)

Spec == Init /\ [][Next]_vars

\* The thread of main() goes on; a connection need not ever be lost, and nobody
\* need ever type a command.
FairSpec == Spec /\ WF_vars(Main)

-----------------------------------------------------------------------------
(* Properties                                                              *)

\* "Termination requested": whenever the bot logs this of a SIGTERM, it ends
\* (unless a !restart follows, which replaces the exit code).
TerminationIsFinal ==
  (installed /\ exitCode = "TerminationRequested")
    ~> (pc = "exited" \/ exitCode = "RestartRequested")

\* "Failed to reload settings": a file that is refused leaves the settings as
\* they were, so all of them always come from one version of the file.
SettingsOfOneFile == BotAlive => settings.config = settings.ids
=============================================================================
