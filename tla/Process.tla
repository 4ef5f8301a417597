------------------------------ MODULE Process ------------------------------
(***************************************************************************)
(* The whole process: main() and what interrupts it (Lifecycle) composed   *)
(* with the handlers of the bot that lives (Registry).  RegisterAllHandlers*)
(* is a step of Lifecycle and many of Registry; the handlers' threads post *)
(* from their first moment on, also while the bot is being destroyed; and  *)
(* !reload reads the file, then builds the handlers again.                 *)
(*                                                                         *)
(* ~Bot destroys its members one after the other: the mutex, the map with  *)
(* "discord", and last the lists of handlers, whose destructors join their *)
(* threads.  What a thread that still posts does then is undefined.        *)
(*                                                                         *)
(* An exception that no handler catches ends the process as well, unless   *)
(* the gateway has called it.                                              *)
(*                                                                         *)
(* A !reload comes from the room here.  One that comes from Discord works  *)
(* on the lists of handlers while main() may use them.                     *)
(***************************************************************************)
EXTENDS Lifecycle, FiniteSets

CONSTANTS
  Discord, Order, Alphabetical, Posting, Serving, Configs, MaxReloads,  \* see Registry
  Listening,  \* of Serving, those whose thread is told to end through _breakLoop
  Fragile     \* handlers that some message makes throw (dice and ".-", url and a
              \* rule that is no regular expression)

VARIABLES
  listed,  \* what each version of the config file says of the modules
  ready,   \* handlers whose web server has set _breakLoop
  config, gen, built, enabled, byName, toBuild, toEnable, phase, inits, threads, crash

Handling == INSTANCE Registry
handlerVars == <<config, gen, built, enabled, byName, toBuild, toEnable, phase, inits,
                 threads, crash>>
processVars == <<vars, handlerVars, listed, ready>>

\* Two more settings: whether a webhook is set, and whether there is a table of the
\* ids that go with jids.
ASSUME ProcessAssumption ==
  /\ Handling!RegistryAssumption
  /\ Listening \subseteq Serving
  /\ \A c \in Configs : c.webhook \in BOOLEAN /\ c.idmap \in BOOLEAN

Alive == crash = "none"

\* What a Bot that has just been built knows: nothing.
NoHandlers ==
  /\ gen' = 1 /\ built' = <<>> /\ enabled' = <<>>
  /\ byName' = [n \in Handling!Names |-> 0]
  /\ toBuild' = Order /\ toEnable' = <<>> /\ phase' = "building"
  /\ inits' = [h \in Handling!Handlers |-> 0]
  /\ threads' = {} /\ ready' = {}
  /\ UNCHANGED crash

ProcessInit ==
  /\ Init
  /\ listed \in [0..MaxEdits -> Configs]
  /\ ready = {}
  /\ Handling!Init /\ config = listed[0]

-----------------------------------------------------------------------------
(* main(), with the handlers                                               *)

StartBot ==
  /\ Alive /\ Build
  /\ NoHandlers
  /\ config' = listed[settings.config]
  /\ UNCHANGED listed

\* RegisterAllHandlers, in Bot::Run or in a !reload.
RegisterSome ==
  /\ pc = "registering" \/ pc = "online"
  /\ Handling!Register \/ Handling!StartEnabling \/ Handling!Enable
  /\ UNCHANGED <<vars, listed, ready>>

RegisterDone ==
  /\ IF pc = "registering" THEN Register ELSE pc = "online" /\ UNCHANGED vars
  /\ Handling!Finish
  /\ UNCHANGED <<listed, ready>>

\* The rest of main() waits for what is handled on its thread.
GoOn ==
  /\ Alive /\ (pc = "online" => phase = "done")
  /\ \/ Start \/ CreateClient \/ Connected \/ ConnectFails \/ ConnectReturns
     \/ RunReturns \/ Reread \/ StartDestroying \/ Decide
  /\ UNCHANGED <<handlerVars, listed, ready>>

\* The destructors of RSSWatcher, Warframe and GithubWebhooks, in any order: each
\* ends its thread and joins it, but a web server that has not come far enough
\* cannot be told, and a std::thread that is not joined ends the process.
EndThread(h) ==
  /\ Alive /\ pc = "destroying"
  /\ IF h.name \in Listening /\ h \notin ready
       THEN crash' = "thread dropped" /\ UNCHANGED threads
       ELSE threads' = threads \ {h} /\ UNCHANGED crash
  /\ UNCHANGED <<vars, listed, config, gen, built, enabled, byName, toBuild, toEnable,
                 phase, inits, ready>>

BotGone ==
  /\ Alive /\ threads = {}
  /\ Destroyed
  /\ UNCHANGED <<handlerVars, listed, ready>>

Thread == StartBot \/ RegisterSome \/ RegisterDone \/ GoOn \/ BotGone \/ \E h \in threads : EndThread(h)

-----------------------------------------------------------------------------
(* What else goes on                                                       *)

ServerReady(h) ==
  /\ Alive /\ pc # "exited" /\ h.name \in Listening
  /\ ready' = ready \cup {h}
  /\ UNCHANGED <<vars, handlerVars, listed>>

\* A handler's thread posts: as ever, or on what ~Bot has left.
Post(h) ==
  /\ Alive /\ pc # "exited"
  /\ IF pc = "destroying"
       THEN /\ crash' \in {"none", "late post"}
            /\ UNCHANGED <<config, gen, built, enabled, byName, toBuild, toEnable, phase,
                           inits, threads>>
       ELSE Handling!ThreadPosts(h)
  /\ UNCHANGED <<vars, listed, ready>>

\* What a handler does not catch goes up to main(): on the thread of the room, or on
\* that of a web server, whose requests need not hold what they should.
HandlerThrows ==
  /\ Alive
  /\ \/ /\ pc = "online" /\ phase = "done"
        /\ Handling!NamesOf(enabled) \cap Fragile # {}
     \/ pc # "exited" /\ threads \cap ready # {}
  /\ crash' = "handler threw"
  /\ UNCHANGED <<vars, listed, ready, config, gen, built, enabled, byName, toBuild, toEnable,
                 phase, inits, threads>>

\* "FIXME: empty ID map crashes the bot": Discord::HandleMessage, with the webhook of
\* its last Init, looks the sender up in the settings as they are now.
NoIdMap ==
  /\ Alive /\ pc = "online" /\ phase = "done"
  /\ Discord \in Handling!NamesOf(enabled)
  /\ config.webhook /\ ~listed[settings.config].idmap
  /\ crash' = "no id map"
  /\ UNCHANGED <<vars, listed, ready, config, gen, built, enabled, byName, toBuild, toEnable,
                 phase, inits, threads>>

\* A file that is refused changes no handler, whatever it does to the settings.
ReloadAll ==
  /\ Alive /\ pc = "online" /\ phase = "done" /\ gen <= MaxReloads
  /\ Reload
  /\ IF OpenSucceeds THEN Handling!Reload /\ config' = listed[settings'.config]
                     ELSE UNCHANGED handlerVars
  /\ UNCHANGED <<listed, ready>>

\* Commands from Discord, signals, the network, and whoever edits the file.
Interrupt ==
  /\ Alive
  /\ \/ ConnectionLost \/ Die \/ Restart \/ SigTerm
     \/ \E kind \in {"good", "incomplete", "broken"} : EditFile(kind)
  /\ UNCHANGED <<handlerVars, listed, ready>>

ProcessNext ==
  \/ Thread \/ ReloadAll \/ Interrupt \/ HandlerThrows \/ NoIdMap
  \/ \E h \in threads : ServerReady(h) \/ Post(h)

ProcessSpec == ProcessInit /\ [][ProcessNext]_processVars
\* The thread of main() goes on, and so do the threads it waits for.
FairProcess == ProcessSpec /\ WF_processVars(Thread)

-----------------------------------------------------------------------------
(* Properties                                                              *)

\* Whatever restarts, reloads and edits of the file led here, what is enabled is
\* what the settings asked for when RegisterAllHandlers last ran (see Registry).
EnabledAsConfigured == pc \in {"connecting", "online"} => Handling!EnabledAsConfigured

\* The bot does not give up: neither a lost connection nor a failed one ends
\* the process, only somebody who asks for it, or a restart that finds the
\* config file unfit.  Handlers bring it down in these ways only: a thread meets
\* a map without Discord between the clearing of the map by a !reload and the
\* building of the first handler; a !reload starts a thread again, with settings
\* that list no modules; Discord, asked for, cannot be reached; a thread posts,
\* or cannot be told to end, while its bot is destroyed; a handler throws.
EndsForAReason ==
  /\ status \in {"done", "killed"} => "stop" \in asked
  /\ status = "bad config" => "restart" \in asked
  /\ crash = "no discord" => gen > 1 /\ phase = "building" /\ toBuild = Order
  /\ crash = "thread replaced" => gen > 1 /\ config.modules = {}
  /\ crash = "init threw" => Discord \in Handling!Configured
  /\ crash \in {"late post", "thread dropped"} => pc = "destroying" /\ threads # {}
  /\ crash \in {"none", "no discord", "thread replaced", "init threw", "late post",
                "thread dropped", "handler threw", "no id map"}

\* A stop that closes the connection, or finds it closed before Bot::Run has
\* returned, ends the process, with all threads joined, unless a !restart
\* comes after it, or the process dies first (EndsForAReason says of what).
StopEndsAll ==
  (pc \in {"online", "ended"} /\ client = "closed" /\ exitCode = "TerminationRequested")
    ~> (status = "done" /\ threads = {}) \/ exitCode = "RestartRequested"
       \/ status = "killed" \/ ~Alive

\* When the connection is lost for no reason of ours, the next one is tried, with
\* handlers of a new bot, unless somebody has asked for an end, or for a
\* restart, in between.  What can come in its way is a thread of the old bot or of
\* the new one, and that Discord cannot be reached: Init of Discord does not wait for
\* the network as the connection to the room does.
ReconnectsAnew ==
  (pc = "ended" /\ exitCode = "Error" /\ Alive)
    ~> \/ pc = "connecting" /\ client = "new" /\ gen = 1
       \/ pc = "exited" /\ asked # {}
       \/ crash \in {"init threw", "late post", "thread dropped", "handler threw"}
=============================================================================
