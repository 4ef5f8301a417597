------------------------------ MODULE Registry ------------------------------
(***************************************************************************)
(* How Bot builds, enables and rebuilds its handlers: RegisterAllHandlers, *)
(* UnregisterAllHandlers, EnableHandlers, and the !reload command that     *)
(* runs them again in a live bot.  Two lists and a map hold the handlers;  *)
(* !reload clears one list and the map and keeps the other list, so every  *)
(* handler ever built stays alive, with the threads it has started.        *)
(*                                                                         *)
(* Meanwhile any other thread may call Bot::SendMessage, which looks       *)
(* "discord" up in the map and calls what it finds.                        *)
(***************************************************************************)
EXTENDS Naturals, Sequences, FiniteSets, SequencesExt, Selection

CONSTANTS
  Discord,      \* the name of the handler every message to the chat goes through
  Order,        \* names in the order in which RegisterAllHandlers builds them
  Alphabetical, \* names the config file may list, handlers or not, in the order
                \* of std::set<std::string>
  Posting,      \* handlers whose constructor starts a thread and posts (rss)
  Serving,      \* handlers whose Init starts a thread (github, warframe)
  Configs,      \* the settings the config file may hold: records of two sets of
                \* names, "modules" and "blacklist" (and more, see Process)
  MaxReloads    \* bound: !reload commands

\* A handler starts its thread when it is built or when it is enabled, and Discord
\* posts nothing before it is in the map.
RegistryAssumption ==
  /\ Order \in Seq(STRING) /\ IsInjective(Order)
  /\ Alphabetical \in Seq(STRING) /\ IsInjective(Alphabetical)
  /\ Range(Order) \subseteq Range(Alphabetical)
  /\ Discord \in Range(Order)
  /\ Posting \cup Serving \subseteq Range(Order)
  /\ Posting \cap Serving = {} /\ Discord \notin Posting \cup Serving
  /\ \A c \in Configs : c.modules \cup c.blacklist \subseteq Range(Alphabetical)
  /\ MaxReloads \in Nat

Names == Range(Order)
Generations == 1..(MaxReloads + 1)
Handlers == [name : Names, gen : Generations]

VARIABLES
  config,   \* Bot::_settings: General.Modules and General.ModulesBlacklist
  gen,      \* how often RegisterAllHandlers has been called
  built,    \* Bot::_allChatEventHandlers
  enabled,  \* Bot::_chatEventHandlers
  byName,   \* Bot::_handlersByName: the generation of each name, 0 for no entry
  toBuild,  \* the names RegisterAllHandlers has yet to build,
  toEnable, \* and the handlers EnableHandlers has yet to enable
  phase,    \* "building", "enabling", "done"
  inits,    \* how often Init of each handler has been called
  threads,  \* the handlers that have started a thread
  crash     \* why the process has died, or "none"

vars == <<config, gen, built, enabled, byName, toBuild, toEnable, phase, inits, threads, crash>>

TypeOK ==
  /\ config \in Configs
  /\ gen \in Generations
  /\ built \in Seq(Handlers)
  /\ enabled \in Seq(Handlers)
  /\ byName \in [Names -> 0..(MaxReloads + 1)]
  /\ phase \in {"building", "enabling", "done"}
  /\ toBuild \in Seq(Names) /\ toEnable \in Seq(Handlers)
  /\ inits \in [Handlers -> Nat]
  /\ threads \subseteq Handlers
  /\ crash \in {"none", "no discord", "thread replaced", "init threw"}

Init ==
  /\ config \in Configs
  /\ gen = 1
  /\ built = <<>> /\ enabled = <<>>
  /\ byName = [n \in Names |-> 0]
  /\ toBuild = Order /\ toEnable = <<>> /\ phase = "building"
  /\ inits = [h \in Handlers |-> 0]
  /\ threads = {}
  /\ crash = "none"

Alive == crash = "none"

\* The part of Bot::SendMessage that matters here: _handlersByName["discord"].
Posts == IF byName[Discord] = 0 THEN crash' = "no discord" ELSE UNCHANGED crash

-----------------------------------------------------------------------------
(* Bot::RegisterHandler<H>, for each H in turn.                            *)

\* Faulty variant: the handler is not entered in the map.
Register_NotByName ==
  /\ Alive /\ phase = "building" /\ toBuild # <<>>
  /\ LET h == [name |-> Head(toBuild), gen |-> gen]
     IN /\ IF h.name \in Posting THEN Posts /\ threads' = threads \cup {h}
                                 ELSE UNCHANGED <<crash, threads>>
        /\ built' = Append(built, h)
  /\ toBuild' = Tail(toBuild)
  /\ UNCHANGED <<config, gen, enabled, byName, toEnable, phase, inits>>

Register ==
  /\ Alive /\ phase = "building" /\ toBuild # <<>>
  /\ LET h == [name |-> Head(toBuild), gen |-> gen]
     IN /\ IF h.name \in Posting THEN Posts /\ threads' = threads \cup {h}
                                 ELSE UNCHANGED <<crash, threads>>
        /\ byName' = [byName EXCEPT ![h.name] = gen]
        /\ built' = Append(built, h)
  /\ toBuild' = Tail(toBuild)
  /\ UNCHANGED <<config, gen, enabled, toEnable, phase, inits>>

\* A set of names as it is gone through.
Listed(names) == Selected(Alphabetical, {i \in DOMAIN Alphabetical : Alphabetical[i] \in names})

\* Faulty variant of EnableHandlers: the blacklist is not consulted for listed
\* names.
HandlersToEnable_NoBlacklist ==
  IF config.modules = {}
    THEN Selected(built, {i \in DOMAIN built : built[i].name \notin config.blacklist})
    ELSE LET names == Listed(config.modules \cap Names)
         IN [k \in DOMAIN names |-> [name |-> names[k], gen |-> byName[names[k]]]]

\* EnableHandlers: everything ever built, or the listed names in the order of
\* the set, looked up in the map; a name without a handler is skipped.
HandlersToEnable ==
  IF config.modules = {}
    THEN Selected(built, {i \in DOMAIN built : built[i].name \notin config.blacklist})
    ELSE LET names == Listed((config.modules \cap Names) \ config.blacklist)
         IN [k \in DOMAIN names |-> [name |-> names[k], gen |-> byName[names[k]]]]

StartEnabling ==
  /\ Alive /\ phase = "building" /\ toBuild = <<>>
  /\ phase' = "enabling"
  /\ toEnable' = HandlersToEnable
  /\ UNCHANGED <<config, gen, built, enabled, byName, toBuild, inits, threads, crash>>

\* Bot::EnableHandler.  A second thread assigned to a std::thread that is still
\* joinable ends the process.  Init of discord fails without a token, and throws
\* when it cannot reach Discord, which nobody catches up to main().
Enable ==
  /\ Alive /\ phase = "enabling" /\ toEnable # <<>>
  /\ LET h == Head(toEnable)
     IN /\ inits' = [inits EXCEPT ![h] = @ + 1]
        /\ threads' = IF h.name \in Serving THEN threads \cup {h} ELSE threads
        /\ \/ /\ enabled' = Append(enabled, h)
              /\ crash' = IF h.name \in Serving /\ h \in threads
                            THEN "thread replaced" ELSE crash
           \/ /\ h.name = Discord
              /\ crash' \in {crash, "init threw"}
              /\ UNCHANGED enabled
  /\ toEnable' = Tail(toEnable)
  /\ UNCHANGED <<config, gen, built, byName, toBuild, phase>>

Finish ==
  /\ Alive /\ phase = "enabling" /\ toEnable = <<>>
  /\ phase' = "done"
  /\ UNCHANGED <<config, gen, built, enabled, byName, toBuild, toEnable, inits, threads, crash>>

\* !reload: Settings::Reload succeeds, UnregisterAllHandlers, and
\* RegisterAllHandlers begins.  (If it fails nothing changes.)
Reload ==
  /\ Alive /\ phase = "done" /\ gen <= MaxReloads
  /\ config' \in Configs
  /\ byName' = [n \in Names |-> 0]
  /\ enabled' = <<>>
  /\ gen' = gen + 1
  /\ toBuild' = Order /\ phase' = "building"
  /\ UNCHANGED <<built, toEnable, inits, threads, crash>>

\* A thread that some handler has started posts to the chat.
ThreadPosts(h) ==
  /\ Alive /\ h \in threads
  /\ Posts
  /\ UNCHANGED <<config, gen, built, enabled, byName, toBuild, toEnable, phase, inits, threads>>

Next ==
  \/ Register \/ StartEnabling \/ Enable \/ Finish \/ Reload
  \/ \E h \in threads : ThreadPosts(h)

Spec == Init /\ [][Next]_vars

-----------------------------------------------------------------------------
(* Properties                                                              *)

NamesOf(handlers) == {h.name : h \in Range(handlers)}
Configured ==
  (IF config.modules = {} THEN Names ELSE config.modules \cap Names) \ config.blacklist

\* Whatever sequence of reloads led here, what is enabled is what the config
\* file now asks for (discord may have failed to start), and each enabled name
\* is served by the handler of the last reload, the one !help describes; if the
\* file lists the modules, by no other, so that no message is handled twice.
EnabledAsConfigured ==
  /\ phase = "done" =>
       /\ NamesOf(enabled) \subseteq Configured
       /\ Configured \ {Discord} \subseteq NamesOf(enabled)
       /\ \A n \in NamesOf(enabled) \ {Discord} :
            [name |-> n, gen |-> byName[n]] \in Range(enabled)
  /\ config.modules # {} =>
       \A i, j \in DOMAIN enabled : enabled[i].name = enabled[j].name => i = j

\* "Settings successfully reloaded, re-registering handlers...", then "Done":
\* the bot comes through a reload.  Starting the handlers again replaces no
\* thread that is still running,
ReloadKeepsThreads == crash # "thread replaced"

\* and the threads that go on meanwhile can still post.
ReloadKeepsBridge == crash # "no discord"

\* "Called once when module is enabled" (LemonHandler::Init).
InitOnce == \A h \in Handlers : inits[h] <= 1
=============================================================================
