---------------------------- MODULE LeagueLookup ----------------------------
(***************************************************************************)
(* "!ll" and its watch list (src/handlers/leaguelookup.cpp).  A command    *)
(* without a name starts a thread that asks the API of the game about one  *)
(* summoner after the other, and says in the end who is playing; the next  *)
(* such command first joins that thread, on the thread it has come in on.  *)
(* Commands come in on two threads, and nothing is locked.                 *)
(*                                                                         *)
(* A request has no time-out: a server that says nothing keeps whoever     *)
(* asks.  What the handler does not catch ends the process, unless the     *)
(* command has come from the gateway; and ~Bot destroys what SendMessage   *)
(* needs before it gets to this handler and its worker.                    *)
(*                                                                         *)
(* The handler has a key for the API; without one it handles no message.   *)
(* Names, champions and spells, which only decide the wording, are left    *)
(* out, and a summoner is an id.                                           *)
(***************************************************************************)
EXTENDS Naturals, Sequences, FiniteSets, SequencesExt, Selection

CONSTANTS
  Ids,          \* summoners
  Callers,      \* those that call HandleMessage, and of these
  Catching,     \* those that catch what it throws
  MaxSummoners, \* LeagueLookup::maxSummoners
  MaxRows       \* bound: rows of the watch list

ASSUME LeagueAssumption ==
  MaxSummoners \in Nat \ {0} /\ MaxRows \in Nat /\ Catching \subseteq Callers

None == "none"

VARIABLES
  rows,       \* the table of LLSummoner: ids in the order in which they were added
  at,         \* what HandleMessage does on each thread
  worker,     \* the thread that _lookupHelper points to, if it is joinable; a
              \* "stuck" one waits for a server that will not answer
  life,       \* of the handler: "live", "dying" (in its destructor), "dead"
  fatal,      \* what the process has died of, or "none"
  overlapped  \* ghost: two threads have been at "!ll" at once

lookupVars == <<rows, at, worker, life, fatal, overlapped>>

\* A thread that is not there, or has been joined.
NoWorker == [state |-> "none", by |-> None, list |-> <<>>, heard |-> <<>>,
             inGame |-> <<>>, broken |-> <<>>, said |-> "nothing"]

LookupInit ==
  /\ rows = <<>>
  /\ at = [t \in Callers |-> "idle"]
  /\ worker = NoWorker
  /\ life = "live"
  /\ fatal = "none" /\ overlapped = FALSE

-----------------------------------------------------------------------------
(* The API                                                                 *)

\* What comes back: a status (0 if there is no answer at all), whether the text is
\* JSON, and whether nothing in it is of another kind than what is read.
Answers ==
  [status : {0, 403, 404, 429}, json : {FALSE}, fit : {FALSE}]
    \cup {a \in [status : {200}, json : BOOLEAN, fit : BOOLEAN] : a.fit => a.json}

RiotAPIRequest(answer) ==
  CASE answer.status = 403 -> "AccessDenied"
    [] answer.status = 404 -> "NotFound"
    [] answer.status = 429 -> "RateLimitReached"
    [] answer.status = 200 -> IF answer.json THEN "OK" ELSE "InvalidJSON"
    [] OTHER               -> "UnexpectedResponseCode"

Replies == {RiotAPIRequest(answer) : answer \in Answers}

\* "!ll %summonername%": the name is looked up, then the game.  (An id that is
\* missing is read as 0, and looked up like any other.)
CurrentGame(name, game) ==
  CASE RiotAPIRequest(name) = "NotFound" -> "Summoner not found"
    [] RiotAPIRequest(name) \notin {"OK", "NotFound"} -> "Something went horribly wrong"
    [] OTHER ->
         IF ~name.fit THEN "throws"
         ELSE CASE RiotAPIRequest(game) = "NotFound" -> "Summoner is not currently in game"
                [] RiotAPIRequest(game) = "OK" -> IF game.fit THEN "Currently playing" ELSE "throws"
                [] OTHER -> RiotAPIRequest(game)

-----------------------------------------------------------------------------
(* "!ll": LeagueLookup::HandleMessage                                      *)

Running == fatal = "none" /\ life # "dead"
AtLL(t) == at[t] \in {"joining", "stale", "starting"}

\* Faulty variant: the old thread is not asked for.
Command_NoJoin(t) ==
  /\ Running /\ life = "live" /\ at[t] = "idle"
  /\ at' = [at EXCEPT ![t] = "starting"]
  /\ overlapped' = (overlapped \/ \E u \in Callers : AtLL(u))
  /\ UNCHANGED <<rows, worker, life, fatal>>

Command(t) ==
  /\ Running /\ life = "live" /\ at[t] = "idle"
  /\ at' = [at EXCEPT ![t] = IF worker.state = "none" THEN "starting" ELSE "joining"]
  /\ overlapped' = (overlapped \/ \E u \in Callers : AtLL(u))
  /\ UNCHANGED <<rows, worker, life, fatal>>

\* join() returns when the thread has ended.
Join(t) ==
  /\ Running /\ at[t] = "joining" /\ worker.state = "ended"
  /\ at' = [u \in Callers |-> IF u = t THEN "starting"
                              ELSE IF at[u] = "joining" THEN "stale" ELSE at[u]]
  /\ worker' = NoWorker
  /\ UNCHANGED <<rows, life, fatal, overlapped>>

\* What it does if another thread has joined it in the meantime is undefined.
JoinStale(t) ==
  /\ Running /\ at[t] = "stale"
  /\ at' = [at EXCEPT ![t] = "starting"]
  /\ fatal' \in {"none", "misusedThread"}
  /\ UNCHANGED <<rows, worker, life, overlapped>>

\* The pointer is replaced.  If the other thread has put a new one there since,
\* a joinable std::thread is destroyed, which calls std::terminate.
StartWorker(t) ==
  /\ Running /\ at[t] = "starting"
  /\ at' = [at EXCEPT ![t] = "idle"]
  /\ fatal' = IF worker.state = "none" THEN "none" ELSE "misusedThread"
  /\ worker' = [NoWorker EXCEPT !.state = "begun", !.by = t]
  /\ UNCHANGED <<rows, life, overlapped>>

-----------------------------------------------------------------------------
(* LeagueLookup::LookupAllSummoners, on the worker                         *)

Looked(list) == SubSeq(list, 1, IF Len(list) < MaxSummoners THEN Len(list) ELSE MaxSummoners)

\* Nobody catches what a table that cannot be read throws.
ReadList ==
  /\ Running /\ worker.state = "begun"
  /\ \/ worker' = [worker EXCEPT !.state = "asking", !.list = rows] /\ UNCHANGED fatal
     \/ fatal' = "exception" /\ UNCHANGED worker
  /\ UNCHANGED <<rows, at, life, overlapped>>

\* Faulty variants: a reply that cannot be read counts as "not found"; a lookup
\* that reaches the limit is given up without a word.
Noted_BrokenSkipped(w, id, reply) ==
  CASE reply \in {"NotFound", "InvalidJSON"}         -> w
    [] reply \in {"AccessDenied", "RateLimitReached"} -> [w EXCEPT !.state = "ended", !.said = reply]
    [] reply = "UnexpectedResponseCode"               -> [w EXCEPT !.broken = Append(@, id)]
    [] reply = "OK"                                   -> [w EXCEPT !.inGame = Append(@, id)]

Noted_Silent(w, id, reply) ==
  CASE reply = "NotFound" -> w
    [] reply = "AccessDenied" -> [w EXCEPT !.state = "ended", !.said = reply]
    [] reply = "RateLimitReached" -> [w EXCEPT !.state = "ended"]
    [] reply \in {"UnexpectedResponseCode", "InvalidJSON"} -> [w EXCEPT !.broken = Append(@, id)]
    [] reply = "OK" -> [w EXCEPT !.inGame = Append(@, id)]

\* What the worker w makes of a reply about a summoner.
Noted(w, id, reply) ==
  CASE reply = "NotFound" -> w
    [] reply \in {"AccessDenied", "RateLimitReached"} -> [w EXCEPT !.state = "ended", !.said = reply]
    [] reply \in {"UnexpectedResponseCode", "InvalidJSON"} -> [w EXCEPT !.broken = Append(@, id)]
    [] reply = "OK" -> [w EXCEPT !.inGame = Append(@, id)]

\* The worker's last words.  While the bot is destroyed, the map that SendMessage
\* looks into may be gone.
Says == fatal' \in IF life = "dying" THEN {"none", "latePost"} ELSE {"none"}

Request(answer) ==
  LET reply == RiotAPIRequest(answer)
      next == Len(worker.heard) + 1
  IN /\ Running /\ worker.state = "asking" /\ next <= Len(Looked(worker.list))
     /\ worker' = Noted([worker EXCEPT !.heard = Append(@, reply)], worker.list[next], reply)
     /\ IF worker'.state = "ended" THEN Says ELSE UNCHANGED fatal
     /\ UNCHANGED <<rows, at, life, overlapped>>

\* The server takes the request and never answers.
Stall ==
  /\ Running /\ worker.state = "asking" /\ Len(worker.heard) < Len(Looked(worker.list))
  /\ worker' = [worker EXCEPT !.state = "stuck"]
  /\ UNCHANGED <<rows, at, life, fatal, overlapped>>

Summarise ==
  /\ Running /\ worker.state = "asking" /\ Len(worker.heard) = Len(Looked(worker.list))
  /\ worker' = [worker EXCEPT !.state = "ended", !.said = "summary"]
  /\ Says
  /\ UNCHANGED <<rows, at, life, overlapped>>

Work == ReadList \/ (\E answer \in Answers : Request(answer)) \/ Summarise

-----------------------------------------------------------------------------
(* The other commands.  AddSummoner asks the API for the name of the id,    *)
(* then writes, without a look at what is there; DeleteSummoner removes all *)
(* rows of the id, if any, and is the only one to catch what the table      *)
(* throws.                                                                  *)

Ready(t) == Running /\ life = "live" /\ at[t] = "idle"

\* An exception leaves HandleMessage.
Throws(t) ==
  /\ fatal' = IF t \in Catching THEN "none" ELSE "exception"
  /\ UNCHANGED <<rows, at, worker, life, overlapped>>

LookupOne(t, name, game) ==
  /\ Ready(t)
  /\ CurrentGame(name, game) = "throws"
  /\ Throws(t)

AddSummoner(t, id, answer) ==
  /\ Ready(t)
  /\ RiotAPIRequest(answer) = "OK" /\ Len(rows) < MaxRows
  /\ \/ /\ answer.fit
        /\ rows' = Append(rows, id)
        /\ UNCHANGED <<at, worker, life, fatal, overlapped>>
     \/ Throws(t)

ListSummoners(t) == Ready(t) /\ Throws(t)

DeleteSummoner(t, id) ==
  /\ Ready(t)
  /\ rows' = Selected(rows, {i \in DOMAIN rows : rows[i] # id})
  /\ UNCHANGED <<at, worker, life, fatal, overlapped>>

-----------------------------------------------------------------------------
(* The end of the bot, and the next one.  Commands that are still running   *)
(* on the thread of Discord then are left to Process.                       *)

Retire ==
  /\ Running /\ life = "live" /\ \A t \in Callers : at[t] = "idle"
  /\ life' = "dying"
  /\ UNCHANGED <<rows, at, worker, fatal, overlapped>>

\* Faulty variant: the destructor does not wait.
Destroy_NoJoin ==
  /\ Running /\ life = "dying"
  /\ life' = "dead"
  /\ fatal' = IF worker.state = "none" THEN "none" ELSE "misusedThread"
  /\ UNCHANGED <<rows, at, worker, overlapped>>

\* LeagueLookup::~LeagueLookup joins the worker.
Destroy ==
  /\ Running /\ life = "dying" /\ worker.state \in {"none", "ended"}
  /\ life' = "dead" /\ worker' = NoWorker
  /\ UNCHANGED <<rows, at, fatal, overlapped>>

Rebuild ==
  /\ fatal = "none" /\ life = "dead"
  /\ life' = "live" /\ overlapped' = FALSE
  /\ UNCHANGED <<rows, at, worker, fatal>>

Continue(t) == Join(t) \/ JoinStale(t) \/ StartWorker(t)

LookupNext ==
  \/ \E t \in Callers :
       \/ Command(t) \/ Continue(t)
       \/ \E name, game \in Answers : LookupOne(t, name, game)
       \/ \E id \in Ids : DeleteSummoner(t, id)
       \/ \E id \in Ids, answer \in Answers : AddSummoner(t, id, answer)
       \/ ListSummoners(t)
  \/ Work \/ Stall
  \/ Retire \/ Destroy \/ Rebuild

LookupSpec == LookupInit /\ [][LookupNext]_lookupVars
\* Every thread goes on with what it has begun; but Stall may come first.
LookupFairSpec ==
  /\ LookupSpec /\ WF_lookupVars(Work) /\ WF_lookupVars(Destroy)
  /\ \A t \in Callers : WF_lookupVars(Continue(t))

-----------------------------------------------------------------------------
(* Properties                                                              *)

\* However many "!ll" come, one after the other, and when the bot ends with a
\* lookup under way: no thread is lost or joined twice, unless two commands have
\* been at "!ll" at once, and no lookup goes on with a handler that is gone.  What
\* else can end the process is a lookup whose answer comes while the bot is being
\* destroyed, and an exception.
Survives ==
  /\ fatal = "misusedThread" => overlapped
  /\ fatal = "latePost" => life = "dying" /\ worker.state = "ended"
  /\ fatal \in {"none", "misusedThread", "latePost", "exception"}
  /\ life = "dead" => worker.state = "none"

\* Every "!ll" gets its lookup, and every lookup comes to an answer, although the
\* thread that handles a command may have to wait for the last lookup: unless the
\* process dies, or a server does not answer, which is waited for without end.
Answered ==
  /\ \A t \in Callers :
       AtLL(t) ~> (fatal # "none" \/ worker.by = t \/ worker.state = "stuck")
  /\ worker.state \in {"begun", "asking"}
       ~> (fatal # "none" \/ worker.said # "nothing" \/ worker.state = "stuck")

\* The answer leaves nobody out: unless the API has refused the service, all
\* of the list's first MaxSummoners are accounted for, those in a game and
\* those nothing is known about by name, in the order of the list.  Nobody is
\* taken not to play, or not to be there, because of an error.
AnswersAreComplete ==
  worker.state = "ended" =>
    LET Those(replies) == {i \in DOMAIN worker.heard : worker.heard[i] \in replies}
        Names(seq) == {seq[i] : i \in DOMAIN seq}
    IN CASE worker.said = "summary" ->
              /\ \A i \in DOMAIN worker.list : i <= MaxSummoners => i \in DOMAIN worker.heard
              /\ Names(worker.inGame) = {worker.list[i] : i \in Those({"OK"})}
              /\ Len(worker.inGame) + Len(worker.broken)
                   = Cardinality(Those(Replies \ {"NotFound"}))
              /\ Names(worker.broken) = {worker.list[i] : i \in Those(Replies \ {"OK", "NotFound"})}
         [] OTHER -> worker.said = Last(worker.heard)
=============================================================================
