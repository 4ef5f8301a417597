------------------------------- MODULE Feeds -------------------------------
(***************************************************************************)
(* RSSWatcher (src/handlers/rss.cpp).  UpdateFeeds walks over a copy of    *)
(* the table "rss"; for each feed it fetches the newest item, and if that  *)
(* is not the one of the copy, it writes the row and announces the item.   *)
(* It is run by the constructor, before the bot has joined the room; by    *)
(* the updater thread, once an hour; and on the threads that handle        *)
(* commands, for !addrss and !updaterss.  No lock is taken.                *)
(*                                                                         *)
(* The items of a feed are numbered as they are published; 0 stands for    *)
(* the empty guid of a new row and of a feed without items.                *)
(***************************************************************************)
EXTENDS Naturals, Sequences, FiniteSets, SequencesExt

CONSTANTS
  Urls,
  Stream,     \* the thread that builds the handlers and reads the XMPP stream
  Gateway,    \* the thread of the Discord gateway
  Updater,    \* RSSWatcher::_updateThread
  Commanders, \* the threads on which admin commands arrive
  MaxItems,   \* bound: items published in each feed
  MaxRows,    \* bound: feeds added
  MaxStops,   \* bound: ends of the process
  NoUrl       \* "no such row", and "no URL is being looked up"

ASSUME FeedsAssumption ==
  /\ Commanders \subseteq {Stream, Gateway}
  /\ Updater \notin {Stream, Gateway}
  /\ MaxItems \in Nat \ {0} /\ MaxRows \in Nat /\ MaxStops \in Nat
  /\ NoUrl \notin Urls

Threads == Commanders \cup {Stream, Updater}
Ids == 1..MaxRows
Rows == [id : Ids, url : Urls, guid : 0..MaxItems]

VARIABLES
  newest,  \* environment: the newest item of each feed
  rows,    \* the table "rss"
  added,   \* the highest id handed out: AUTOINCREMENT never uses one again
  phase,   \* "down", "building" (the constructor runs) or "up"
  joined,  \* the bot is in the room
  pc,      \* where each thread is
  adding,  \* the URL each thread is about to insert, found not to be there
  todo,    \* the rest of each thread's copy of the table
  item,    \* the item each thread has fetched
  said,    \* announcements: of which row and item, and whether anybody saw them
  crossed, \* ghost: two updates have run at the same time
  raced,   \* ghost: feeds that two threads were adding at the same time
  stops    \* how often the process has ended

vars == <<newest, rows, added, phase, joined, pc, adding, todo, item, said, crossed, raced, stops>>

TypeOK ==
  /\ newest \in [Urls -> 0..MaxItems]
  /\ rows \subseteq Rows
  /\ added \in 0..MaxRows
  /\ phase \in {"down", "building", "up"}
  /\ joined \in BOOLEAN
  /\ pc \in [Threads -> {"idle", "inserting", "copying", "fetching", "updating", "sending"}]
  /\ adding \in [Threads -> Urls \cup {NoUrl}]
  /\ todo \in [Threads -> Seq(Rows)]
  /\ item \in [Threads -> 0..MaxItems]
  /\ said \subseteq [id : Ids, guid : 0..MaxItems, shown : BOOLEAN]
  /\ crossed \in BOOLEAN /\ raced \subseteq Urls
  /\ stops \in 0..MaxStops

\* The process is about to start, on the table that an earlier one has left.
Init ==
  /\ newest \in [Urls -> {0, 1}]
  /\ added \in 0..MaxRows
  /\ \E url \in Injection(1..added, Urls) :
       rows = {[id |-> k, url |-> url[k], guid |-> 0] : k \in 1..added}
  /\ phase = "down" /\ joined = FALSE
  /\ pc = [t \in Threads |-> "idle"]
  /\ adding = [t \in Threads |-> NoUrl]
  /\ todo = [t \in Threads |-> <<>>]
  /\ item = [t \in Threads |-> 0]
  /\ said = {} /\ crossed = FALSE /\ raced = {} /\ stops = 0

-----------------------------------------------------------------------------
(* RSSWatcher::UpdateFeeds, on thread t                                    *)

\* A thread has a copy of the table and works on it.
Updating(t) == pc[t] \in {"fetching", "updating", "sending"}

\* storage.get_all: a copy of the table, in the order of the ids.
InOrder(copy) == \A k, l \in DOMAIN copy : k < l => copy[k].id < copy[l].id

Copy(t) ==
  /\ pc[t] = "copying"
  /\ \E copy \in BoundedSeq(rows, added) :
       /\ Range(copy) = rows /\ InOrder(copy)
       /\ todo' = [todo EXCEPT ![t] = copy]
  /\ pc' = [pc EXCEPT ![t] = "fetching"]
  /\ crossed' = (crossed \/ \E u \in Threads : Updating(u))
  /\ UNCHANGED <<newest, rows, added, phase, joined, adding, item, said, raced, stops>>

\* Faulty variant: the newest item is not compared with the one of the copy.
Fetch_Announces(t) ==
  /\ pc[t] = "fetching" /\ todo[t] # <<>>
  /\ pc' = [pc EXCEPT ![t] = "updating"]
  /\ item' = [item EXCEPT ![t] = newest[Head(todo[t]).url]]
  /\ UNCHANGED <<newest, rows, added, phase, joined, adding, todo, said, crossed, raced, stops>>

\* GetLatestItem gives an item; it is news if it is not the one of the copy.
Fetch(t) ==
  /\ pc[t] = "fetching" /\ todo[t] # <<>>
  /\ LET feed == Head(todo[t])
     IN IF newest[feed.url] # feed.guid
          THEN /\ pc' = [pc EXCEPT ![t] = "updating"]
               /\ item' = [item EXCEPT ![t] = newest[feed.url]]
               /\ UNCHANGED todo
          ELSE /\ todo' = [todo EXCEPT ![t] = Tail(@)]
               /\ UNCHANGED <<pc, item>>
  /\ UNCHANGED <<newest, rows, added, phase, joined, adding, said, crossed, raced, stops>>

\* No answer, an error, or no XML.
FetchFails(t) ==
  /\ pc[t] = "fetching" /\ todo[t] # <<>>
  /\ todo' = [todo EXCEPT ![t] = Tail(@)]
  /\ UNCHANGED <<newest, rows, added, phase, joined, pc, adding, item, said, crossed, raced, stops>>

\* Faulty variants: the row is inserted if it is gone; it is not written.
Update_Replaces(t) ==
  LET feed == Head(todo[t])
  IN /\ pc[t] = "updating"
     /\ rows' = {r \in rows : r.id # feed.id} \cup {[feed EXCEPT !.guid = item[t]]}
     /\ pc' = [pc EXCEPT ![t] = "sending"]
     /\ UNCHANGED <<newest, added, phase, joined, adding, todo, item, said, crossed, raced, stops>>

Update_Forgets(t) ==
  /\ pc[t] = "updating"
  /\ pc' = [pc EXCEPT ![t] = "sending"]
  /\ UNCHANGED <<newest, rows, added, phase, joined, adding, todo, item, said, crossed, raced, stops>>

\* storage.update writes every column of the row with this id, if there is one.
Update(t) ==
  LET feed == Head(todo[t])
  IN /\ pc[t] = "updating"
     /\ rows' = {IF r.id = feed.id THEN [feed EXCEPT !.guid = item[t]] ELSE r : r \in rows}
     /\ pc' = [pc EXCEPT ![t] = "sending"]
     /\ UNCHANGED <<newest, added, phase, joined, adding, todo, item, said, crossed, raced, stops>>

\* SendMessage: without a room, and before Discord::Init, nobody sees it.
Announce(t) ==
  /\ pc[t] = "sending"
  /\ said' = said \cup {[id |-> Head(todo[t]).id, guid |-> item[t], shown |-> joined]}
  /\ todo' = [todo EXCEPT ![t] = Tail(@)]
  /\ pc' = [pc EXCEPT ![t] = "fetching"]
  /\ UNCHANGED <<newest, rows, added, phase, joined, adding, item, crossed, raced, stops>>

\* The end of UpdateFeeds; if the constructor called it, the updater starts.
Return(t) ==
  /\ pc[t] = "fetching" /\ todo[t] = <<>>
  /\ pc' = [pc EXCEPT ![t] = "idle"]
  /\ item' = [item EXCEPT ![t] = 0]
  /\ phase' = "up"
  /\ UNCHANGED <<newest, rows, added, joined, adding, todo, said, crossed, raced, stops>>

-----------------------------------------------------------------------------
(* Commands and timers                                                     *)

CanStart(t) == pc[t] = "idle" /\ phase = "up"
\* Commands come from the room or from Discord: not before Connect.
CanCommand(t) == t \in Commanders /\ joined /\ CanStart(t)

\* !updaterss, and the updater's hour is over.
StartUpdate(t) ==
  /\ CanCommand(t) \/ (t = Updater /\ CanStart(t))
  /\ pc' = [pc EXCEPT ![t] = "copying"]
  /\ UNCHANGED <<newest, rows, added, phase, joined, adding, todo, item, said, crossed, raced, stops>>

\* Whether another thread has looked for this URL, and is about to insert it.
Race(url) == IF \E u \in Threads : adding[u] = url THEN raced \cup {url} ELSE raced

\* !addrss: RegisterFeed looks for the URL, inserts a row if there is none, and
\* UpdateFeeds follows in either case.
AddRss(t, url) ==
  /\ CanCommand(t)
  /\ IF \E r \in rows : r.url = url
       THEN pc' = [pc EXCEPT ![t] = "copying"] /\ UNCHANGED <<adding, raced>>
       ELSE /\ adding' = [adding EXCEPT ![t] = url]
            /\ pc' = [pc EXCEPT ![t] = "inserting"]
            /\ raced' = Race(url)
  /\ UNCHANGED <<newest, rows, added, phase, joined, todo, item, said, crossed, stops>>

Insert(t) ==
  /\ pc[t] = "inserting" /\ added < MaxRows
  /\ added' = added + 1
  /\ rows' = rows \cup {[id |-> added', url |-> adding[t], guid |-> 0]}
  /\ adding' = [adding EXCEPT ![t] = NoUrl]
  /\ pc' = [pc EXCEPT ![t] = "copying"]
  /\ UNCHANGED <<newest, phase, joined, todo, item, said, crossed, raced, stops>>

InsertFails(t) ==
  /\ pc[t] = "inserting"
  /\ adding' = [adding EXCEPT ![t] = NoUrl]
  /\ pc' = [pc EXCEPT ![t] = "copying"]
  /\ UNCHANGED <<newest, rows, added, phase, joined, todo, item, said, crossed, raced, stops>>

\* !delrss with a number, of a row or not: remove() does not tell.
DelRss(t, id) ==
  /\ CanCommand(t)
  /\ rows' = {r \in rows : r.id # id}
  /\ UNCHANGED <<newest, added, phase, joined, pc, adding, todo, item, said, crossed, raced, stops>>

-----------------------------------------------------------------------------
(* The feeds, and the process                                              *)

Publish(url) ==
  /\ newest[url] < MaxItems
  /\ newest' = [newest EXCEPT ![url] = @ + 1]
  /\ UNCHANGED <<rows, added, phase, joined, pc, adding, todo, item, said, crossed, raced, stops>>

\* Bot::OnConnect; the stream is read by the thread that built the handlers.
Join ==
  /\ phase = "up" /\ ~joined /\ pc[Stream] = "idle"
  /\ joined' = TRUE
  /\ UNCHANGED <<newest, rows, added, phase, pc, adding, todo, item, said, crossed, raced, stops>>

\* The process ends, wherever its threads are.
Stop ==
  /\ phase # "down" /\ stops < MaxStops
  /\ stops' = stops + 1
  /\ phase' = "down" /\ joined' = FALSE
  /\ pc' = [t \in Threads |-> "idle"]
  /\ adding' = [t \in Threads |-> NoUrl]
  /\ todo' = [t \in Threads |-> <<>>]
  /\ item' = [t \in Threads |-> 0]
  /\ UNCHANGED <<newest, rows, added, said, crossed, raced>>

\* RSSWatcher::RSSWatcher: UpdateFeeds is called before the updater is started.
Build ==
  /\ phase = "down"
  /\ phase' = "building"
  /\ pc' = [pc EXCEPT ![Stream] = "copying"]
  /\ UNCHANGED <<newest, rows, added, joined, adding, todo, item, said, crossed, raced, stops>>

Work(t) ==
  \/ Copy(t) \/ Fetch(t) \/ FetchFails(t) \/ Update(t) \/ Announce(t) \/ Return(t)
  \/ Insert(t) \/ InsertFails(t)

Next ==
  \/ \E t \in Threads :
       \/ Work(t) \/ StartUpdate(t)
       \/ \E url \in Urls : AddRss(t, url)
       \/ \E id \in Ids : DelRss(t, id)
  \/ \E url \in Urls : Publish(url)
  \/ Join \/ Stop \/ Build

Spec == Init /\ [][Next]_vars

\* Threads run and a process that has ended is started again; the updater's
\* clock comes round.  A feed that the updater asks for a row over and over answers.
Fairness ==
  /\ WF_vars(Build)
  /\ WF_vars(StartUpdate(Updater))
  /\ \A t \in Threads : WF_vars(Work(t))
  /\ \A id \in Ids : SF_vars(Fetch(Updater) /\ Head(todo[Updater]).id = id)

FairSpec == Spec /\ Fairness

-----------------------------------------------------------------------------
(* Properties                                                              *)

Announces(t) == pc[t] = "sending" /\ pc'[t] = "fetching"

\* As long as no two updates have run at the same time, an item is announced at
\* most once for a feed, and never after a newer one, across commands and any
\* number of crashes: the row is written before the item is sent.
AnnouncedOnce ==
  [][\A t \in Threads : Announces(t) /\ ~crossed =>
       \A s \in said : s.id = Head(todo[t]).id => s.guid < item[t]]_vars

\* A feed is on the list twice only if two threads have been adding it at the same
\* time, between looking for it and inserting it: not after any other mixture of
\* commands, removals, updates from old copies, failures and crashes.
NoDuplicates ==
  \A r, s \in rows : r.url = s.url /\ r # s => r.url \in raced

\* "Feed already exists" (RegisterFeed).
NeverTwice == \A r, s \in rows : r.url = s.url => r = s

\* A feed that has been removed stays removed, and a row stays with its URL:
\* a thread that still works on an old copy of the table brings nothing back.
RemovedStaysRemoved ==
  [][\A id \in 1..added :
       \A s \in rows' : s.id = id => \E r \in rows : r.id = id /\ r.url = s.url]_vars

\* Whatever the threads do to each other, the list catches up with the feeds:
\* in the end every row has the newest item.
CatchesUp == <>[](\A r \in rows : r.guid = newest[r.url])

\* "RSS - poll news feeds and dump latest items in chat" (README.md): what is
\* announced gets to the chat.
AnnouncedIsShown == \A s \in said : s.shown
=============================================================================
