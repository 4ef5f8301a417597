# lemongrab in TLA+

lemongrab is a chat bot in C++. It sits in one XMPP room (through gloox) and on
one Discord server (through Hexicord), carries messages from one to the other,
and answers commands with a set of handlers: a pager, quotes, polls, RSS, dice
and so on. This directory specifies its parts in TLA+, checks them with TLC on
small instances, and proves with TLAPS, for instances of any size, every safety
property that TLC checks but one. Paths below are relative to the repository's `src/`.

Contents: 1 the system, 2 plan, 3 the modules, 4 the runs, 5 bounds,
6 fairness, 7 proofs, 8 what the code does not keep, 9 what is not modelled.

## 1. The system

### Threads

| thread | what it runs |
|---|---|
| main | `main()`, building the handlers, then the XMPP stream: `GlooxClient` callbacks, `Bot::OnPresence`, `Bot::OnMessage`, every handler's `HandleMessage` and `HandlePresence` |
| gateway | the Discord gateway (`Discord::Init` starts it): the event handlers of `discord.cpp`, which call the same `Bot::OnMessage` and `Bot::OnPresence` |
| updaters | one each of `rss` and `warframe`, and the web server of `github`: they call `Bot::SendMessage` |
| helper | one of `leaguelookup`, for each `!ll` without a name; the next `!ll` joins it |
| signal | `handleSigTerm`, on any of the above |

Only `Bot::SendMessage` takes a lock. The maps of nicks, the list of handlers,
the database and the state of the handlers are shared without one.

### Components

| component | state | operations | interacts with | makes it hard | makes it correct |
|---|---|---|---|---|---|
| Nick and jid maps (`bot.cpp`) | `_nick2jid`, `_jid2nick`, Discord's `_users` | `OnPresence` with three branches, the lookups | called by both clients, tells every handler | a rename is two stanzas; jids may be hidden and so shared; two sources with one map of nicks | names point to the right people; an arrival is reported once |
| Sending (`bot.cpp`, `discord.cpp`) | mutex, throttle, time stamp | `SendMessage`, `SendToDiscord`, `rclientSafeSend` | called by every thread | sleeping under the mutex, pieces, failures in the middle | same order on both sides, spacing, nothing cut |
| Routing and bridging (`bot.cpp`, `glooxclient.cpp`, `discord.cpp`) | the message each thread is at | `handleMUCMessage`, `MessageCreate`, `OnMessage`, `Discord::HandleMessage` | everything it posts comes back to it; the room sends a history | two sides at once, restarts, order of handlers | no echo, no answer before its question, no endless talk |
| Registry (`bot.cpp`) | all handlers built, those enabled, by name | `RegisterAllHandlers`, `EnableHandlers`, `UnregisterAllHandlers`, `!reload` | handlers' threads look `discord` up in it meanwhile | reload in a running bot, generations of handlers | enabled is what the config says, once each, in order |
| Lifecycle (`main.cpp`, `bot.cpp`) | exit code, client, room, signal handler | `Run`, `!die`, `!restart`, `OnSIGTERM`, reconnecting, `~Bot` | everything | commands and signals between any two steps; threads that outlive what they use | a stop stops and joins all, a lost connection does not |
| Settings (`settings.cpp`) | parsed file and single entries | `Open`, `Reload` | main, registry | a file that is half right | one version of the file |
| Pager | list and table of messages | page, deliver, expire, restore | presence, database | crash between sending and removing; two threads that walk and remove | nothing lost, sent once, in order, to the right one |
| Quotes | table | add, delete, regenerate the index | database | regeneration row by row, two threads | indexes in order and distinct |
| Voting | polls, votes, invitations | add, vote, unvote, close, invite | presence | replaced polls, shared jids, two threads that tell and erase | one choice, nobody else's vote, one invitation |
| RSS | table, updater | add, remove, update | sending, database | works on a copy; crash between write and send | no item twice, none comes back, list catches up |
| Dice and calculator | none | tokenize, to RPN, evaluate | - | signs, precedence, parentheses | the value is that of the expression |
| Last seen | tables `nicks`, `useractivity` | presence, message, `!seen` | nick maps, database | two writes per presence; nicks change hands | answers are true |
| URL preview | rules, log | rules, fetch, log, show | sending, database | two threads, rules that throw or come between check and post | all logged, few shown |
| Discord handler | users, roles | mirror, presence, `!sub` | gateway | as above | as above |
| Warframe alerts | set of known alerts | update, `!wf` | sending | two threads, no lock | new ones announced once |
| League of Legends lookup | watch list, helper thread | `!ll`, add, delete | sending, database, the API of the game | two threads join and replace `_lookupHelper`; any reply of the API may be an error, or not come | no thread is lost, every `!ll` is answered, nobody is left out |
| GitHub webhooks | web server, requests | start, stop, handle, format | sending | stopping the server of another thread; a reply is written later than it is made; posts that the room does not get | who is told 200 has been heard; the next bot listens again |
| Database (`util/sqlite_db.h`) | the SQLite file | `sqlite_orm` statements | handlers | outlives the process | per table, above |
| Console client (`cliclient.cpp`) | - | a line is a message | stands in for the XMPP client with `--cli` | - | - |
| `goodenough.cpp` | - | - | `RegisterAllHandlers` does not register it | - | - |

`PROJECT.json` lists the same components with their status, and every hazard at
its line.

## 2. Plan

The order is by how much of the bot depends on the part.

1. **Presence** with its proofs: who is who; pager, voting and last seen rest on it. *done*
2. **Sender** with the abstract **Broadcast**: the only lock, and every message. *done*
3. **Registry**, **Lifecycle**: what lives when. *done*
4. **Bridge**: the way of a message through both sides. *done*
5. Handlers that keep something: **Pager**, **Quotes**, **Voting**, **Feeds**,
   **LastSeen** (composed with Presence), **Urls**. *done*
6. The pure algorithms: **ShuntingYard** and **Dice**. *done*
7. **Process**: Lifecycle and Registry composed, with the threads of the handlers
   and their end in `~Bot`. *done*
8. **LeagueLookup** and **Webhooks**: the two handlers with threads of a kind of
   their own. *done*
9. Proofs of every safety property of the runs, of the refinements of Broadcast,
   Lifecycle and Registry, of the measures behind two liveness properties, and of
   promises of section 8 for the settings that keep them: **PresenceProofs** (with
   LastSeen), **SenderProofs**, **PagerProofs**, **QuotesProofs**, **FeedsProofs**,
   **CommandProofs** (Voting, ShuntingYard), **BridgeProofs**, **ThreadsProofs**
   (Process, LeagueLookup, Webhooks, Urls). *done*, but for `Understood` of Dice.
10. Modules, next: roles of Discord (`!sub`, which creates a role and then
    gives it); the alerts of Warframe (one set, two threads); a `!reload` that comes from
    Discord, on lists that the main thread may be walking.

Parameters are CONSTANTS with named assumptions; every operation is an action;
invariants are conjunctions of named parts. RECURSIVE operators are kept to
Dice, about which nothing is to be proved; and
where a library operator takes another one as its argument, of which the provers
could say nothing (`SelectSeq`), a definition on sets of positions stands for it
(`Selected` of **Selection**).

## 3. The modules

Names follow the source where they can. `Init`, `Next` and `Spec` carry the name
of the component (`WebhookSpec`) in Process, LeagueLookup, Webhooks, Urls and
LastSeen, since one module of proofs extends several of them. In every module, definitions called
`X_Something` with the comment "Faulty variant" are not part of the
specification: each is `X` with a plausible bug, and serves to see that a
property notices it (`mutants` in `PROJECT.json`).

**Presence** - `Bot::OnPresence` and all that calls it. `nick2jid` and
`jid2nick` are the two maps, `users` is Discord's `_users`, `room` and
`renaming` are the room as it really is, `notice` is what handlers are told.
Nicks of the room and of Discord may be the same, since the code has one map for
both; `fromDiscord` remembers which nicks of the room the gateway has spoken of.
`WentOnline`, `WentOffline` and `Renamed` are the branches of `OnPresence`;
`Enter`, `Leave`, `ChangeStatus`, `StartRename`, `FinishRename` are the stanzas
the room sends; `GuildCreate`, `GuildMember...`, `PresenceUpdate` the gateway's
events. `SharedJids` are jids that several participants show, such as
`unknown@unknown`.

**Sender** - `Bot::SendMessage` step by step: the lock, the throttle (`Prompt`,
or `Delayed` and then `Wake`), `Post` to the room, the pieces on Discord
(`PostPiece`, `PieceFails`, `NextPiece` of `rclientSafeSend`), `Stamp` and
unlock; and `PostDirectly`, by which Discord's own handler posts without the
lock. `age` is the time since `_lastMessage`. **Broadcast** is the abstract
promise: a list of messages, and a growing set of those that have come through
to the second side, which follows the list with gaps. Sender implements it under
the mapping at its end (`Implemented`). A piece on Discord is known by where it
begins in the text of its call and how many letters it has, so that `Delivered`
can speak of single letters.

**Registry** - handlers are built (`Register`), enabled (`Enable`) in the order
of the list or of the config's set, and dropped (`Reload`). Discord's `Init` may
fail, or throw when Discord cannot be reached, which nobody catches up to `main()`.
Handlers are pairs of a name and a generation, because `_allChatEventHandlers` is
never emptied.
`ThreadPosts` is a call of `SendMessage` by a handler's thread. `HandlersToEnable`
is what `EnableHandlers` goes through: a selection of the list, or of the config
file's set of names (`Listed`).

**Lifecycle** - the loop of `main()` as `pc`, the `Bot`'s exit code, the client
and the room; `Die`, `Restart`, `Reload`, `SigTerm`, `ConnectionLost` at any
point where the code lets them happen; `StartDestroying` and `Destroyed` are the
two ends of `~Bot`; and the config file, which is good, incomplete or broken.

**Process** - EXTENDS Lifecycle and instantiates Registry: a `Bot` is built with
new lists (`StartBot`), `RegisterAllHandlers` is one step of Lifecycle
(`RegisterDone`) and many of Registry (`RegisterSome`), `ReloadAll` reads the file and builds the
handlers again. Threads post from their first moment on (`Post`), also while
`~Bot` takes away what they use, where the outcome is undefined ("late post");
`EndThread` is the destructor of a handler that has one. A web server that has
not yet set `_breakLoop` cannot be told to end, and its thread is dropped.
`HandlerThrows` is an exception that no handler catches, on the thread of the room or
of a web server; `NoIdMap` the crash that a FIXME in `discord.cpp` speaks of. `crash`
names what the process died of.

**Bridge** - what people say on either side (`Say`) arrives as `stanzas` and
`events`; `HandleStanza` and `HandleEvent` are the two entries, `job` is where
each thread is in the list of handlers, `Mirror` is `Discord::HandleMessage`,
`MirrorInRoom` the opposite way, `Answer` a handler that answers. `MirrorOwn` and
`AnswerOwn` are what `OnMessage` does with a command of its own (`!uptime`,
`!help`): it is mirrored first, and no handler sees it. What the bot
posts comes back through the same queues. The room, Discord and people are
external. `SendMessage` is one step here; Sender looks into it.

**Pager** - on each of two threads: `Store` and `Keep`, the two halves of
`StoreMessage`, and the walk over the list (`Arrive`, `Deliver`, `Expire`, `Pass`,
`Purge`, `PurgeFails`, `Drop`, `EndOfScan`), with `cursor` as the iterator. Sending,
removing the row and erasing the entry are three steps, between which the other thread
pages and walks. A thread whose iterator is at an entry that the other has erased
(`Dangling`) does whatever it does: it may remove any rows, and is not followed further
(`wild`). `Stop` and `RestoreMessages` are the restart.

**Quotes** - on each of two threads: `ReadMax` and `Insert` are the two statements of
`AddQuote`; `StartRegenerating`, `UpdateRow`, `EndRegenerating` are `RegenerateIndex`,
which an exception may cut short (`RegenerationFails`), as a crash may (`Stop`). `rows`
maps the primary key to the index; `crossed` remembers whether a command has
begun while another one was half way.

**Voting** - `AddPoll`, `Vote`, `Unvote`, `Invite`, and `ShowResults` with `ClosePoll`,
the two halves of `!closepoll`. `HandlePresence` is a walk: `Connect`, `Skip`, `Tell`
and `Erase` of each invitation, `EndOfWalk`. Between the halves the other thread may
replace or close the poll, or erase the invitation; `Dangling` is as in Pager. Each
poll has a number, so that `invited` and `spent` can tell the invitations of one from
those of another that has taken its id.

**Feeds** - `UpdateFeeds` as `Copy`, `Fetch`, `Update`, `Announce`, `Return` on
each thread, beside `AddRss`, `Insert`, `DelRss`; `Build` is the constructor,
which updates before the room is joined. `crossed` remembers whether two updates have
overlapped: then both may announce the same item, which `AnnouncedOnce` leaves out.
`raced` has the URLs that two threads were adding at once. `Copy` takes any list of the
rows that is in the order of their ids, which is what `get_all` returns.

**LastSeen** - EXTENDS Presence: a step of the room, of Discord or of the bot is
a step of Presence together with `HandlePresence` of the handler, whose second
write may fail (`torn`) or not happen (`DiesBetween`). Both sides write the same rows:
of the tables those with keys that the room has are followed. Of a row of
`useractivity` the status is kept; the texts people said last are left out.
`!seen` looks a name up as a jid first, so `AnswersAreTrue` leaves out nicks that
are somebody's jid.

**LeagueLookup** - `Command`, `Join`, `StartWorker` are `!ll` without a name on
each thread; `worker` is the thread `_lookupHelper` points to, with what it has
heard; `ReadList`, `Request`, `Summarise` are `LookupAllSummoners`. A request has no
time-out, so a server may keep the worker for ever (`Stall`), and with it whoever joins
it. `LookupOne`, `AddSummoner`, `ListSummoners`, `DeleteSummoner` are the other
commands, the first three with what they throw: the gateway catches it, on the
room's thread it ends the process. `Destroy` joins the worker; if its last words (`Says`)
come while the bot is destroyed, `SendMessage` finds its map gone. A `join` on a thread that
another thread has joined since is undefined (`JoinStale`).

**Webhooks** - `MakeServer`, `Bind`, `Handle`, `Posted`, `WriteOut`, `Break` are
what a server's thread does, `Stop` and `Joined` the destructor on the main
thread, `Deliver` is GitHub. `presence` says whether the bot is in its room: what it
posts before or after that is dropped without a word (`shown` has the rest). JSON that is not
made as the code expects throws on the server's thread (`HandlerFails`), and a post while the bot
is destroyed finds a map that is gone (`LatePost`). A reply fills a buffer (`replied`)
that is written out later (`answered`), so a stop in between loses it. A bot that was
reloaded has one server more, which finds the port taken.

**Urls** - `Receive`, `FetchAndLog`, `CheckRules`, `PostTitle`, `Done` are the
loop over a message's URLs, on two threads, beside the commands on rules, which may
come between the check and the post. `PreviewThrows` is a row that cannot be written,
or rules that cannot be read or compiled. `Of` is where the rows or titles of one
message are among those of all.

**ShuntingYard**, **Dice** - `PushToken`, `Finalize`, `EvaluateRPN` and
`GetDiceTokens` as functions on sequences, with `Meaning`, the value an
expression has by precedence and associativity, as the reference. `Throws` stands for
the exception that ".-" causes, a minus with nothing behind it: it ends the process if the
text comes from the room.

## 4. The runs

| run | question | properties |
|---|---|---|
| sender | Two threads send at once, texts of zero to three pieces: do both sides get the same, in one order, spaced, and is the mutex always given back? | `SameOrder`, `Delivered`, `Spacing`, `BroadcastSpec` (refinement), `LockReleased` (liveness) |
| process | Stops, restarts, signals, lost connections, exceptions, edits and reloads anywhere, with handlers' threads posting all the while: is what is enabled what the file says, does a stop end everything, does the process end for a reason only, does it reconnect? | `EnabledAsConfigured`, `EndsForAReason`, `StopEndsAll` and `ReconnectsAnew` (liveness) |
| league | Two threads ask for the watch list at once, the API fails in any way or does not answer, the bot is restarted: is a thread lost, is everyone answered and nobody left out? | `Survives`, `AnswersAreComplete`, `Answered` (liveness) |
| webhooks | Requests beside reloads, restarts and kills, while the bot enters and leaves its room: is what GitHub is told true, is everyone answered, does the next bot listen? | `AckIsHonest`, `EveryoneAnswered` and `ListensAgain` (liveness) |
| pager | Two threads that page and deliver at once, crashes and failing statements between any two steps: is anything lost, doubled, left, out of order, or given to another? | `Durable`, `NothingLost`, `SentOnce`, `NothingLeft`, `JidIsPrivate` |
| quotes | A regeneration that is cut short, two threads one after the other: are indexes still distinct and in order? | `IndexOrder` |
| voting | A shared jid, replaced polls, double invitations, two threads that tell and erase them | `SingleChoice`, `InvitedOnce` |
| feeds | The updater beside commands and a crash | `AnnouncedOnce`, `RemovedStaysRemoved`, `CatchesUp` (liveness) |
| dice | Does every expression get the value that precedence and associativity give it? | `Understood` |
| bridge | Both sides at once, commands for handlers and for the bot itself, a restart, the room's history | `NoEcho`, `InOrder`, `AnswersMakeSense`, `Bridged`, `ComesToRest` (liveness) |
| last_seen | Joins, renames, swapped nicks, shared jids, one nick on both sides, failing writes, restarts: do the maps name the right people, and is `!seen` true? | `Attribution`, `ReverseSound`, `PresentIsListed`, `ArrivalIsNews`, `AnswersAreTrue` |
| urls | Two threads, rules and rows that throw: is all logged, and little shown? | `LoggedAndShown` |

All of them pass. `last_seen` also checks `TypeOK` of Presence. The other modules
define theirs (`SeenTypeOK` in LastSeen; Dice has one variable, its text), the
proofs contain it, and it can be added to the `INVARIANTS` line of any
configuration.

Deadlock is checked for sender, feeds and last_seen. The other models
really come to an end: the bounded number of messages, polls or stops is used
up, or the process has exited or crashed.

A run is repeated with `tlc -config MCPager.cfg MCPager`.

## 5. Bounds

| run | instance | why it is enough |
|---|---|---|
| sender | 2 threads, 2 calls each, lengths 0, 1, 3, 4 with pieces of 2, `age` up to 4 | the first two calls of the threads already interleave in every way; lengths 0 and 4 are the empty text and the exact multiple; the throttle does not get beyond 3 |
| process | 4 of 11 handlers, one of each kind (the bridge, one without a thread that may throw, one that posts, one that serves), 2 settings, one of them without a table of ids, 1 edit, 2 reloads | a good file made unfit, or unfit before a restart; generation n+1 meets n and n-1; a bot is destroyed with threads of three generations |
| league | 2 summoners, 2 threads, at most 2 asked about, 3 rows | a row beyond the limit, one summoner twice, a thread that joins while another starts, a server that says nothing |
| webhooks | 2 handlers in a bot, 2 requests, 1 kill or start after a crash, one hook of each kind that is treated apart | one request waits while the other is posted, answered or lost; a second server beside the first; a bot not yet or no longer in its room |
| pager | 2 threads; 2 people, one whose nick is the jid of the other; 2 messages, 1 stop, lifetime 0, clock to 1 | an expired and a fresh message in one walk, both threads at one message in every order, a crash in it, and a walk in the next life |
| quotes | 2 threads, 4 quotes, 2 stops | gaps at the start, middle and end; a regeneration cut short and repeated; commands of the two sides in turn |
| voting | 2 threads; 2 people with one jid, one of whom may be invited by nick and by jid; 2 themes; 2 options; 2 polls | a second poll of one theme replaces the first, also while the first is being told |
| feeds | 2 feeds, 2 rows, 2 items each, 1 stop, updater and one commanding thread | a feed is added, removed and added again while an old copy is worked on. With two commanding threads the graph is too large for its liveness; what that adds, a feed added by both at once, is in `NoDuplicatesCorrect` and in section 8 |
| dice | texts of up to 6 words out of 9 | a pair of parentheses, a sign and two operators; longer texts repeat these |
| bridge | 2 messages of 3 kinds, 1 stop, with and without webhook | one on each side, or two on one side |
| last_seen | 2 nicks, one of which is used on Discord as well, 2 jids one of which is shared, 1 Discord user, clock to 1 | a nick changes hands through a departure or a rename, or between the two sides; two with one jid; what happened before or after |
| urls | 2 threads, 2 pages, 2 messages with up to 3 URLs of which 2 may be shown, 1 rule, 1 stop | one URL beyond the limit; a rule that comes between a check and a post |

What the theorems of section 7 state holds for every value of these constants;
there the bounds only matter for finding out early what is not true. They limit
liveness, and `Understood` of Dice.

Symmetry of the two threads is used for pager, quotes and voting, which have no liveness
property and treat the threads alike. The runs have between 65 thousand
and ten million distinct states; pager and last_seen take about three minutes each with
two workers, the others less than two.

## 6. Fairness

- *sender*: time passes, and the thread that holds the mutex goes on. Nothing is
  assumed of the threads that wait: `std::mutex` promises no fairness, and
  that a waiting thread gets the mutex is accordingly not claimed.
- *process*: the thread of `main()` goes on, and so do the threads that `~Bot`
  joins (`RSSWatcher`'s looks at a flag every second, `Warframe`'s waits for a
  promise, and libevent's loop is woken). Connections need not be lost, commands and
  exceptions need not come. `leaguelookup`'s helper is not among these threads:
  `LeagueLookup` says what its destructor may wait for.
- *league*: each thread goes on with what it has begun. Requests need not end: `Stall`
  is a step of its own, and `Answered` says what it spares nobody.
- *webhooks*: the servers' threads and the main thread go on, and `SendMessage`
  returns, which of the mutex Sender shows, and of the sockets below it nobody can
  promise. GitHub need not call, the bot need not enter its room or be stopped.
- *bridge*: both threads go on; a bot that is down is started again and joins.
- *feeds*: each thread goes on, a process that has ended is started again, the
  updater's hour comes round (`UpdateThread` is an endless loop with a sleep),
  and a feed that the updater asks again and again answers at last. That last one
  is an assumption about the network, and without it nothing could be promised.

The other runs check safety only.

## 7. Proofs

Eight modules prove the safety properties of the runs for every value of the
constants. Each theorem `XCorrect` states the property `X`; `PROJECT.json` lists
them. In each module `IInv` (in ThreadsProofs one per component) is the inductive
invariant, made of named parts; there is a lemma per action, or per group of
actions that change the same, and a step per part. TLC has checked every `IInv` on
the instance of its run. What is assumed of the constants is in the module
that declares them, and TLC evaluates it in the runs.

| module | theorems | the invariant, and why it is needed |
|---|---|---|
| PresenceProofs, of Presence | `TypeCorrect`, `AttributionCorrect`, `ReverseSoundCorrect`, `PresentIsListedCorrect`, `ArrivalIsNewsCorrect` (action property) | None of the four invariants is inductive: `WentOffline` erases the entry of the *jid* it is given, and that this was an entry of the nick that left follows only if the maps agree with the room (`Attribution`) and the jid has one owner (`UniqueJids`); the second half of a rename finds the nick only if those who are renaming are present (`RenamingIsPresent`). Of a nick that both sides have, the entry may be Discord's or be gone, but a jid of the room in it is right. |
| PresenceProofs, of LastSeen | `SeenIsPresence` (LastSeen does to the maps only what Presence does, so all of the above holds of it), `AnswersAreTrueCorrect` | `useractivity` has of every jid what was heard of it last, unless a write about it has failed (`TableAgrees`); and something was heard of whoever is present, and of every jid in the table `nicks`, so `!seen` never speaks of somebody who was never there. |
| SenderProofs | `TypeCorrect`, `SameOrderCorrect`, `DeliveredCorrect`, `SpacingCorrect` (action property), `BroadcastCorrect` (refinement) | All of it rests on who has the mutex (`MutexOK`): the holder's text is the last in the room (`RoomOK`), its pieces come after all pieces of earlier texts (`DiscordOK`), nobody else moves the time stamp while it sleeps (`SpacingOK`). `ProgressOK` says to which letter the pieces have come. `ThrottleOK` keeps the throttle below `Horizon`, up to which time is told apart. |
| SenderProofs, towards `LockReleased` | `HolderProgresses` (action property) | `Work` is a natural number: the steps the holder of the mutex has before it, and the seconds it still sleeps. Each of them makes it smaller, and nothing else changes it: no setting, no other thread. A thread sleeps only behind its throttle or behind a piece that is not beyond the last (`WaitOK`). |
| PagerProofs | `TypeCorrect`, `DurableCorrect`, `NothingLostCorrect`, `SentOnceCorrect`, `NothingLeftCorrect` and `JidIsPrivateCorrect` (`NothingLeft` is an action property) | For any number of threads. What has a row has not been sent, unless some thread is just removing the row or it could not be removed; what a thread is removing has been sent by it; of what was there for a visitor, nothing lies behind the cursor. |
| QuotesProofs | `TypeCorrect`, `IndexOrderCorrect`, `RegenerationIsComplete` (action property) | All of it as long as no two commands have overlapped (`InTurn`). The rows that a regeneration has rewritten come first, and the others still have larger indexes than it has given, so that a crash leaves two halves that fit; nobody takes the index between the two statements of `AddQuote`. The rows rewritten so far have the indexes from 1 on, without a gap (`Counted`): so the number that `RegenerateIndex` returns is that of the quotes. |
| CommandProofs, of Voting | `TypeCorrect`, `SingleChoiceCorrect`, `InvitedOnceCorrect` | For any number of threads. Polls are told by number, and numbers are given once, so that what was told of a poll that is gone is not taken for one of its successor; a thread that is about to erase an invitation holds one of the poll it is at, or one that is gone. |
| CommandProofs, of ShuntingYard | `YardInvariance`, `RefusedIsUnbalanced`, `NothingLostInTheYard` | A specification of its own, `YardSpec`, gives a yard one token after the other, as the loop of `DiceRoller::HandleMessage` does. Finished tokens and stack together are one line (`Line`): popping moves the border in it (`PoppedMoves`), a new token is put in at the border or takes one parenthesis away (`InsertedKeeps`). That a token that makes nothing at the top go makes nothing further down go either is `GoesBeforeFurther`; it keeps the stack ordered (`WellStacked`). TLC has checked `YardInv` for all texts of up to 7 tokens with three operators. |
| FeedsProofs | `TypeCorrect`, `AnnouncedOnceCorrect`, `RemovedStaysRemovedCorrect` (action properties), `NoDuplicatesCorrect` | For any number of commanding threads. A row has the URL of every copy of it, since ids are not used again (`IdsOK`, `CopiesAgree`). As long as no two updates have overlapped, what was announced is not newer than the row and its copies (`InTurn`). Whoever is about to insert a URL that is not `raced` has found it missing and is alone with it (`NotYetThere`, `NobodyElse`). |
| BridgeProofs | `TypeCorrect`, `NoEchoCorrect`, `InOrderCorrect`, `AnswersMakeSenseCorrect` | Whether a message is new does not show in the two logs. The queues and the jobs are kept in order (`RoomQueueInOrder`, `DiscordQueueInOrder`, `JobsOK`), and what waits in them has not been mirrored or answered yet (`NotYetDone`). |
| BridgeProofs, towards `ComesToRest` | `BotSettles` (action property) | `Unfinished` is a natural number made of what is in the queues, what has been said and not been heard, and how far each thread is in its list of handlers. It is 0 exactly when the bot is at rest, and every step of the two threads makes it smaller, though a step may post on both sides: what the bot itself has posted comes back and causes nothing. |
| ThreadsProofs, of Process | `EnabledAsConfiguredCorrect`, `EndsForAReasonCorrect` | What has been built is all generations before, and of this one what is no longer to come (`BuiltOK`); what is enabled and what is going to be are together what is asked for (`EnabledOK`). Nobody has a thread before Discord is there, except after a `!reload`, and the map is without it only until the first handler is built; with settings that list the modules no handler with a thread is enabled again (`ThreadsOK`); what the process has died of fits where it was (`CrashOK`); exit codes come from commands (`AskedFor`). |
| ThreadsProofs, of Process and Lifecycle | `ProcessIsLifecycle` (refinement), `LifecycleTypeCorrect`, `SettingsGoForward`, `HandlersAsInRegistry` (action properties) | A step of a handler or of its thread leaves what Lifecycle speaks of as it was, or ends the process as `Lifecycle` allows. `Settings` is read in two steps, of which a refused file takes the first only: the configuration is of the version of the ids or a later one (`SettingsInOrder`). Of Registry's variables, `main()` only empties the lists when a bot is built and ends threads in `~Bot` (`NoHandlers`, `BotEnds`), and an exception changes `crash` (`Uncaught`). |
| ThreadsProofs, of Process and Registry | `ReloadKeepsThreadsIfByName`, `InitOnceIfByName` | A `!reload` builds the handlers anew, but enables by name those of the new generation only, if the settings list the modules; otherwise it walks the old ones as well. The settings in force are always among those the file may have (`ConfigOK`), so `Init` is called at most once of each handler in question and not yet of one that is still to be enabled (`InitsOK`), and no thread is replaced (`NoneReplaced`). |
| ThreadsProofs, of LeagueLookup | `SurvivesCorrect`, `AnswersAreCompleteCorrect` | Unless two threads have been at `!ll`, one that joins or starts the helper is the only one there (`OneAtLL`), whatever the helper dies of; the helper's three lists fit each other entry by entry (`Noticed`). |
| ThreadsProofs, of Webhooks | `AckIsHonestCorrect` | A server that listens has the port, so there is one, and a request that is being posted is at a server that listens (`OneServes`). What a request has caused follows from its stage, and a request that is neither shown nor `apart` is at a bot that is in its room (`RequestsOK`). |
| ThreadsProofs, of Urls | `LoggedAndShownCorrect` | Each thread has a message of its own, and what it is at (`doing`) and its counter give the number of rows that message has and a bound on the titles shown (`JobsOK`). |

Assumptions that are not evident:

- `PresenceAssumption`: a jid is not the name of a Discord user (one has a '@', the other
  a '#'), and "" and "none" are apart. Nicks may be the same on both sides.
- `PagerAssumption`: a nick that is also somebody's jid has a '@', as jids have.
- `VotingAssumption`: the markers for no poll and for an erased one are none that people type.
- `LeagueAssumption`: of the threads that call the handler, some catch what it throws.
- `RegistryAssumption`: `RegisterAllHandlers` builds no name twice, no handler starts
  a thread both when it is built and when it is enabled, and Discord posts
  nothing while it is built.
- `BridgeAssumption`: at most one handler is Discord.
- `WebhooksAssumption`: no more than the types of a hook's fields.

Some theorems have a hypothesis of their own. Each is one that settings of the program
meet, and for all but the last TLC finds the promise broken without it (section 8):

- `AnswersMakeSenseCorrect` wants Discord to be asked first (`DiscordFirst` in
  BridgeProofs), which a list of modules in the config may change;
- `ReloadKeepsThreadsIfByName` and `InitOnceIfByName` want settings that list the
  modules, or that enable none of the handlers in question (`ByName`). With such a
  list the promises are kept; the file as it is delivered has none;
- `EndsForAReasonCorrect` wants Discord to be built first
  (`DiscordFirst` in ThreadsProofs): the code does so, and were RSS built before it, its
  constructor would post through a null pointer.

Others have an exception in what they state, a ghost variable that remembers that the
circumstances were those in which the code does not keep the plain promise: `crossed` in
`IndexOrder` and `AnnouncedOnce`, `raced` in `NoDuplicates`, `overlapped` in `Survives`,
`excused` in `SentOnce` and `Durable`, `fromDiscord` in `Attribution` and `ArrivalIsNews`,
`apart` in `AckIsHonest`, `thrown` in `LoggedAndShown`, `torn` in `AnswersAreTrue`. What
the code does then is in section 8.

Attempts to prove showed some places where a model was wrong or said less than it
seemed to. A nick that reads like a jid is looked up as one, so `AnswersAreTrue` had to
leave it out. Arms of a `CASE` overlapped in `FormatWebhookMessage` and in
ShuntingYard's `Apply`, where only the order that TLC takes them in made them
right. `Delivered` spoke of the size of pieces; it now says of each letter where it is.

Induction over the natural numbers is done through the least counterexample
(`LeastNatural`, by the library's theorem on well-founded relations):
`MaxIndexIsLargest` in QuotesProofs, `SelectedFacts` in ThreadsProofs and
`PoppedIs` in CommandProofs rest on it. Induction over the tokens of a text is done
as for any other behaviour: they come one by one, and `YardInv` is an invariant.

Only model-checked:

- `Understood` of Dice: what `Meaning` (a recursive function), `EvaluateRPN` (a
  fold) and the tokenizer (RECURSIVE) compute for texts of any length. CommandProofs
  covers the step between them, from tokens to the line that is evaluated.
- Liveness, which is out of the prover's reach together with ENABLED:
  `LockReleased`, `StopEndsAll`, `ReconnectsAnew`, `Answered`, `EveryoneAnswered`,
  `ListensAgain`, `CatchesUp`, `Bridged`, `ComesToRest`. Of `LockReleased` and
  `ComesToRest` the safety half is proved: a measure that the steps which fairness
  demands make smaller (`HolderProgresses`, `BotSettles`). What is left to TLC is
  that such a step is possible as long as the measure is not 0.

## 8. What the code does not keep

While modelling, these promises turned out not to be kept. Each is a property
of its module; the counterexample is a few steps long in every case. To see it,
put the property in the place of those that the named configuration checks
(without its symmetry), with the values that are given. The quotations are what the code or its
documentation says.

| property | where | the promise | what happens |
|---|---|---|---|
| `OnlineListIsJabber` | MCLastSeen | "!jabber - list current jabber users online" (`src/handlers/discord.cpp:437`) | Discord users are in `_jid2nick` too and are listed |
| `Handling!ReloadKeepsThreads` | MCProcess (give it a name there), `Configs <- MCDefaultConfig` | "Settings successfully reloaded, re-registering handlers..." (`src/bot.cpp:173`) | handlers of the old generation are enabled again; an `Init` that starts a thread assigns to one that runs, and the process ends. Kept by settings that list the modules (`ReloadKeepsThreadsIfByName`) |
| `Handling!ReloadKeepsBridge` | MCProcess (likewise) | the same | a thread posts while the map is empty, and a null pointer is dereferenced |
| `Handling!InitOnce` | MCProcess (likewise) | "Called once when module is enabled" (`src/handlers/lemonhandler.h:52`) | as with `ReloadKeepsThreads`; kept likewise (`InitOnceIfByName`) |
| `TerminationIsFinal` | Lifecycle itself, `FairSpec`, `MaxEdits = 0` | "Termination requested" (`src/bot.cpp:318`) | before the client exists nothing is closed, and the bot connects all the same |
| `SettingsOfOneFile` | Lifecycle itself, `Spec`, `MaxEdits = 1` | "Failed to reload settings" (`src/bot.cpp:179`) | the parsed file has been replaced already; it is newer than the rest, never older (`SettingsGoForward`) |
| `ArrivalIsNewsOnBothSides` | MCLastSeen | "isNewConnection" (`src/bot.cpp:204`), by which pager and polls know an arrival | somebody of that nick is online on Discord: the nick is in `_nick2jid` already, and the arrival in the room is taken for a change of status |
| `RowExpiresAlike` | MCPager | "Paged messages are lost after 72 hours" (`src/handlers/pager.cpp:103`) | the row gets the expiration of the last message of the list, which is another one, or none; after a restart it counts |
| `StaysTame` | MCPager, MCVoting | a message or an invitation is handed over and then forgotten (`src/handlers/pager.cpp:87`, `src/handlers/vote.cpp:51`) | two threads that hand the same message, or the same invitation, over at once: the second uses the iterator of an entry that the first has erased |
| `DeletesWhatWasAsked` | MCQuotes | "!dq %id% - delete quote" (`src/handlers/quotes.cpp:75`) | deletes by key, while `!gq` finds by index |
| `DeletedIsDeleted` | MCQuotes | "quote doesn't exist or access denied" (`src/handlers/quotes.cpp:44`) | said of nonsense only; a number that nobody has is confirmed |
| `IndexIsUnique` | MCQuotes | "!gq %id% - get quote" (`src/handlers/quotes.cpp:76`) | two quotes added at once get one index; kept as long as commands do not overlap (`IndexOrderCorrect`) |
| `PollsStay` | MCVoting | "Only owner can close a poll" (`src/handlers/vote.cpp:189`) | anybody replaces it with a poll of the same id |
| `OnlyOwnersClose` | MCVoting, with a jid of his own for bob | the same | while `SendMessage` shows the results, another poll of that id is added, which is then erased |
| `AckMeansShown` | MCWebhooks | "OK" to GitHub (`src/handlers/githubwebhooks.cpp:88`) | what is posted while the bot is not in its room is dropped without a word |
| `AnnouncedIsShown` | MCFeeds | "dump latest items in chat" (`README.md:21`) | what the constructor finds is sent before the room is joined |
| `NeverTwice` | MCFeeds, `Commanders = {Stream, Gateway}` | "Feed already exists" (`src/handlers/rss.cpp:90`) | two threads both find it missing; in no other way (`NoDuplicatesCorrect`) |
| `AllUnderstood` | MCDice | "write an expression using integer numbers, dice in format XdY, parenthesis or operators" (`src/handlers/diceroller.cpp:190`) | a minus after a closing parenthesis is read as a sign |
| `NeverThrows` | MCDice | the same: what cannot be read gets no answer, and the next handler is asked | ".-" is read past its end before anything is caught; from the room this ends the process |
| `AnswersMakeSense` | MCBridge, `Handlers <- MCByName` | the question before its answer | with `Modules` in the config, handlers are asked by name, and dice comes before discord |
| `RulesAreSpecific` | MCUrls | "enable/disable notifications for specific urls" (`src/handlers/urlpreview.cpp:120`) | one rule that is no regular expression throws for every URL |
| `BlacklistedIsQuiet` | MCUrls; also with `Patterns`, `Matches` and `LoweredMatches` from `MCCase...`, `Broken = {}` | the same | a rule that is added while `SendMessage` waits comes too late; and the rule is put in lower case, the URL is not |

Others are smaller. `!addsummoner` says "Summoner not found" whatever error the API
reports. "message stored" of the pager is said after a failed insert as well, as is "Rule
added" of any text. After a `!reload` that was refused, the settings are those of the
refused file as far as it was read, and a lost connection is followed by a bot built
from them. A server that takes the request of a lookup and never answers keeps the
worker, the next `!ll`, and `~Bot` (`Answered` makes an exception for it). In Process,
`EndsForAReason`, `StopEndsAll` and `ReconnectsAnew` allow a process that dies in the
ways that `EndsForAReason` lists, each where it can happen: there the code does not keep
the plain promise of a bot that goes on.

## 9. What is not modelled

- Formatting, wording, and commands that only read (searching quotes and URLs,
  statistics, `!discord`).
- Data races inside containers and reference counts (`_nick2jid`, `_room`, `_messages`):
  undefined behaviour that no state of the model stands for. Each use is a step, an
  operation on the pager's list and what Voting does between two messages included;
  and Voting's tables are taken not to be rehashed during a walk. Once a thread has used
  a dangling iterator, Pager and Voting do not follow the process further.
- Reads of the database in constructors and statistics (`get_all` of pager, rss and
  others), which are not in a `try`: a failure ends the process. They are modelled where
  a handler goes on after it, or loses what it was at (Quotes, Urls, LeagueLookup).
- Splitting a text inside a UTF-8 character; the escaping of names and mentions.
- Random numbers: a die comes up as a number.
- The years beyond 2038, and an empty theme of a poll, where `std::string::at`
  throws.
- `!reload` from Discord's thread: it empties and fills lists of handlers that the main thread may
  be walking, which is undefined behaviour; Process takes it from the room only.
- Warframe's alerts: its updater and `!wf` read and replace one set without a lock,
  and what is worth promising (an alert is posted once, and each is) does not
  hold. Its thread is one of `Serving` in Registry and Process.
- Discord's roles (`!sub`), `cliclient.cpp`, which is for trying the bot by hand,
  `goodenough.cpp`, which nothing calls, and vendored code.
