-------------------------------- MODULE Urls --------------------------------
(***************************************************************************)
(* The URL preview (src/handlers/urlpreview.cpp): every URL in a message   *)
(* is fetched and logged, and the titles of the first few are posted,      *)
(* unless the rules silence them.  The threads of both sides run it, and   *)
(* both change the rules, while one fetches, asks the rules, or waits in   *)
(* SendMessage.  Neither the row of the log nor the table of rules is      *)
(* guarded: an exception ends the process when it leaves the handler on    *)
(* the thread of the XMPP stream; the gateway logs it and gives up the     *)
(* message.                                                                *)
(***************************************************************************)
EXTENDS Naturals, Sequences, FiniteSets, SequencesExt, Selection

CONSTANTS
  Pages,             \* URLs
  Patterns,          \* texts given as rules
  Broken,            \* those that std::regex refuses
  Matches,           \* the URLs each of the others matches as it was written,
  LoweredMatches,    \* and as it is used, in lower case
  MaxURLsInMessage,  \* maxURLsInOneMessage: 5
  MaxSites,          \* bound: URLs in a message
  MaxMessages,       \* bound: messages with URLs
  MaxRules,          \* bound: rules ever added
  MaxStops           \* bound: ends of the process

Threads == {"stream", "gateway"}

ASSUME UrlsAssumption ==
  /\ Broken \subseteq Patterns
  /\ Matches \in [Patterns \ Broken -> SUBSET Pages]
  /\ LoweredMatches \in [Patterns \ Broken -> SUBSET Pages]
  /\ {MaxURLsInMessage, MaxSites, MaxMessages, MaxRules, MaxStops} \subseteq Nat

VARIABLES
  rules,     \* the table "url_rules"
  added,     \* rules added so far: the last id of the table
  messages,  \* the URLs of each message so far, as findURLs lists them
  log,       \* the table "url_log", with the message each row is from
  posts,     \* the titles posted: for which message, and which of its URLs
  job,       \* the message each thread is at, or 0
  found,     \* urlsFound: how many of its URLs are done
  doing,     \* what it does about the next: "fetching", "checking" or "posting"
  title,     \* the title of the page fetched last, "" or "text"
  thrown,    \* messages given up because of an exception
  up, stops  \* whether the process runs, and how often it has ended

previewVars ==
  <<rules, added, messages, log, posts, job, found, doing, title, thrown, up, stops>>

\* What getTitle makes of a page: none, or some text, be it a complaint about
\* the length or the code page of the title.
Titles == {"", "text"}

Rules == [id : 1..MaxRules, pattern : Patterns, blacklist : BOOLEAN]

UrlsTypeOK ==
  /\ rules \subseteq Rules
  /\ added \in 0..MaxRules
  /\ messages \in Seq(Seq(Pages)) /\ Len(messages) <= MaxMessages
  /\ log \in Seq([message : 1..MaxMessages, url : Pages])
  /\ posts \in Seq([message : 1..MaxMessages, site : 1..MaxSites])
  /\ job \in [Threads -> 0..MaxMessages]
  /\ found \in [Threads -> 0..MaxSites]
  /\ doing \in [Threads -> {"fetching", "checking", "posting"}]
  /\ title \in [Threads -> Titles]
  /\ thrown \subseteq 1..MaxMessages
  /\ up \in BOOLEAN /\ stops \in 0..MaxStops

PreviewInit ==
  /\ rules = {} /\ added = 0
  /\ messages = <<>> /\ log = <<>> /\ posts = <<>>
  /\ job = [t \in Threads |-> 0]
  /\ found = [t \in Threads |-> 0]
  /\ doing = [t \in Threads |-> "fetching"]
  /\ title = [t \in Threads |-> ""]
  /\ thrown = {}
  /\ up = TRUE /\ stops = 0

-----------------------------------------------------------------------------
(* The rules                                                               *)

\* "Rule added" is said of any text.
AddRuleToRuleset(t, pattern, blacklist) ==
  /\ up /\ job[t] = 0 /\ added < MaxRules
  /\ added' = added + 1
  /\ rules' = rules \cup {[id |-> added + 1, pattern |-> pattern, blacklist |-> blacklist]}
  /\ UNCHANGED <<messages, log, posts, job, found, doing, title, thrown, up, stops>>

DelRuleFromRuleset(t, id) ==
  /\ up /\ job[t] = 0
  /\ rules' = {r \in rules : r.id # id}
  /\ UNCHANGED <<added, messages, log, posts, job, found, doing, title, thrown, up, stops>>

\* shouldPrintTitle, for rules that are all regular expressions
ShouldPrintTitle(url) ==
  LET matching == {r \in rules : url \in LoweredMatches[r.pattern]}
  IN (\E r \in matching : r.blacklist) => (\E r \in matching : ~r.blacklist)

-----------------------------------------------------------------------------
(* UrlPreview::HandleMessage                                               *)

\* findURLs: std::unique removes a URL that follows itself.
FindURLs(text) ==
  Selected(text, {k \in DOMAIN text : k = 1 \/ text[k] # text[k - 1]})

Receive(t, text) ==
  /\ up /\ job[t] = 0 /\ Len(messages) < MaxMessages
  /\ messages' = Append(messages, FindURLs(text))
  /\ job' = [job EXCEPT ![t] = Len(messages')]
  /\ found' = [found EXCEPT ![t] = 0]
  /\ doing' = [doing EXCEPT ![t] = "fetching"]
  /\ UNCHANGED <<rules, added, log, posts, title, thrown, up, stops>>

Sites(t) == messages[job[t]]
Site(t) == found[t] + 1  \* the number of the URL a thread is at

At(t, place) == job[t] # 0 /\ found[t] < Len(Sites(t)) /\ doing[t] = place

\* Faulty variant: URLs beyond the limit are not logged.
FetchAndLog_OnlyShown(t) ==
  /\ At(t, "fetching")
  /\ \E text \in Titles : title' = [title EXCEPT ![t] = text]
  /\ doing' = [doing EXCEPT ![t] = "checking"]
  /\ log' = IF found[t] < MaxURLsInMessage
              THEN Append(log, [message |-> job[t], url |-> Sites(t)[Site(t)]]) ELSE log
  /\ UNCHANGED <<rules, added, messages, posts, job, found, thrown, up, stops>>

\* There is no title if there is no page.
FetchAndLog(t) ==
  /\ At(t, "fetching")
  /\ \E text \in Titles : title' = [title EXCEPT ![t] = text]
  /\ doing' = [doing EXCEPT ![t] = "checking"]
  /\ log' = Append(log, [message |-> job[t], url |-> Sites(t)[Site(t)]])
  /\ UNCHANGED <<rules, added, messages, posts, job, found, thrown, up, stops>>

\* The rules are read and compiled for every URL, the titles of which are not
\* shown included.
CheckRules(t) ==
  /\ At(t, "checking")
  /\ \A r \in rules : r.pattern \notin Broken
  /\ IF ShouldPrintTitle(Sites(t)[Site(t)]) /\ found[t] < MaxURLsInMessage /\ title[t] # ""
       THEN doing' = [doing EXCEPT ![t] = "posting"] /\ UNCHANGED found
       ELSE /\ doing' = [doing EXCEPT ![t] = "fetching"]
            /\ found' = [found EXCEPT ![t] = @ + 1]
  /\ UNCHANGED <<rules, added, messages, log, posts, job, title, thrown, up, stops>>

\* SendMessage has got its mutex and slept: the title is in the chat.
PostTitle(t) ==
  /\ At(t, "posting")
  /\ posts' = Append(posts, [message |-> job[t], site |-> Site(t)])
  /\ doing' = [doing EXCEPT ![t] = "fetching"]
  /\ found' = [found EXCEPT ![t] = @ + 1]
  /\ UNCHANGED <<rules, added, messages, log, job, title, thrown, up, stops>>

\* The row of the log cannot be inserted, or the rules cannot be read, or one of
\* them is no regular expression.
PreviewThrows(t) ==
  /\ At(t, "fetching") \/ At(t, "checking")
  /\ IF t = "stream"
       THEN /\ stops < MaxStops /\ stops' = stops + 1
            /\ up' = FALSE /\ job' = [u \in Threads |-> 0]
            /\ thrown' = thrown \cup ({job[u] : u \in Threads} \ {0})
       ELSE /\ job' = [job EXCEPT ![t] = 0]
            /\ thrown' = thrown \cup {job[t]}
            /\ UNCHANGED <<up, stops>>
  /\ UNCHANGED <<rules, added, messages, log, posts, found, doing, title>>

Done(t) ==
  /\ job[t] # 0 /\ found[t] = Len(Sites(t))
  /\ job' = [job EXCEPT ![t] = 0]
  /\ UNCHANGED <<rules, added, messages, log, posts, found, doing, title, thrown, up, stops>>

RestartProcess ==
  /\ ~up
  /\ up' = TRUE
  /\ UNCHANGED <<rules, added, messages, log, posts, job, found, doing, title, thrown, stops>>

PreviewNext ==
  \/ RestartProcess
  \/ \E t \in Threads :
       \/ \E pattern \in Patterns, blacklist \in BOOLEAN : AddRuleToRuleset(t, pattern, blacklist)
       \/ \E id \in 1..added : DelRuleFromRuleset(t, id)
       \/ \E text \in SeqOf(Pages, MaxSites) : Receive(t, text)
       \/ FetchAndLog(t) \/ CheckRules(t) \/ PostTitle(t) \/ PreviewThrows(t) \/ Done(t)

PreviewSpec == PreviewInit /\ [][PreviewNext]_previewVars

-----------------------------------------------------------------------------
(* Properties                                                              *)

\* Where the rows of one message are.
Of(rows, m) == {i \in DOMAIN rows : rows[i].message = m}

\* Whatever both threads do at once, what is logged of a message is its URLs in
\* their order, and all of them once it is done, those beyond the limit included,
\* unless an exception has cut it short; while the titles it brings are those of
\* some of its first MaxURLsInMessage URLs, in their order, so that neither a
\* repeated URL nor a silenced one makes room for more.
LoggedAndShown ==
  /\ \A i \in DOMAIN log :
       LET m == log[i].message
       IN log[i].url = messages[m][Rank(Of(log, m), i)]
  /\ \A m \in DOMAIN messages :
       (\A t \in Threads : job[t] # m) /\ m \notin thrown =>
         Cardinality(Of(log, m)) = Len(messages[m])
  /\ \A i \in DOMAIN posts : posts[i].site <= MaxURLsInMessage
  /\ \A i, j \in DOMAIN posts :
       i < j /\ posts[i].message = posts[j].message => posts[i].site < posts[j].site

\* "!wlisturl %regex% and !blisturl %regex% - enable/disable notifications for
\* specific urls" (GetHelp): no rule keeps the handler from going on with a URL,
RulesAreSpecific ==
  \A t \in Threads : At(t, "checking") => \A r \in rules : r.pattern \notin Broken

\* and it silences the URLs that it matches as it was written, whether it was there
\* when the message came or has come meanwhile.
BlacklistedIsQuiet ==
  [][\A t \in Threads : PostTitle(t) =>
       LET url == Sites(t)[Site(t)]
       IN (\E r \in rules : r.blacklist /\ url \in Matches[r.pattern]) =>
            \E r \in rules : ~r.blacklist]_previewVars
=============================================================================
