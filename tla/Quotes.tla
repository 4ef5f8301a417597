------------------------------- MODULE Quotes -------------------------------
(***************************************************************************)
(* The quotes database (src/handlers/quotes.cpp).  A row has two numbers:  *)
(* the primary key, which SQLite hands out in increasing order and never   *)
(* again, and "index", the number people see and use.  The index is made   *)
(* by reading the largest one and inserting a row with the next; a         *)
(* regeneration reads all rows and rewrites their indexes one by one.      *)
(* Each call to the storage is a step: commands come from the XMPP thread  *)
(* and from the gateway thread of Discord, and the process may end between *)
(* any two calls.                                                          *)
(***************************************************************************)
EXTENDS Integers, FiniteSets

CONSTANTS
  Threads,     \* threads that run Bot::OnMessage
  MaxQuotes,   \* bound: quotes added
  MaxStops     \* bound: crashes and restarts

ASSUME QuotesAssumption == MaxQuotes \in Nat /\ MaxStops \in Nat

VARIABLES
  rows,    \* the table "quotes": the index of each primary key, 0 for no row
  nextId,  \* the next primary key
  pc,      \* what each thread does: "idle", "adding", "regenerating"
  newID,   \* AddQuote: the index of the quote it is about to insert
  todo,    \* RegenerateIndex: the primary keys still to be rewritten
  index,   \* RegenerateIndex: the last index it has given
  reply,   \* the answer to the last !dq, and the index it was about
  crossed, \* ghost: a command has begun while another one was half way
  stops    \* how often the process has ended

vars == <<rows, nextId, pc, newID, todo, index, reply, crossed, stops>>

Keys == 1..MaxQuotes
Quotes == {k \in Keys : rows[k] # 0}
Indexes == {rows[k] : k \in Quotes}
Replies == [text : {"none", "deleted", "denied", "invalid"}, asked : Int, gone : Nat]
NoReply == [text |-> "none", asked |-> 0, gone |-> 0]

\* The largest element of a finite set of numbers, 0 of the empty one:
\* storage.max(&DB::Quote::humanIndex), and "no quotes".
MaxIndex(S) == IF S = {} THEN 0 ELSE CHOOSE m \in S : \A n \in S : n <= m

TypeOK ==
  /\ rows \in [Keys -> Nat]
  /\ nextId \in 1..(MaxQuotes + 1)
  /\ pc \in [Threads -> {"idle", "adding", "regenerating"}]
  /\ newID \in [Threads -> Nat]
  /\ todo \in [Threads -> SUBSET Keys]
  /\ index \in [Threads -> Nat]
  /\ reply \in Replies
  /\ crossed \in BOOLEAN
  /\ stops \in 0..MaxStops

Init ==
  /\ rows = [k \in Keys |-> 0]
  /\ nextId = 1
  /\ pc = [t \in Threads |-> "idle"]
  /\ newID = [t \in Threads |-> 0]
  /\ todo = [t \in Threads |-> {}]
  /\ index = [t \in Threads |-> 0]
  /\ reply = NoReply
  /\ crossed = FALSE
  /\ stops = 0

\* A command begins on t while another thread is in the middle of one.
Crossed(t) == crossed \/ \E u \in Threads \ {t} : pc[u] # "idle"

-----------------------------------------------------------------------------
(* !aq: Quotes::AddQuote                                                   *)

\* Faulty variant: the index is the number of quotes plus one.
ReadMax_Counts(t) ==
  /\ pc[t] = "idle" /\ nextId <= MaxQuotes
  /\ newID' = [newID EXCEPT ![t] = Cardinality(Quotes) + 1]
  /\ pc' = [pc EXCEPT ![t] = "adding"]
  /\ crossed' = Crossed(t)
  /\ UNCHANGED <<rows, nextId, todo, index, reply, stops>>

ReadMax(t) ==
  /\ pc[t] = "idle" /\ nextId <= MaxQuotes
  /\ newID' = [newID EXCEPT ![t] = MaxIndex(Indexes) + 1]
  /\ pc' = [pc EXCEPT ![t] = "adding"]
  /\ crossed' = Crossed(t)
  /\ UNCHANGED <<rows, nextId, todo, index, reply, stops>>

Insert(t) ==
  /\ pc[t] = "adding" /\ nextId <= MaxQuotes
  /\ rows' = [rows EXCEPT ![nextId] = newID[t]]
  /\ nextId' = nextId + 1
  /\ pc' = [pc EXCEPT ![t] = "idle"]
  /\ newID' = [newID EXCEPT ![t] = 0]
  /\ UNCHANGED <<todo, index, reply, crossed, stops>>

\* The insert throws: "can't add quote".
InsertFails(t) ==
  /\ pc[t] = "adding"
  /\ pc' = [pc EXCEPT ![t] = "idle"]
  /\ newID' = [newID EXCEPT ![t] = 0]
  /\ UNCHANGED <<rows, nextId, todo, index, reply, crossed, stops>>

-----------------------------------------------------------------------------
(* !dq: Quotes::DeleteQuote removes the row whose primary key is the number *)
(* that was given; that there is none is no error.                         *)

Delete(t, id) ==
  /\ pc[t] = "idle"
  /\ IF id \in Keys
       THEN /\ rows' = [rows EXCEPT ![id] = 0]
            /\ reply' = [text |-> "deleted", asked |-> id, gone |-> rows[id]]
       ELSE /\ reply' = [text |-> "deleted", asked |-> id, gone |-> 0]
            /\ UNCHANGED rows
  /\ crossed' = Crossed(t)
  /\ UNCHANGED <<nextId, pc, newID, todo, index, stops>>

\* It throws: "quote doesn't exist or access denied".
DeleteFails(t, id) ==
  /\ pc[t] = "idle"
  /\ reply' = [text |-> "denied", asked |-> id, gone |-> 0]
  /\ UNCHANGED <<rows, nextId, pc, newID, todo, index, crossed, stops>>

\* from_string<int> finds no number: "Invalid ID".
DeleteNonsense(t) ==
  /\ pc[t] = "idle"
  /\ reply' = [text |-> "invalid", asked |-> 0, gone |-> 0]
  /\ UNCHANGED <<rows, nextId, pc, newID, todo, index, crossed, stops>>

-----------------------------------------------------------------------------
(* !regenquotes: Quotes::RegenerateIndex                                   *)

StartRegenerating(t) ==
  /\ pc[t] = "idle"
  /\ todo' = [todo EXCEPT ![t] = Quotes]
  /\ index' = [index EXCEPT ![t] = 0]
  /\ pc' = [pc EXCEPT ![t] = "regenerating"]
  /\ crossed' = Crossed(t)
  /\ UNCHANGED <<rows, nextId, newID, reply, stops>>

\* get_all gives the rows by primary key.  An update of a row that has been
\* deleted meanwhile changes nothing.
UpdateRow(t, k) ==
  /\ pc[t] = "regenerating"
  /\ k \in todo[t] /\ \A m \in todo[t] : k <= m
  /\ index' = [index EXCEPT ![t] = @ + 1]
  /\ rows' = IF rows[k] = 0 THEN rows ELSE [rows EXCEPT ![k] = index'[t]]
  /\ todo' = [todo EXCEPT ![t] = @ \ {k}]
  /\ UNCHANGED <<nextId, pc, newID, reply, crossed, stops>>

\* A call to the storage throws; nobody in Quotes catches it.  The gateway thread
\* gives up the command.  (On the XMPP thread the process ends: Stop.)
RegenerationFails(t) ==
  /\ pc[t] = "regenerating"
  /\ pc' = [pc EXCEPT ![t] = "idle"]
  /\ todo' = [todo EXCEPT ![t] = {}]
  /\ index' = [index EXCEPT ![t] = 0]
  /\ UNCHANGED <<rows, nextId, newID, reply, crossed, stops>>

\* "Index regenerated. New count: ..."
EndRegenerating(t) ==
  /\ pc[t] = "regenerating" /\ todo[t] = {}
  /\ pc' = [pc EXCEPT ![t] = "idle"]
  /\ index' = [index EXCEPT ![t] = 0]
  /\ UNCHANGED <<rows, nextId, newID, todo, reply, crossed, stops>>

\* The process ends: what the database has, stays.
Stop ==
  /\ stops < MaxStops
  /\ stops' = stops + 1
  /\ pc' = [t \in Threads |-> "idle"]
  /\ newID' = [t \in Threads |-> 0]
  /\ todo' = [t \in Threads |-> {}]
  /\ index' = [t \in Threads |-> 0]
  /\ reply' = NoReply
  /\ UNCHANGED <<rows, nextId, crossed>>

Step(t) ==
  \/ ReadMax(t) \/ Insert(t) \/ InsertFails(t)
  \/ \E id \in 0..(MaxQuotes + 1) : Delete(t, id) \/ DeleteFails(t, id)
  \/ DeleteNonsense(t)
  \/ StartRegenerating(t) \/ RegenerationFails(t) \/ EndRegenerating(t)
  \/ \E k \in Keys : UpdateRow(t, k)

Next == (\E t \in Threads : Step(t)) \/ Stop

Spec == Init /\ [][Next]_vars

-----------------------------------------------------------------------------
(* Properties                                                              *)

\* As long as no command has begun while one of the other side was half way,
\* later quotes have larger indexes.  In particular no two quotes share one, so
\* that "!gq %id%" has one quote to find; and a regeneration that is cut short
\* half way, by an exception or a crash, leaves no two equal either.
IndexOrder ==
  ~crossed => \A k, m \in Quotes : k < m => rows[k] < rows[m]

\* "!gq %id% - get quote", "!dq %id% - delete quote" (GetHelp): the quote that
\* goes is the one with the number that was given.
DeletesWhatWasAsked ==
  reply.text = "deleted" /\ reply.gone # 0 => reply.gone = reply.asked

\* "quote doesn't exist or access denied": "quote deleted" is said of a quote.
DeletedIsDeleted == reply.text = "deleted" => reply.gone # 0

\* "Matching quote IDs": an index names one quote, also when quotes are added
\* from both sides of the bridge at once.
IndexIsUnique == \A k, m \in Quotes : rows[k] = rows[m] => k = m
=============================================================================
