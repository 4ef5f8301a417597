------------------------------- MODULE Pager -------------------------------
(***************************************************************************)
(* The pager (src/handlers/pager.cpp): messages for people who are not     *)
(* there, kept in a list and in the table "pager" of the database, and     *)
(* handed over when a presence says that their recipient has connected.    *)
(* The database outlives the process; the list is built from it again.     *)
(*                                                                         *)
(* The thread of the XMPP client and that of Discord's gateway both call   *)
(* HandleMessage and HandlePresence, and nothing keeps them apart: between *)
(* the insert and emplace_back, while SendMessage waits, between the       *)
(* removal of a row and that of the list entry, the other may come in, and *)
(* the process may end.  A thread that uses the iterator of an entry the   *)
(* other has erased does whatever it does, and is not followed further.    *)
(* An operation of the list itself is taken as one step.                   *)
(***************************************************************************)
EXTENDS Naturals, Sequences, FiniteSets, SequencesExt

CONSTANTS
  Threads,      \* those that handle messages and presences
  Users,        \* people: records of a nick and a jid
  AtNicks,      \* nicks that contain a '@': these get no mail by nick
  Addresses,    \* what messages are paged to: any text, a nick or a jid or neither
  Lifetime,     \* 72 hours
  MaxMessages,  \* bound: messages paged
  MaxTime,      \* bound: the clock
  MaxStops      \* bound: crashes and restarts

ASSUME PagerAssumption ==
  /\ Lifetime \in Nat /\ MaxMessages \in Nat
  /\ MaxTime \in Nat /\ MaxStops \in Nat
  /\ \A u, v \in Users : u.nick = v.jid => u.nick \in AtNicks   \* a jid has a '@'

Nobody == [nick |-> "", jid |-> ""]
End == 0
Ids == 1..MaxMessages
Times == 0..(MaxTime + Lifetime)
Messages == [id : Ids, to : Addresses, expires : Times]
Pages == [to : Addresses, by : Threads]
Sendings == [id : Ids, what : {"delivered", "expired"}, whom : {u.jid : u \in Users}]

VARIABLES
  now,       \* the system clock
  up,        \* is the process there
  messages,  \* Pager::_messages
  rows,      \* the table "pager"
  paged,     \* the pages that got a row, in order of their ids
  pc,        \* where each thread is
  cursor,    \* the entry its iterator is at, or the row it has just inserted
  visitor,   \* whose presence it handles
  due,       \* ghost: what was in the list for that visitor when the walk began
  said,      \* what was sent: which message, "delivered" or "expired", to whom
  excused,   \* ghost: messages that may be sent again
  wild,      \* a thread has used the iterator of an entry that was erased
  stops      \* how often the process has ended

vars == <<now, up, messages, rows, paged, pc, cursor, visitor, due, said, excused, wild,
          stops>>
env == <<now, up, wild, stops>>

TypeOK ==
  /\ now \in 0..MaxTime /\ up \in BOOLEAN
  /\ messages \in Seq(Messages)
  /\ rows \subseteq Messages
  /\ paged \in Seq(Pages) /\ Len(paged) <= MaxMessages
  /\ pc \in [Threads -> {"idle", "storing", "scanning", "purging", "dropping"}]
  /\ cursor \in [Threads -> Ids \cup {End}]
  /\ visitor \in [Threads -> Users \cup {Nobody}]
  /\ due \in [Threads -> SUBSET Ids]
  /\ said \in Seq(Sendings)
  /\ excused \subseteq Ids
  /\ wild \in BOOLEAN
  /\ stops \in 0..MaxStops

Init ==
  /\ now = 0 /\ up = TRUE
  /\ messages = <<>> /\ rows = {} /\ paged = <<>>
  /\ pc = [t \in Threads |-> "idle"] /\ cursor = [t \in Threads |-> End]
  /\ visitor = [t \in Threads |-> Nobody] /\ due = [t \in Threads |-> {}]
  /\ said = <<>> /\ excused = {} /\ wild = FALSE /\ stops = 0

Does(t, what) == up /\ ~wild /\ pc[t] = what

Listed == {messages[k].id : k \in DOMAIN messages}

-----------------------------------------------------------------------------
(* Pager::StoreMessage                                                     *)

\* The expiration that is written to the row is that of the message paged
\* before, and of no message at all if the list is empty.
RowExpirations ==
  IF messages = <<>> THEN Times ELSE {messages[Len(messages)].expires}

\* getStorage().insert
Store(t, to) ==
  /\ Does(t, "idle") /\ Len(paged) < MaxMessages
  /\ LET id == Len(paged) + 1
     IN /\ \E e \in RowExpirations :
             rows' = rows \cup {[id |-> id, to |-> to, expires |-> e]}
        /\ cursor' = [cursor EXCEPT ![t] = id]
  /\ paged' = Append(paged, [to |-> to, by |-> t])
  /\ pc' = [pc EXCEPT ![t] = "storing"]
  /\ UNCHANGED <<env, messages, visitor, due, said, excused>>

\* _messages.emplace_back, and "message stored".
Keep(t) ==
  /\ Does(t, "storing")
  /\ messages' = Append(messages, [id |-> cursor[t], to |-> paged[cursor[t]].to,
                                   expires |-> now + Lifetime])
  /\ pc' = [pc EXCEPT ![t] = "idle"] /\ cursor' = [cursor EXCEPT ![t] = End]
  /\ UNCHANGED <<env, rows, paged, visitor, due, said, excused>>

\* The insert throws: it is logged, and "message stored" is sent all the same.
InsertFails(t) ==
  /\ Does(t, "idle")
  /\ UNCHANGED vars

-----------------------------------------------------------------------------
(* Pager::HandlePresence, message by message                               *)

\* Faulty variant: a nick with a '@' is taken for a jid.
IsFor_AnyNick(m, user) == m.to \in {user.jid, user.nick}

IsFor(m, user) ==
  m.to = user.jid \/ (user.nick \notin AtNicks /\ m.to = user.nick)

Arrive(t, user) ==
  /\ Does(t, "idle") /\ messages # <<>>
  /\ pc' = [pc EXCEPT ![t] = "scanning"]
  /\ cursor' = [cursor EXCEPT ![t] = messages[1].id]
  /\ visitor' = [visitor EXCEPT ![t] = user]
  /\ due' = [due EXCEPT ![t] =
       {messages[k].id : k \in {l \in DOMAIN messages : IsFor(messages[l], user)}}]
  /\ UNCHANGED <<env, messages, rows, paged, said, excused>>

\* The walk of t is at the k-th entry.
At(t, what, k) == Does(t, what) /\ messages[k].id = cursor[t]

After(k) == IF k < Len(messages) THEN messages[k + 1].id ELSE End

\* Others who have sent the message that t is at, and not erased it yet.
Overlapping(t) ==
  {u \in Threads \ {t} : pc[u] \in {"purging", "dropping"} /\ cursor[u] = cursor[t]}

\* SendMessage waits for other threads, and sleeps.
Send(t, what) ==
  /\ said' = Append(said, [id |-> cursor[t], what |-> what, whom |-> visitor[t].jid])
  /\ excused' = IF Overlapping(t) # {} THEN excused \cup {cursor[t]} ELSE excused
  /\ pc' = [pc EXCEPT ![t] = "purging"]
  /\ UNCHANGED <<env, messages, rows, paged, cursor, visitor, due>>

\* Faulty variant: the row is removed first, and sending is a step of its own.
Deliver_PurgesFirst(t, k) ==
  /\ At(t, "scanning", k) /\ IsFor(messages[k], visitor[t])
  /\ IF \E r \in rows : r.id = cursor[t]
       THEN /\ rows' = {r \in rows : r.id # cursor[t]}
            /\ UNCHANGED <<env, messages, paged, pc, cursor, visitor, due, said, excused>>
       ELSE Send(t, "delivered")

Deliver(t, k) ==
  /\ At(t, "scanning", k)
  /\ IsFor(messages[k], visitor[t])
  /\ Send(t, "delivered")

Expire(t, k) ==
  /\ At(t, "scanning", k)
  /\ ~IsFor(messages[k], visitor[t])
  /\ messages[k].expires < now
  /\ Send(t, "expired")

Pass(t, k) ==
  /\ At(t, "scanning", k)
  /\ ~IsFor(messages[k], visitor[t])
  /\ messages[k].expires >= now
  /\ cursor' = [cursor EXCEPT ![t] = After(k)]
  /\ UNCHANGED <<env, messages, rows, paged, pc, visitor, due, said, excused>>

\* PurgeMessageFromDB
Purge(t, k) ==
  /\ At(t, "purging", k)
  /\ rows' = {r \in rows : r.id # cursor[t]}
  /\ pc' = [pc EXCEPT ![t] = "dropping"]
  /\ UNCHANGED <<env, messages, paged, cursor, visitor, due, said, excused>>

\* The removal of the row throws: it is logged, and the row is still there.
PurgeFails(t, k) ==
  /\ At(t, "purging", k)
  /\ excused' = excused \cup {cursor[t]}
  /\ pc' = [pc EXCEPT ![t] = "dropping"]
  /\ UNCHANGED <<env, messages, rows, paged, cursor, visitor, due, said>>

\* Faulty variants: the message stays in the list; the next one is skipped.
Drop_KeepsInList(t, k) ==
  /\ At(t, "dropping", k)
  /\ cursor' = [cursor EXCEPT ![t] = After(k)]
  /\ pc' = [pc EXCEPT ![t] = "scanning"]
  /\ UNCHANGED <<env, messages, rows, paged, visitor, due, said, excused>>

Drop_SkipsNext(t, k) ==
  /\ At(t, "dropping", k)
  /\ messages' = RemoveAt(messages, k)
  /\ cursor' = [cursor EXCEPT ![t] = IF k + 1 < Len(messages) THEN messages[k + 2].id ELSE End]
  /\ pc' = [pc EXCEPT ![t] = "scanning"]
  /\ UNCHANGED <<env, rows, paged, visitor, due, said, excused>>

\* _messages.erase(message++)
Drop(t, k) ==
  /\ At(t, "dropping", k)
  /\ messages' = RemoveAt(messages, k)
  /\ cursor' = [cursor EXCEPT ![t] = After(k)]
  /\ pc' = [pc EXCEPT ![t] = "scanning"]
  /\ UNCHANGED <<env, rows, paged, visitor, due, said, excused>>

\* The end of the list has been reached, also if there is a new entry before it by now.
EndOfScan(t) ==
  /\ Does(t, "scanning") /\ cursor[t] = End
  /\ pc' = [pc EXCEPT ![t] = "idle"]
  /\ visitor' = [visitor EXCEPT ![t] = Nobody] /\ due' = [due EXCEPT ![t] = {}]
  /\ UNCHANGED <<env, messages, rows, paged, cursor, said, excused>>

\* The entry is gone: whatever is there now is read, sent, and its row removed.
Dangling(t) ==
  /\ \E what \in {"scanning", "purging", "dropping"} : Does(t, what)
  /\ cursor[t] # End /\ cursor[t] \notin Listed
  /\ wild' = TRUE /\ rows' \in SUBSET rows
  /\ UNCHANGED <<now, up, messages, paged, pc, cursor, visitor, due, said, excused, stops>>

-----------------------------------------------------------------------------
Tick ==
  /\ ~wild /\ now < MaxTime
  /\ now' = now + 1
  /\ UNCHANGED <<up, messages, rows, paged, pc, cursor, visitor, due, said, excused, wild,
                 stops>>

\* The process ends, wherever it is.
Stop ==
  /\ up /\ ~wild /\ stops < MaxStops
  /\ stops' = stops + 1 /\ up' = FALSE
  /\ excused' = excused \cup {cursor[t] : t \in {u \in Threads : pc[u] = "purging"}}
  /\ messages' = <<>>
  /\ pc' = [t \in Threads |-> "idle"] /\ cursor' = [t \in Threads |-> End]
  /\ visitor' = [t \in Threads |-> Nobody] /\ due' = [t \in Threads |-> {}]
  /\ UNCHANGED <<now, rows, paged, said, wild>>

\* Faulty variant: the newest row first.
RestoreMessages_Backwards ==
  /\ ~up /\ up' = TRUE
  /\ messages' \in [1..Cardinality(rows) -> rows] /\ Range(messages') = rows
  /\ \A k, l \in DOMAIN messages' : k < l => messages'[k].id > messages'[l].id
  /\ UNCHANGED <<now, rows, paged, pc, cursor, visitor, due, said, excused, wild, stops>>

\* Pager::RestoreMessages, in the constructor: the rows in the order of their ids.
RestoreMessages ==
  /\ ~up /\ up' = TRUE
  /\ messages' \in [1..Cardinality(rows) -> rows] /\ Range(messages') = rows
  /\ \A k, l \in DOMAIN messages' : k < l => messages'[k].id < messages'[l].id
  /\ UNCHANGED <<now, rows, paged, pc, cursor, visitor, due, said, excused, wild, stops>>

Walk(t) ==
  \/ \E k \in DOMAIN messages :
       \/ Deliver(t, k) \/ Expire(t, k) \/ Pass(t, k)
       \/ Purge(t, k) \/ PurgeFails(t, k) \/ Drop(t, k)
  \/ EndOfScan(t) \/ Dangling(t)

Next ==
  \/ \E t \in Threads :
       \/ \E to \in Addresses : Store(t, to)
       \/ Keep(t) \/ InsertFails(t)
       \/ \E user \in Users : Arrive(t, user)
       \/ Walk(t)
  \/ Tick \/ Stop \/ RestoreMessages

Spec == Init /\ [][Next]_vars

-----------------------------------------------------------------------------
(* Properties                                                              *)

Sent(id) == {k \in DOMAIN said : said[k].id = id}
Handles(what, id) == \E t \in Threads : pc[t] = what /\ cursor[t] = id

\* The list and the table say the same, so that a crash loses nothing: an entry has
\* its row, unless a walk has removed the row and is about to erase the entry; a
\* row has its entry, unless a thread is about to add it or the row should have been
\* removed (the excused).  What was paged on one thread stays in its order, before
\* and after a restart.
Durable ==
  wild \/
  /\ \A k \in DOMAIN messages :
       \/ \E r \in rows : r.id = messages[k].id /\ r.to = messages[k].to
       \/ Handles("dropping", messages[k].id)
  /\ up => \A r \in rows : r.id \in Listed \cup excused \/ Handles("storing", r.id)
  /\ \A k, l \in DOMAIN messages :
       k < l /\ paged[messages[k].id].by = paged[messages[l].id].by
         => messages[k].id < messages[l].id

\* A message is never lost: from the moment its row is written it is in the
\* database until it has been delivered, or announced as expired; neither a crash at
\* any point in between nor the other thread's walk loses it, as long as no thread
\* uses an entry that was erased.
NothingLost ==
  wild \/ \A id \in DOMAIN paged : (\E r \in rows : r.id = id) \/ Sent(id) # {}

\* It is sent a second time only if the process ended, or the database failed,
\* between sending it and removing its row, or if a second walk came to it before
\* the first had erased it.
SentOnce ==
  \A id \in Ids \ excused : \A k, l \in Sent(id) : k = l

\* When HandlePresence has come to its end, nothing that was there for the visitor
\* at its beginning is left: removing messages while walking the list skips none,
\* also when the other thread removes or adds some.
NothingLeft ==
  [][\A t \in Threads : pc[t] = "scanning" /\ pc'[t] = "idle" /\ up' =>
       due[t] \cap Listed = {}]_vars

\* What was paged to a jid is delivered to that jid only: nobody gets it by
\* taking the jid for a nick, and a restart mixes nothing up.
JidIsPrivate ==
  \A k \in DOMAIN said :
    said[k].what = "delivered" /\ paged[said[k].id].to \in {u.jid : u \in Users} =>
      said[k].whom = paged[said[k].id].to

\* "Paged messages are lost after 72 hours" (GetHelp), and not before, also after a
\* restart: the row says what the entry says.
RowExpiresAlike ==
  \A k \in DOMAIN messages, r \in rows :
    r.id = messages[k].id => r.expires = messages[k].expires

\* The two threads do not get into each other's way.
StaysTame == ~wild
=============================================================================
