----------------------------- MODULE PagerProofs -----------------------------
(***************************************************************************)
(* The properties of Pager, for any threads, users, messages, times and    *)
(* crashes: proofs that TLAPS checks.                                      *)
(*                                                                         *)
(* That nothing is sent twice rests on what a row and an entry mean: their *)
(* message has not been sent (Unsent), except between sending it and       *)
(* removing them, which is where a crash, a failed removal or the walk of  *)
(* another thread puts it among the excused.  That nothing is lost rests   *)
(* on the other half: what is being removed has been sent.  That nothing   *)
(* is left rests on the order of the list: what is due is never behind the *)
(* entry a walk is at (Passed), whatever the others add or erase.          *)
(***************************************************************************)
EXTENDS Pager, TLAPS, FiniteSetTheorems, SequenceTheorems

Walking == {"scanning", "purging", "dropping"}

\* The ids in the hands of the threads.
HeldOK ==
  /\ \A t \in Threads : cursor[t] <= Len(paged)
  /\ \A t \in Threads : pc[t] \in {"storing", "purging", "dropping"} => cursor[t] # End
  /\ \A t \in Threads : pc[t] = "storing" => cursor[t] \notin Listed /\ paged[cursor[t]].by = t
  /\ \A t, u \in Threads : pc[t] = "storing" /\ t # u /\ pc[u] # "idle" => cursor[t] # cursor[u]
  /\ \A t, u \in Threads : pc[t] \in Walking /\ pc[u] = "storing" => cursor[u] \notin due[t]
  /\ \A t \in Threads : pc[t] \in Walking =>
       visitor[t] \in Users /\ \A id \in due[t] : id <= Len(paged)
  /\ ~up => messages = <<>> /\ \A t \in Threads : pc[t] = "idle"

\* An entry and a row have the id and the address of a page.
EntriesOK ==
  /\ \A k \in DOMAIN messages :
       /\ messages[k].id <= Len(paged)
       /\ messages[k].to = paged[messages[k].id].to
  /\ \A k, l \in DOMAIN messages : messages[k].id = messages[l].id => k = l

RowsOK ==
  /\ IsFiniteSet(rows)
  /\ \A r \in rows : r.id <= Len(paged) /\ r.to = paged[r.id].to
  /\ \A r, s \in rows : r.id = s.id => r = s

\* What was paged on one thread is in its order.
Ordered ==
  /\ \A k, l \in DOMAIN messages :
       k < l /\ paged[messages[k].id].by = paged[messages[l].id].by
         => messages[k].id < messages[l].id
  /\ \A t \in Threads, k \in DOMAIN messages :
       pc[t] = "storing" /\ paged[messages[k].id].by = t => messages[k].id < cursor[t]

SaidOK == \A k \in DOMAIN said : said[k].id <= Len(paged)

Unsent ==
  /\ \A t \in Threads : pc[t] = "storing" => Sent(cursor[t]) = {}
  /\ \A t \in Threads : pc[t] \in {"purging", "dropping"} => Sent(cursor[t]) # {}
  /\ \A r \in rows : r.id \notin excused /\ Sent(r.id) # {} => Handles("purging", r.id)
  /\ \A k \in DOMAIN messages : messages[k].id \notin excused /\ Sent(messages[k].id) # {} =>
       Handles("purging", messages[k].id) \/ Handles("dropping", messages[k].id)

HasRow(table, id) == \E r \in table : r.id = id

\* An entry has its row, and a row its entry.
Matched ==
  /\ wild \/ \A k \in DOMAIN messages :
       HasRow(rows, messages[k].id) \/ Handles("dropping", messages[k].id)
  /\ wild \/ \A t \in Threads : pc[t] = "storing" => HasRow(rows, cursor[t])
  /\ \A t \in Threads : pc[t] = "dropping" /\ cursor[t] \notin excused => ~HasRow(rows, cursor[t])
  /\ up => \A r \in rows : r.id \in Listed \cup excused \/ Handles("storing", r.id)

\* The walk of a thread has left nothing for its visitor behind.
Passed ==
  \A t \in Threads : pc[t] \in Walking =>
    /\ \A l \in DOMAIN messages : messages[l].id \in due[t] => IsFor(messages[l], visitor[t])
    /\ cursor[t] = End => \A l \in DOMAIN messages : messages[l].id \notin due[t]
    /\ \A k, l \in DOMAIN messages :
         messages[k].id = cursor[t] /\ messages[l].id \in due[t] => k <= l

IInv ==
  /\ TypeOK
  /\ HeldOK
  /\ EntriesOK
  /\ RowsOK
  /\ Ordered
  /\ SaidOK
  /\ Unsent
  /\ Matched
  /\ NothingLost
  /\ SentOnce
  /\ JidIsPrivate
  /\ Passed

-----------------------------------------------------------------------------
(* Lists                                                                   *)

\* What list::erase leaves.
LEMMA Removed ==
  ASSUME NEW S, NEW s \in Seq(S), NEW i \in 1..Len(s)
  PROVE  /\ RemoveAt(s, i) \in Seq(S)
         /\ Len(RemoveAt(s, i)) = Len(s) - 1
         /\ \A k \in 1..(Len(s) - 1) : RemoveAt(s, i)[k] = IF k < i THEN s[k] ELSE s[k + 1]
<1> DEFINE front == SubSeq(s, 1, i - 1)
           back == SubSeq(s, i + 1, Len(s))
<1>1. Len(s) \in Nat /\ i \in Nat /\ \A k \in 1..Len(s) : s[k] \in S
  BY ElementOfSeq, LenProperties
<1>2. front \in Seq(S) /\ Len(front) = i - 1 /\ \A k \in 1..(i - 1) : front[k] = s[k]
  <2>1. 1 \in Int /\ i - 1 \in Int /\ \A k \in 1..(i - 1) : s[k] \in S
    BY <1>1
  <2>2. /\ front \in Seq(S) /\ Len(front) = IF 1 <= i - 1 THEN i - 1 - 1 + 1 ELSE 0
        /\ \A k \in 1..(i - 1 - 1 + 1) : front[k] = s[1 + k - 1]
    BY <2>1, SubSeqProperties
  <2> QED BY <1>1, <2>2
<1>3. /\ back \in Seq(S) /\ Len(back) = Len(s) - i
      /\ \A k \in 1..(Len(s) - i) : back[k] = s[i + k]
  <2>1. i + 1 \in Int /\ Len(s) \in Int /\ \A k \in (i + 1)..Len(s) : s[k] \in S
    BY <1>1
  <2>2. /\ back \in Seq(S) /\ Len(back) = IF i + 1 <= Len(s) THEN Len(s) - (i + 1) + 1 ELSE 0
        /\ \A k \in 1..(Len(s) - (i + 1) + 1) : back[k] = s[(i + 1) + k - 1]
    BY <2>1, SubSeqProperties
  <2> QED BY <1>1, <2>2
<1>4. RemoveAt(s, i) = front \o back
  BY DEF RemoveAt
<1>5. /\ front \o back \in Seq(S)
      /\ Len(front \o back) = Len(front) + Len(back)
      /\ \A k \in 1..(Len(front) + Len(back)) :
           (front \o back)[k] = IF k <= Len(front) THEN front[k] ELSE back[k - Len(front)]
  BY <1>2, <1>3, ConcatProperties
<1> HIDE DEF front, back
<1> QED BY <1>1, <1>2, <1>3, <1>4, <1>5

\* What is said of a message when something has been sent.
LEMMA SentMore ==
  ASSUME TypeOK, NEW m \in Sendings, said' = Append(said, m)
  PROVE  /\ said' \in Seq(Sendings)
         /\ DOMAIN said' = DOMAIN said \cup {Len(said) + 1} /\ Len(said) + 1 \notin DOMAIN said
         /\ said'[Len(said) + 1] = m /\ \A k \in DOMAIN said : said'[k] = said[k]
         /\ \A id : Sent(id)' = IF id = m.id THEN Sent(id) \cup {Len(said) + 1} ELSE Sent(id)
<1>1. said \in Seq(Sendings) /\ Len(said) \in Nat /\ DOMAIN said = 1..Len(said)
  BY LenProperties DEF TypeOK
<1>2. /\ said' \in Seq(Sendings) /\ Len(said') = Len(said) + 1
      /\ \A k \in 1..Len(said) : said'[k] = said[k]
      /\ said'[Len(said) + 1] = m
  BY <1>1, AppendProperties
<1>3. DOMAIN said' = 1..(Len(said) + 1)
  BY <1>2, LenProperties
<1>4. DOMAIN said' = DOMAIN said \cup {Len(said) + 1} /\ Len(said) + 1 \notin DOMAIN said
  BY <1>1, <1>3
<1> QED BY <1>1, <1>2, <1>4 DEF Sent

\* Messages and what is sent of them.
LEMMA MessageType ==
  /\ \A m \in Messages : m.id \in Ids /\ m.to \in Addresses /\ m.expires \in Times
  /\ \A id \in Ids, to \in Addresses, e \in Times : [id |-> id, to |-> to, expires |-> e] \in Messages
  /\ \A id \in Ids, w \in {"delivered", "expired"}, j \in {u.jid : u \in Users} :
       [id |-> id, what |-> w, whom |-> j] \in Sendings
  /\ \A m \in Sendings : m.id \in Ids
  /\ \A to \in Addresses, t \in Threads : [to |-> to, by |-> t] \in Pages
  /\ \A p \in Pages : p.to \in Addresses
BY DEF Messages, Sendings, Pages

LEMMA ListType ==
  ASSUME TypeOK
  PROVE  /\ Len(messages) \in Nat /\ DOMAIN messages = 1..Len(messages)
         /\ \A k \in DOMAIN messages : messages[k] \in Messages /\ messages[k].id \in Ids
         /\ Len(paged) \in Nat /\ DOMAIN paged = 1..Len(paged) /\ Len(paged) <= MaxMessages
         /\ \A i \in DOMAIN paged : paged[i] \in Pages /\ paged[i].to \in Addresses
         /\ \A r \in rows : r \in Messages /\ r.id \in Ids
         /\ DOMAIN said = 1..Len(said) /\ \A k \in DOMAIN said : said[k].id \in Ids
<1>1. /\ messages \in Seq(Messages) /\ paged \in Seq(Pages) /\ said \in Seq(Sendings)
      /\ rows \subseteq Messages /\ Len(paged) <= MaxMessages
  BY DEF TypeOK
<1>2. \A k \in DOMAIN messages : messages[k] \in Messages /\ messages[k].id \in Ids
  BY <1>1, LenProperties, ElementOfSeq, MessageType
<1>3. \A i \in DOMAIN paged : paged[i] \in Pages /\ paged[i].to \in Addresses
  BY <1>1, LenProperties, ElementOfSeq, MessageType
<1>4. \A k \in DOMAIN said : said[k].id \in Ids
  BY <1>1, LenProperties, ElementOfSeq, MessageType
<1> QED BY <1>1, <1>2, <1>3, <1>4, LenProperties, MessageType

-----------------------------------------------------------------------------
(* Types                                                                   *)

LEMMA InitIInv == Init => IInv
<1> SUFFICES ASSUME Init PROVE IInv
  OBVIOUS
<1> USE DEF Init
<1>1. TypeOK
  <2>1. messages \in Seq(Messages) /\ paged \in Seq(Pages) /\ said \in Seq(Sendings)
    BY EmptySeq
  <2>2. Len(paged) <= MaxMessages /\ now \in 0..MaxTime /\ stops \in 0..MaxStops
    BY PagerAssumption, EmptySeq
  <2> QED BY <2>1, <2>2 DEF TypeOK
<1>2. DOMAIN messages = {} /\ DOMAIN said = {} /\ DOMAIN paged = {} /\ Len(paged) = 0
  OBVIOUS
<1>3. \A id : Sent(id) = {}
  BY <1>2 DEF Sent
<1>4. RowsOK
  BY FS_EmptySet DEF RowsOK
<1>5. \A t \in Threads : pc[t] = "idle" /\ cursor[t] = 0
  BY DEF End
<1>6. HeldOK
  BY <1>2, <1>5 DEF HeldOK, Walking
<1>7. EntriesOK /\ Ordered /\ SaidOK /\ JidIsPrivate /\ NothingLost
  BY <1>2 DEF EntriesOK, Ordered, SaidOK, JidIsPrivate, NothingLost
<1>8. Unsent /\ Matched /\ SentOnce /\ Passed
  BY <1>2, <1>3, <1>5 DEF Unsent, Matched, HasRow, SentOnce, Passed, Walking
<1> QED
  BY <1>1, <1>4, <1>6, <1>7, <1>8 DEF IInv

\* What a step in a walk needs to know of where it is.
LEMMA Here ==
  ASSUME TypeOK, NEW t \in Threads, NEW k \in DOMAIN messages, NEW what, At(t, what, k)
  PROVE  /\ cursor[t] = messages[k].id /\ cursor[t] \in Ids /\ cursor[t] # End
         /\ pc[t] = what /\ up /\ ~wild
         /\ After(k) \in Ids \cup {End}
<1>1. cursor[t] = messages[k].id /\ cursor[t] \in Ids /\ pc[t] = what /\ up /\ ~wild
  BY ListType DEF At, Does
<1>2. After(k) \in Ids \cup {End}
  <2>1. CASE k < Len(messages)
    <3>1. k + 1 \in DOMAIN messages
      BY <2>1, ListType
    <3> QED BY <2>1, <3>1, ListType DEF After
  <2>2. CASE ~(k < Len(messages))
    BY <2>2 DEF After
  <2> QED BY <2>1, <2>2
<1> QED BY <1>1, <1>2 DEF Ids, End

\* What HandlePresence sends, in either case.
LEMMA SendCases ==
  ASSUME TypeOK, HeldOK, NEW t \in Threads, NEW k \in DOMAIN messages, Deliver(t, k) \/ Expire(t, k)
  PROVE  /\ At(t, "scanning", k)
         /\ \E w \in {"delivered", "expired"} :
              /\ [id |-> cursor[t], what |-> w, whom |-> visitor[t].jid] \in Sendings
              /\ said' = Append(said, [id |-> cursor[t], what |-> w, whom |-> visitor[t].jid])
              /\ w = "delivered" => IsFor(messages[k], visitor[t])
         /\ excused' = IF Overlapping(t) # {} THEN excused \cup {cursor[t]} ELSE excused
         /\ pc' = [pc EXCEPT ![t] = "purging"]
         /\ UNCHANGED <<env, messages, rows, paged, cursor, visitor, due>>
<1>1. PICK w \in {"delivered", "expired"} :
        /\ At(t, "scanning", k) /\ Send(t, w)
        /\ w = "delivered" => IsFor(messages[k], visitor[t])
  BY DEF Deliver, Expire
<1>2. visitor[t] \in Users /\ cursor[t] \in Ids
  BY <1>1, Here DEF HeldOK, Walking
<1>3. [id |-> cursor[t], what |-> w, whom |-> visitor[t].jid] \in Sendings
  BY <1>2, MessageType
<1> QED BY <1>1, <1>3 DEF Send
LEMMA TypeStep ==
  ASSUME IInv, [Next]_vars
  PROVE  TypeOK'
<1> USE DEF env
<1>1. TypeOK /\ HeldOK /\ RowsOK
  BY DEF IInv
<1>2. ASSUME NEW t \in Threads, NEW to \in Addresses, Store(t, to) PROVE TypeOK'
  <2> DEFINE id == Len(paged) + 1
  <2>1. id \in Ids
    BY <1>1, <1>2, ListType, PagerAssumption DEF Store, Ids
  <2>2. RowExpirations \subseteq Times
    <3>1. CASE messages = <<>>
      BY <3>1 DEF RowExpirations
    <3>2. CASE messages # <<>>
      <4>1. Len(messages) \in DOMAIN messages
        BY <1>1, <3>2, ListType, EmptySeq DEF TypeOK
      <4>2. messages[Len(messages)].expires \in Times
        BY <1>1, <4>1, ListType, MessageType
      <4> QED BY <3>2, <4>2 DEF RowExpirations
    <3> QED BY <3>1, <3>2
  <2>3. \E e \in Times : rows' = rows \cup {[id |-> id, to |-> to, expires |-> e]}
    BY <1>2, <2>2 DEF Store
  <2>4. rows' \subseteq Messages
    BY <1>1, <2>1, <2>3, MessageType DEF TypeOK
  <2>5. paged' \in Seq(Pages) /\ Len(paged') <= MaxMessages
    <3>1. [to |-> to, by |-> t] \in Pages
      BY MessageType
    <3> QED BY <1>1, <1>2, <2>1, <3>1, AppendProperties, PagerAssumption DEF Store, TypeOK, Ids
  <2>6. /\ cursor' \in [Threads -> Ids \cup {End}]
        /\ pc' \in [Threads -> {"idle", "storing", "scanning", "purging", "dropping"}]
    BY <1>1, <1>2, <2>1 DEF Store, TypeOK
  <2> HIDE DEF id
  <2> QED BY <1>1, <1>2, <2>4, <2>5, <2>6 DEF Store, TypeOK
<1>3. ASSUME NEW t \in Threads, Keep(t) PROVE TypeOK'
  <2>1. cursor[t] \in Ids /\ cursor[t] \in DOMAIN paged
    BY <1>1, <1>3, ListType DEF Keep, Does, HeldOK, TypeOK, Ids, End
  <2>2. now + Lifetime \in Times /\ paged[cursor[t]].to \in Addresses
    BY <1>1, <2>1, ListType, PagerAssumption DEF TypeOK, Times
  <2>3. [id |-> cursor[t], to |-> paged[cursor[t]].to, expires |-> now + Lifetime] \in Messages
    BY <2>1, <2>2, MessageType
  <2>4. messages' \in Seq(Messages)
    BY <1>1, <1>3, <2>3, AppendProperties DEF Keep, TypeOK
  <2>5. /\ cursor' \in [Threads -> Ids \cup {End}]
        /\ pc' \in [Threads -> {"idle", "storing", "scanning", "purging", "dropping"}]
    BY <1>1, <1>3 DEF Keep, TypeOK
  <2> QED BY <1>1, <1>3, <2>4, <2>5 DEF Keep, TypeOK
<1>4. ASSUME NEW t \in Threads, NEW user \in Users, Arrive(t, user) PROVE TypeOK'
  <2>1. messages[1].id \in Ids
    <3>1. 1 \in DOMAIN messages
      BY <1>1, <1>4, ListType, EmptySeq DEF Arrive, TypeOK
    <3> QED BY <1>1, <3>1, ListType
  <2>2. {messages[k].id : k \in {l \in DOMAIN messages : IsFor(messages[l], user)}} \subseteq Ids
    BY <1>1, ListType
  <2>3. /\ pc' \in [Threads -> {"idle", "storing", "scanning", "purging", "dropping"}]
        /\ cursor' \in [Threads -> Ids \cup {End}]
        /\ visitor' \in [Threads -> Users \cup {Nobody}]
    BY <1>1, <1>4, <2>1 DEF Arrive, TypeOK
  <2>4. due' \in [Threads -> SUBSET Ids]
    BY <1>1, <1>4, <2>2 DEF Arrive, TypeOK
  <2> QED BY <1>1, <1>4, <2>3, <2>4 DEF Arrive, TypeOK
<1>5. ASSUME NEW t \in Threads, NEW k \in DOMAIN messages, Deliver(t, k) \/ Expire(t, k)
      PROVE  TypeOK'
  <2>1. PICK m \in Sendings : said' = Append(said, m)
    BY <1>1, <1>5, SendCases
  <2>2. said' \in Seq(Sendings)
    BY <1>1, <2>1, SentMore
  <2>3. cursor[t] \in Ids
    BY <1>1, <1>5, SendCases, Here
  <2>4. excused' \subseteq Ids
    <3>1. excused' = IF Overlapping(t) # {} THEN excused \cup {cursor[t]} ELSE excused
      BY <1>1, <1>5, SendCases
    <3> QED BY <1>1, <2>3, <3>1 DEF TypeOK
  <2>5. /\ pc' \in [Threads -> {"idle", "storing", "scanning", "purging", "dropping"}]
        /\ UNCHANGED <<env, messages, rows, paged, cursor, visitor, due>>
    BY <1>1, <1>5, SendCases DEF TypeOK
  <2> QED BY <1>1, <2>2, <2>4, <2>5 DEF TypeOK
<1>6. ASSUME NEW t \in Threads, NEW k \in DOMAIN messages, Pass(t, k) PROVE TypeOK'
  <2>1. After(k) \in Ids \cup {End}
    BY <1>1, <1>6, Here DEF Pass
  <2>2. cursor' \in [Threads -> Ids \cup {End}]
    BY <1>1, <1>6, <2>1 DEF Pass, TypeOK
  <2> QED BY <1>1, <1>6, <2>2 DEF Pass, TypeOK
<1>7. ASSUME NEW t \in Threads, NEW k \in DOMAIN messages, Purge(t, k) \/ PurgeFails(t, k)
      PROVE  TypeOK'
  <2>1. cursor[t] \in Ids
    BY <1>1, <1>7, Here DEF Purge, PurgeFails
  <2>2. rows' \subseteq Messages /\ excused' \subseteq Ids
    BY <1>1, <1>7, <2>1 DEF Purge, PurgeFails, TypeOK
  <2>3. pc' \in [Threads -> {"idle", "storing", "scanning", "purging", "dropping"}]
    BY <1>1, <1>7 DEF Purge, PurgeFails, TypeOK
  <2> QED BY <1>1, <1>7, <2>2, <2>3 DEF Purge, PurgeFails, TypeOK
<1>8. ASSUME NEW t \in Threads, NEW k \in DOMAIN messages, Drop(t, k) PROVE TypeOK'
  <2>1. After(k) \in Ids \cup {End}
    BY <1>1, <1>8, Here DEF Drop
  <2>2. /\ cursor' \in [Threads -> Ids \cup {End}]
        /\ pc' \in [Threads -> {"idle", "storing", "scanning", "purging", "dropping"}]
    BY <1>1, <1>8, <2>1 DEF Drop, TypeOK
  <2>3. messages' \in Seq(Messages)
    BY <1>1, <1>8, ListType, Removed DEF Drop, TypeOK
  <2> QED BY <1>1, <1>8, <2>2, <2>3 DEF Drop, TypeOK
<1>9. ASSUME NEW t \in Threads, EndOfScan(t) PROVE TypeOK'
  <2>1. /\ pc' \in [Threads -> {"idle", "storing", "scanning", "purging", "dropping"}]
        /\ visitor' \in [Threads -> Users \cup {Nobody}] /\ due' \in [Threads -> SUBSET Ids]
    BY <1>1, <1>9 DEF EndOfScan, TypeOK
  <2> QED BY <1>1, <1>9, <2>1 DEF EndOfScan, TypeOK
<1>10. ASSUME NEW t \in Threads, Dangling(t) PROVE TypeOK'
  BY <1>1, <1>10 DEF Dangling, TypeOK
<1>11. CASE Tick
  BY <1>1, <1>11, PagerAssumption DEF Tick, TypeOK
<1>12. CASE Stop
  <2>1. excused' \subseteq Ids
    <3>1. \A t \in Threads : pc[t] = "purging" => cursor[t] \in Ids
      BY <1>1 DEF HeldOK, TypeOK
    <3> QED BY <1>1, <1>12, <3>1 DEF Stop, TypeOK
  <2>2. messages' \in Seq(Messages)
    BY <1>12, EmptySeq DEF Stop
  <2>3. stops' \in 0..MaxStops
    BY <1>1, <1>12, PagerAssumption DEF Stop, TypeOK
  <2>4. /\ pc' \in [Threads -> {"idle", "storing", "scanning", "purging", "dropping"}]
        /\ cursor' \in [Threads -> Ids \cup {End}]
        /\ visitor' \in [Threads -> Users \cup {Nobody}] /\ due' \in [Threads -> SUBSET Ids]
    BY <1>12 DEF Stop
  <2> QED BY <1>1, <1>12, <2>1, <2>2, <2>3, <2>4 DEF Stop, TypeOK
<1>13. CASE RestoreMessages
  <2>1. Cardinality(rows) \in Nat
    BY <1>1, FS_CardinalityType DEF RowsOK
  <2>2. messages' \in [1..Cardinality(rows) -> Messages]
    BY <1>1, <1>13 DEF RestoreMessages, TypeOK
  <2>3. messages' \in Seq(Messages) /\ up' \in BOOLEAN
    BY <1>13, <2>1, <2>2 DEF RestoreMessages
  <2> QED BY <1>1, <1>13, <2>3 DEF RestoreMessages, TypeOK
<1>14. CASE UNCHANGED vars
  BY <1>1, <1>14 DEF vars, TypeOK
<1>15. ASSUME NEW t \in Threads, InsertFails(t) PROVE TypeOK'
  BY <1>14, <1>15 DEF InsertFails
<1> QED
  BY <1>2, <1>3, <1>4, <1>5, <1>6, <1>7, <1>8, <1>9, <1>10, <1>11, <1>12, <1>13, <1>14, <1>15
     DEF Next, Walk
-----------------------------------------------------------------------------
(* The rest of the invariant, for each action                              *)

\* StoreMessage writes a row.
LEMMA StoreStep ==
  ASSUME IInv, TypeOK', NEW t \in Threads, NEW to \in Addresses, Store(t, to)
  PROVE  IInv'
<1>0. PICK id \in Nat : id = Len(paged) + 1
  BY ListType DEF IInv
<1>1. /\ up /\ ~wild /\ pc[t] = "idle"
      /\ UNCHANGED <<env, messages, visitor, due, said, excused>>
      /\ pc' = [pc EXCEPT ![t] = "storing"] /\ cursor' = [cursor EXCEPT ![t] = id]
      /\ paged' = Append(paged, [to |-> to, by |-> t])
      /\ \E e : rows' = rows \cup {[id |-> id, to |-> to, expires |-> e]}
  BY <1>0 DEF Store, Does
<1>2. PICK r \in rows' : r.id = id /\ r.to = to /\ rows' = rows \cup {r}
  BY <1>1
<1>3. Len(paged) \in Nat /\ DOMAIN paged = 1..Len(paged) /\ paged \in Seq(Pages)
  BY ListType DEF IInv, TypeOK
<1>4. [to |-> to, by |-> t] \in Pages
  BY MessageType
<1>5. /\ Len(paged') = id /\ DOMAIN paged' = DOMAIN paged \cup {id}
      /\ paged'[id].to = to /\ paged'[id].by = t /\ \A i \in DOMAIN paged : paged'[i] = paged[i]
  BY <1>0, <1>1, <1>3, <1>4, AppendProperties, LenProperties
<1>6. /\ \A k \in DOMAIN messages : messages[k].id \in DOMAIN paged
      /\ \A s \in rows : s.id \in DOMAIN paged
      /\ \A k \in DOMAIN said : said[k].id \in DOMAIN paged
  BY <1>3, ListType DEF IInv, EntriesOK, RowsOK, SaidOK, Ids
<1>7. /\ \A i : Sent(i)' = Sent(i)
      /\ Sent(id) = {} /\ id \notin DOMAIN paged /\ id # End
  BY <1>0, <1>1, <1>3, <1>6 DEF Sent, End
<1>8. \A u \in Threads : cursor[u] <= Len(paged) /\ cursor[u] \in Nat /\ cursor[u] # id
  BY <1>0, <1>3 DEF IInv, HeldOK, TypeOK, Ids, End
<1>9. /\ pc'[t] = "storing" /\ cursor'[t] = id
      /\ \A u \in Threads \ {t} : pc'[u] = pc[u] /\ cursor'[u] = cursor[u]
  BY <1>1 DEF IInv, TypeOK
<1>10. Listed' = Listed /\ id \notin Listed
  BY <1>1, <1>6, <1>7 DEF Listed
<1>11. HeldOK'
  <2>1. \A u \in Threads : cursor'[u] <= Len(paged')
    BY <1>0, <1>3, <1>5, <1>8, <1>9
  <2>2. \A u \in Threads : pc'[u] \in {"storing", "purging", "dropping"} => cursor'[u] # End
    BY <1>7, <1>9 DEF IInv, HeldOK
  <2>3. \A u \in Threads : pc'[u] = "storing" => cursor'[u] \notin Listed /\ paged'[cursor'[u]].by = u
    <3>1. ASSUME NEW u \in Threads \ {t}, pc[u] = "storing" PROVE cursor[u] \in DOMAIN paged
      BY <1>3, <1>8, <3>1 DEF IInv, HeldOK, End
    <3> QED BY <1>5, <1>9, <1>10, <3>1 DEF IInv, HeldOK
  <2>4. \A u, v \in Threads : pc'[u] = "storing" /\ u # v /\ pc'[v] # "idle" => cursor'[u] # cursor'[v]
    BY <1>8, <1>9 DEF IInv, HeldOK
  <2>5. ASSUME NEW u \in Threads, pc'[u] \in Walking
        PROVE  /\ \A v \in Threads : pc'[v] = "storing" => cursor'[v] \notin due[u]
               /\ visitor[u] \in Users /\ \A i \in due[u] : i <= Len(paged')
    <3>1. u # t /\ pc[u] \in Walking
      BY <1>9, <2>5 DEF Walking
    <3>2. /\ \A i \in due[u] : i <= Len(paged) /\ i \in Nat
          /\ visitor[u] \in Users
      BY <3>1 DEF IInv, HeldOK, TypeOK, Ids
    <3>3. id \notin due[u]
      BY <1>0, <1>3, <3>2
    <3> QED BY <1>0, <1>3, <1>5, <1>9, <3>1, <3>2, <3>3 DEF IInv, HeldOK
  <2> QED BY <1>1, <2>1, <2>2, <2>3, <2>4, <2>5, <1>10 DEF HeldOK, env
<1>12. EntriesOK'
  BY <1>0, <1>1, <1>3, <1>5, <1>6 DEF IInv, EntriesOK
<1>13. RowsOK'
  <2>1. IsFiniteSet(rows')
    BY <1>2, FS_AddElement DEF IInv, RowsOK
  <2>2. \A s \in rows' : s.id <= Len(paged') /\ s.to = paged'[s.id].to
    BY <1>0, <1>2, <1>3, <1>5, <1>6 DEF IInv, RowsOK
  <2>3. \A s, u \in rows' : s.id = u.id => s = u
    BY <1>2, <1>6, <1>7 DEF IInv, RowsOK
  <2> QED BY <2>1, <2>2, <2>3 DEF RowsOK
<1>14. Ordered'
  <2>1. \A k \in DOMAIN messages : paged'[messages[k].id] = paged[messages[k].id]
    BY <1>5, <1>6
  <2>2. \A k \in DOMAIN messages : messages[k].id < id
    BY <1>0, <1>3, <1>6
  <2>3. \A k, l \in DOMAIN messages :
          k < l /\ paged'[messages[k].id].by = paged'[messages[l].id].by
            => messages[k].id < messages[l].id
    BY <2>1 DEF IInv, Ordered
  <2>4. \A u \in Threads, k \in DOMAIN messages :
          pc'[u] = "storing" /\ paged'[messages[k].id].by = u => messages[k].id < cursor'[u]
    BY <1>9, <2>1, <2>2 DEF IInv, Ordered
  <2> QED BY <1>1, <2>3, <2>4 DEF Ordered
<1>15. SaidOK' /\ SentOnce' /\ JidIsPrivate'
  <2>1. \A k \in DOMAIN said : paged'[said[k].id] = paged[said[k].id] /\ said[k].id <= Len(paged')
    BY <1>0, <1>3, <1>5, <1>6
  <2> QED BY <1>1, <1>7, <2>1 DEF IInv, SaidOK, SentOnce, JidIsPrivate
<1>16. NothingLost'
  <2> SUFFICES ASSUME NEW i \in DOMAIN paged' PROVE (\E s \in rows' : s.id = i) \/ Sent(i)' # {}
    BY DEF NothingLost
  <2>1. CASE i = id
    BY <1>2, <2>1
  <2>2. CASE i # id
    <3>1. i \in DOMAIN paged
      BY <1>5, <2>2
    <3> QED BY <1>1, <1>2, <1>7, <3>1 DEF IInv, NothingLost
  <2> QED BY <2>1, <2>2
<1>17. ASSUME NEW what \in {"storing", "purging", "dropping"}, NEW i, Handles(what, i)
       PROVE  Handles(what, i)'
  <2>1. PICK u \in Threads : pc[u] = what /\ cursor[u] = i
    BY <1>17 DEF Handles
  <2>2. u # t
    BY <1>1, <2>1
  <2>3. pc'[u] = what /\ cursor'[u] = i
    BY <1>9, <2>1, <2>2
  <2> QED BY <2>3 DEF Handles
<1>18. Unsent'
  <2>1. \A u \in Threads : pc'[u] = "storing" => Sent(cursor'[u]) = {}
    BY <1>7, <1>9 DEF IInv, Unsent
  <2>2. \A u \in Threads : pc'[u] \in {"purging", "dropping"} => Sent(cursor'[u]) # {}
    BY <1>9 DEF IInv, Unsent
  <2>3. \A s \in rows' : s.id \notin excused /\ Sent(s.id) # {} => Handles("purging", s.id)'
    BY <1>2, <1>7, <1>17 DEF IInv, Unsent
  <2>4. ASSUME NEW k \in DOMAIN messages, NEW i, i = messages[k].id, i \notin excused, Sent(i) # {}
        PROVE  Handles("purging", i)' \/ Handles("dropping", i)'
    BY <1>17, <2>4 DEF IInv, Unsent
  <2>5. \A i : Sent(i)' = Sent(i)
    BY <1>7
  <2> QED BY <1>1, <2>1, <2>2, <2>3, <2>4, <2>5 DEF Unsent
<1>19. Matched'
  <2>1. \A i : HasRow(rows, i) => HasRow(rows', i)
    BY <1>2 DEF HasRow
  <2>2. HasRow(rows', id) /\ \A i \in DOMAIN paged : HasRow(rows', i) => HasRow(rows, i)
    BY <1>2, <1>7 DEF HasRow
  <2>3. ASSUME NEW k \in DOMAIN messages, NEW i, i = messages[k].id
        PROVE  HasRow(rows', i) \/ Handles("dropping", i)'
    BY <1>1, <1>17, <2>1, <2>3 DEF IInv, Matched
  <2>4. \A u \in Threads : pc'[u] = "storing" => HasRow(rows', cursor'[u])
    BY <1>1, <1>9, <2>1, <2>2 DEF IInv, Matched
  <2>5. ASSUME NEW u \in Threads, pc'[u] = "dropping", cursor'[u] \notin excused PROVE ~HasRow(rows', cursor'[u])
    <3>1. u # t /\ pc[u] = "dropping" /\ cursor'[u] = cursor[u]
      BY <1>9, <2>5
    <3>2. cursor[u] \in DOMAIN paged
      BY <1>3, <1>8, <3>1 DEF IInv, HeldOK, End
    <3> QED BY <2>2, <2>5, <3>1, <3>2 DEF IInv, Matched
  <2>6. \A s \in rows' : s.id \in Listed \cup excused \/ Handles("storing", s.id)'
    <3>1. Handles("storing", id)'
      BY <1>9 DEF Handles
    <3> QED BY <1>1, <1>2, <1>17, <3>1 DEF IInv, Matched
  <2> QED BY <1>1, <1>10, <2>3, <2>4, <2>5, <2>6 DEF Matched
<1>20. Passed'
  <2>1. \A u \in Threads : pc'[u] \in Walking =>
          pc[u] \in Walking /\ cursor'[u] = cursor[u]
    BY <1>9 DEF Walking
  <2> QED BY <1>1, <2>1 DEF IInv, Passed
<1> QED
  BY <1>11, <1>12, <1>13, <1>14, <1>15, <1>16, <1>18, <1>19, <1>20 DEF IInv

\* emplace_back puts the page at the end of the list.
LEMMA KeepStep ==
  ASSUME IInv, TypeOK', NEW t \in Threads, Keep(t)
  PROVE  IInv'
<1>0. PICK id \in Nat : id = cursor[t] /\ id \in DOMAIN paged /\ id \in Ids
  BY ListType DEF Keep, Does, IInv, HeldOK, TypeOK, Ids, End
<1>1. PICK m : m = [id |-> id, to |-> paged[id].to, expires |-> now + Lifetime]
  OBVIOUS
<1>2. /\ up /\ ~wild /\ pc[t] = "storing" /\ UNCHANGED <<env, rows, paged, visitor, due, said, excused>>
      /\ messages' = Append(messages, m)
      /\ pc' = [pc EXCEPT ![t] = "idle"] /\ cursor' = [cursor EXCEPT ![t] = End]
  BY <1>0, <1>1 DEF Keep, Does
<1>3. /\ Len(messages) \in Nat /\ DOMAIN messages = 1..Len(messages) /\ messages \in Seq(Messages)
      /\ messages' \in Seq(Messages) /\ DOMAIN messages' = 1..Len(messages')
      /\ Len(paged) \in Nat /\ DOMAIN paged = 1..Len(paged)
  BY ListType, LenProperties DEF IInv, TypeOK
<1>4. m \in Messages
  <2>1. Len(messages') = Len(messages) + 1 /\ messages'[Len(messages) + 1] = m
    BY <1>2, <1>3, AppendProperties
  <2> QED BY <1>3, <2>1, ElementOfSeq
<1>5. PICK last : last = Len(messages) + 1
  OBVIOUS
<1>6. /\ DOMAIN messages' = DOMAIN messages \cup {last} /\ last \notin DOMAIN messages
      /\ messages'[last] = m /\ \A k \in DOMAIN messages : messages'[k] = messages[k] /\ k < last
  BY <1>2, <1>3, <1>4, <1>5, AppendProperties
<1>7. /\ pc'[t] = "idle" /\ cursor'[t] = End
      /\ \A u \in Threads \ {t} : pc'[u] = pc[u] /\ cursor'[u] = cursor[u]
  BY <1>2 DEF IInv, TypeOK
<1>8. Listed' = Listed \cup {id} /\ id \notin Listed /\ m.id = id /\ m.to = paged[id].to
  <2>1. m.id = id /\ m.to = paged[id].to
    BY <1>1
  <2>2. id \notin Listed
    BY <1>0, <1>2 DEF IInv, HeldOK
  <2> QED BY <1>6, <2>1, <2>2 DEF Listed
<1>9. \A i : Sent(i)' = Sent(i)
  BY <1>2 DEF Sent
<1>10. /\ \A u \in Threads \ {t} : pc[u] # "idle" => cursor[u] # id
       /\ \A u \in Threads : pc[u] \in Walking => id \notin due[u]
  BY <1>0, <1>2 DEF IInv, HeldOK
<1>11. HeldOK'
  <2>1. \A u \in Threads : cursor'[u] <= Len(paged)
    BY <1>3, <1>7 DEF IInv, HeldOK, End
  <2>2. \A u \in Threads : pc'[u] = "storing" => cursor'[u] \notin Listed' /\ paged[cursor'[u]].by = u
    BY <1>7, <1>8, <1>10 DEF IInv, HeldOK
  <2>3. \A u, v \in Threads : pc'[u] = "storing" /\ u # v /\ pc'[v] # "idle" => cursor'[u] # cursor'[v]
    BY <1>7 DEF IInv, HeldOK
  <2>4. \A u \in Threads : pc'[u] # "idle" => pc[u] = pc'[u] /\ cursor'[u] = cursor[u]
    BY <1>7
  <2> QED BY <1>2, <2>1, <2>2, <2>3, <2>4 DEF IInv, HeldOK, Walking, env
<1>12. EntriesOK'
  <2>1. \A k \in DOMAIN messages : messages[k].id # id
    BY <1>8 DEF Listed
  <2>2. id <= Len(paged)
    BY <1>0, <1>3
  <2> QED BY <1>2, <1>6, <1>8, <2>1, <2>2 DEF IInv, EntriesOK
<1>13. RowsOK' /\ SaidOK' /\ JidIsPrivate'
  BY <1>2 DEF IInv, RowsOK, SaidOK, JidIsPrivate
<1>14. Ordered'
  <2>1. \A k \in DOMAIN messages : paged[messages[k].id].by = t => messages[k].id < id
    BY <1>0, <1>2 DEF IInv, Ordered
  <2>2. paged[id].by = t
    BY <1>0, <1>2 DEF IInv, HeldOK
  <2>3. \A k, l \in DOMAIN messages' :
          k < l /\ paged[messages'[k].id].by = paged[messages'[l].id].by
            => messages'[k].id < messages'[l].id
    <3> SUFFICES ASSUME NEW k \in DOMAIN messages', NEW l \in DOMAIN messages', k < l,
                        paged[messages'[k].id].by = paged[messages'[l].id].by
                 PROVE  messages'[k].id < messages'[l].id
      OBVIOUS
    <3>1. k \in DOMAIN messages /\ messages'[k] = messages[k]
      BY <1>3, <1>5, <1>6
    <3>2. CASE l = last
      BY <1>6, <1>8, <2>1, <2>2, <3>1, <3>2
    <3>3. CASE l # last
      <4>1. l \in DOMAIN messages /\ messages'[l] = messages[l]
        BY <1>6, <3>3
      <4> QED BY <3>1, <4>1 DEF IInv, Ordered
    <3> QED BY <3>2, <3>3
  <2>4. ASSUME NEW u \in Threads, NEW k \in DOMAIN messages', pc'[u] = "storing",
               paged[messages'[k].id].by = u
        PROVE  messages'[k].id < cursor'[u]
    <3>1. u # t /\ pc[u] = "storing" /\ cursor'[u] = cursor[u]
      BY <1>7, <2>4
    <3>2. k \in DOMAIN messages /\ messages'[k] = messages[k]
      BY <1>6, <1>8, <2>2, <2>4, <3>1
    <3> QED BY <2>4, <3>1, <3>2 DEF IInv, Ordered
  <2> QED BY <1>2, <2>3, <2>4 DEF Ordered
<1>15. NothingLost' /\ SentOnce'
  BY <1>2, <1>9 DEF IInv, NothingLost, SentOnce, env
<1>16. ASSUME NEW what \in {"purging", "dropping"}, NEW i, Handles(what, i)
       PROVE  Handles(what, i)'
  <2>1. PICK u \in Threads : pc[u] = what /\ cursor[u] = i
    BY <1>16 DEF Handles
  <2>2. pc'[u] = what /\ cursor'[u] = i
    BY <1>2, <1>7, <2>1
  <2> QED BY <2>2 DEF Handles
<1>17. Unsent'
  <2>1. \A u \in Threads : pc'[u] = "storing" => Sent(cursor'[u]) = {}
    BY <1>7 DEF IInv, Unsent
  <2>2. \A u \in Threads : pc'[u] \in {"purging", "dropping"} => Sent(cursor'[u]) # {}
    BY <1>7 DEF IInv, Unsent
  <2>3. ASSUME NEW s \in rows, NEW i, i = s.id, i \notin excused, Sent(i) # {}
        PROVE  Handles("purging", i)'
    BY <1>16, <2>3 DEF IInv, Unsent
  <2>4. ASSUME NEW k \in DOMAIN messages', NEW i, i = messages'[k].id, i \notin excused, Sent(i) # {}
        PROVE  Handles("purging", i)' \/ Handles("dropping", i)'
    <3>1. Sent(id) = {}
      BY <1>0, <1>2 DEF IInv, Unsent
    <3>2. k \in DOMAIN messages /\ messages'[k] = messages[k]
      BY <1>6, <1>8, <2>4, <3>1
    <3> QED BY <1>16, <2>4, <3>2 DEF IInv, Unsent
  <2> QED BY <1>2, <1>9, <2>1, <2>2, <2>3, <2>4 DEF Unsent
<1>18. Matched'
  <2>1. HasRow(rows, id)
    BY <1>0, <1>2 DEF IInv, Matched
  <2>2. ASSUME NEW k \in DOMAIN messages', NEW i, i = messages'[k].id
        PROVE  HasRow(rows, i) \/ Handles("dropping", i)'
    <3>1. CASE k = last
      BY <1>6, <1>8, <2>1, <2>2, <3>1
    <3>2. CASE k \in DOMAIN messages
      BY <1>2, <1>6, <1>16, <2>2, <3>2 DEF IInv, Matched
    <3> QED BY <1>6, <3>1, <3>2
  <2>3. \A u \in Threads : pc'[u] = "storing" => HasRow(rows, cursor'[u])
    BY <1>2, <1>7 DEF IInv, Matched
  <2>4. \A u \in Threads : pc'[u] = "dropping" /\ cursor'[u] \notin excused => ~HasRow(rows, cursor'[u])
    BY <1>7 DEF IInv, Matched
  <2>5. ASSUME NEW s \in rows, NEW i, i = s.id PROVE i \in Listed' \cup excused \/ Handles("storing", i)'
    <3>1. CASE i = id
      BY <1>8, <3>1
    <3>2. CASE i # id
      <4>1. i \in Listed \cup excused \/ Handles("storing", i)
        BY <1>2, <2>5 DEF IInv, Matched
      <4>2. CASE Handles("storing", i)
        <5>1. PICK u \in Threads : pc[u] = "storing" /\ cursor[u] = i
          BY <4>2 DEF Handles
        <5>2. pc'[u] = "storing" /\ cursor'[u] = i
          BY <1>0, <1>7, <3>2, <5>1
        <5> QED BY <5>2 DEF Handles
      <4> QED BY <1>8, <4>1, <4>2
    <3> QED BY <3>1, <3>2
  <2> QED BY <1>2, <2>2, <2>3, <2>4, <2>5 DEF Matched
<1>19. Passed'
  <2> SUFFICES ASSUME NEW u \in Threads, pc'[u] \in Walking
               PROVE  /\ \A l \in DOMAIN messages' : messages'[l].id \in due[u] => IsFor(messages'[l], visitor[u])
                      /\ cursor'[u] = End => \A l \in DOMAIN messages' : messages'[l].id \notin due[u]
                      /\ \A k, l \in DOMAIN messages' :
                           messages'[k].id = cursor'[u] /\ messages'[l].id \in due[u] => k <= l
    BY <1>2 DEF Passed
  <2>1. u # t /\ pc[u] \in Walking /\ cursor'[u] = cursor[u] /\ pc[u] # "idle"
    BY <1>7 DEF Walking
  <2>2. id # cursor[u] /\ id \notin due[u]
    BY <1>10, <2>1
  <2>3. \A l \in DOMAIN messages' : messages'[l].id \in due[u] \/ messages'[l].id = cursor[u] =>
          l \in DOMAIN messages /\ messages'[l] = messages[l]
    BY <1>6, <1>8, <2>2
  <2> QED BY <2>1, <2>3 DEF IInv, Passed
<1> QED
  BY <1>11, <1>12, <1>13, <1>14, <1>15, <1>17, <1>18, <1>19 DEF IInv

\* A step that leaves the list, the rows and what was sent alone, and moves a thread
\* from one entry to another.
LEMMA MoveStep ==
  ASSUME IInv, TypeOK', NEW t \in Threads, pc[t] \in {"idle", "scanning"}, up, up',
         UNCHANGED <<messages, rows, paged, said, excused, wild>>,
         \A u \in Threads \ {t} :
           pc'[u] = pc[u] /\ cursor'[u] = cursor[u] /\ visitor'[u] = visitor[u] /\ due'[u] = due[u],
         pc'[t] \in {"idle", "scanning"},
         pc'[t] = "scanning" =>
           /\ visitor'[t] \in Users
           /\ due'[t] \subseteq Listed \/ (pc[t] = "scanning" /\ due'[t] = due[t]),
         cursor'[t] \in Listed \cup {End}
  PROVE  /\ HeldOK' /\ EntriesOK' /\ RowsOK' /\ Ordered' /\ SaidOK' /\ Unsent' /\ Matched'
         /\ NothingLost' /\ SentOnce' /\ JidIsPrivate'
<1>1. \A i : Sent(i)' = Sent(i)
  BY DEF Sent
<1>2. Listed' = Listed
  BY DEF Listed
<1>3. \A id \in Listed : id <= Len(paged)
  BY DEF IInv, EntriesOK, Listed
<1>4. \A u \in Threads : pc[u] = "storing" => u # t /\ cursor[u] # End /\ cursor[u] \notin Listed
  BY DEF IInv, HeldOK
<1>5. \A u \in Threads : pc'[u] \in {"storing", "purging", "dropping"} =>
        u # t /\ pc[u] = pc'[u] /\ cursor'[u] = cursor[u]
  OBVIOUS
<1>6. HeldOK'
  <2>1. \A u \in Threads : cursor'[u] <= Len(paged)
    BY <1>3, ListType DEF IInv, HeldOK, End
  <2>2. \A u, v \in Threads : pc'[u] = "storing" /\ u # v /\ pc'[v] # "idle" => cursor'[u] # cursor'[v]
    BY <1>4, <1>5 DEF IInv, HeldOK
  <2>3. ASSUME NEW u \in Threads, NEW v \in Threads, pc'[u] \in Walking, pc'[v] = "storing"
        PROVE  cursor'[v] \notin due'[u]
    <3>1. pc[v] = "storing" /\ cursor'[v] = cursor[v] /\ cursor[v] \notin Listed
      BY <1>4, <1>5, <2>3
    <3>2. CASE u = t
      BY <2>3, <3>1, <3>2 DEF Walking, IInv, HeldOK
    <3>3. CASE u # t
      BY <2>3, <3>1, <3>3 DEF IInv, HeldOK
    <3> QED BY <3>2, <3>3
  <2>4. \A u \in Threads : pc'[u] \in Walking =>
          visitor'[u] \in Users /\ \A id \in due'[u] : id <= Len(paged)
    BY <1>3 DEF IInv, HeldOK, Walking
  <2> QED BY <1>2, <1>5, <2>1, <2>2, <2>3, <2>4 DEF IInv, HeldOK
<1>7. EntriesOK' /\ RowsOK' /\ SaidOK' /\ JidIsPrivate'
  BY DEF IInv, EntriesOK, RowsOK, SaidOK, JidIsPrivate
<1>8. Ordered'
  BY <1>5 DEF IInv, Ordered
<1>9. \A what \in {"storing", "purging", "dropping"} : \A i : Handles(what, i) => Handles(what, i)'
  <2> SUFFICES ASSUME NEW what \in {"storing", "purging", "dropping"}, NEW i, Handles(what, i)
               PROVE  Handles(what, i)'
    OBVIOUS
  <2>1. PICK u \in Threads : pc[u] = what /\ cursor[u] = i
    BY DEF Handles
  <2>2. pc'[u] = what /\ cursor'[u] = i
    BY <2>1
  <2> QED BY <2>2 DEF Handles
<1>10. Unsent'
  BY <1>1, <1>5, <1>9 DEF IInv, Unsent
<1>11. Matched'
  BY <1>2, <1>5, <1>9 DEF IInv, Matched, HasRow
<1>12. NothingLost' /\ SentOnce'
  BY <1>1 DEF IInv, NothingLost, SentOnce
<1> QED BY <1>6, <1>7, <1>8, <1>10, <1>11, <1>12

LEMMA ArriveStep ==
  ASSUME IInv, TypeOK', NEW t \in Threads, NEW user \in Users, Arrive(t, user)
  PROVE  IInv'
<1> DEFINE theirs == {messages[k].id : k \in {l \in DOMAIN messages : IsFor(messages[l], user)}}
<1>1. /\ pc[t] = "idle" /\ up /\ up' /\ messages # <<>>
      /\ UNCHANGED <<messages, rows, paged, said, excused, wild>>
      /\ pc' = [pc EXCEPT ![t] = "scanning"] /\ cursor' = [cursor EXCEPT ![t] = messages[1].id]
      /\ visitor' = [visitor EXCEPT ![t] = user] /\ due' = [due EXCEPT ![t] = theirs]
  BY DEF Arrive, Does, env
<1>2. /\ pc'[t] = "scanning" /\ cursor'[t] = messages[1].id /\ visitor'[t] = user /\ due'[t] = theirs
      /\ \A u \in Threads \ {t} :
           pc'[u] = pc[u] /\ cursor'[u] = cursor[u] /\ visitor'[u] = visitor[u] /\ due'[u] = due[u]
  <2> HIDE DEF theirs
  <2> QED BY <1>1 DEF IInv, TypeOK
<1>3. 1 \in DOMAIN messages /\ messages[1].id \in Listed /\ theirs \subseteq Listed
  <2>1. 1 \in DOMAIN messages
    BY <1>1, ListType, EmptySeq DEF IInv, TypeOK
  <2> QED BY <2>1 DEF Listed
<1>4. /\ HeldOK' /\ EntriesOK' /\ RowsOK' /\ Ordered' /\ SaidOK' /\ Unsent' /\ Matched'
      /\ NothingLost' /\ SentOnce' /\ JidIsPrivate'
  <2> HIDE DEF theirs
  <2> QED BY <1>1, <1>2, <1>3, MoveStep
<1>5. \A l \in DOMAIN messages : messages[l].id \in theirs => IsFor(messages[l], user)
  <2> SUFFICES ASSUME NEW l \in DOMAIN messages, messages[l].id \in theirs
               PROVE  IsFor(messages[l], user)
    OBVIOUS
  <2>1. PICK k \in DOMAIN messages : messages[k].id = messages[l].id /\ IsFor(messages[k], user)
    OBVIOUS
  <2>2. k = l
    BY <2>1 DEF IInv, EntriesOK
  <2> QED BY <2>1, <2>2
<1>6. messages[1].id # End /\ \A k \in DOMAIN messages : messages[k].id = messages[1].id => k = 1
  BY <1>3, ListType DEF IInv, EntriesOK, Ids, End
<1>7. Passed'
  <2> SUFFICES ASSUME NEW u \in Threads, pc'[u] \in Walking
               PROVE  /\ \A l \in DOMAIN messages : messages[l].id \in due'[u] => IsFor(messages[l], visitor'[u])
                      /\ cursor'[u] = End => \A l \in DOMAIN messages : messages[l].id \notin due'[u]
                      /\ \A k, l \in DOMAIN messages :
                           messages[k].id = cursor'[u] /\ messages[l].id \in due'[u] => k <= l
    BY <1>1 DEF Passed
  <2> HIDE DEF theirs
  <2>1. CASE u = t
    BY <1>2, <1>5, <1>6, <2>1, ListType DEF IInv
  <2>2. CASE u # t
    BY <1>2, <2>2 DEF IInv, Passed
  <2> QED BY <2>1, <2>2
<1> QED BY <1>4, <1>7 DEF IInv

LEMMA PassStep ==
  ASSUME IInv, TypeOK', NEW t \in Threads, NEW k \in DOMAIN messages, Pass(t, k)
  PROVE  IInv'
<1>1. /\ pc[t] = "scanning" /\ up /\ up' /\ cursor[t] = messages[k].id
      /\ ~IsFor(messages[k], visitor[t])
      /\ UNCHANGED <<messages, rows, paged, pc, visitor, due, said, excused, wild>>
      /\ cursor' = [cursor EXCEPT ![t] = After(k)]
  BY DEF Pass, At, Does, env
<1>2. cursor'[t] = After(k) /\ \A u \in Threads \ {t} : cursor'[u] = cursor[u]
  BY <1>1 DEF IInv, TypeOK
<1>3. \/ k + 1 \in DOMAIN messages /\ After(k) = messages[k + 1].id
      \/ k = Len(messages) /\ After(k) = End
  BY ListType DEF IInv, After
<1>4. After(k) \in Listed \cup {End}
  BY <1>3 DEF Listed
<1>5. visitor[t] \in Users
  BY <1>1 DEF IInv, HeldOK, Walking
<1>7. /\ HeldOK' /\ EntriesOK' /\ RowsOK' /\ Ordered' /\ SaidOK' /\ Unsent' /\ Matched'
      /\ NothingLost' /\ SentOnce' /\ JidIsPrivate'
  BY <1>1, <1>2, <1>4, <1>5, MoveStep
<1>6. Passed'
  <2> SUFFICES ASSUME NEW u \in Threads, pc[u] \in Walking
               PROVE  /\ \A l \in DOMAIN messages : messages[l].id \in due[u] => IsFor(messages[l], visitor[u])
                      /\ cursor'[u] = End => \A l \in DOMAIN messages : messages[l].id \notin due[u]
                      /\ \A i, l \in DOMAIN messages :
                           messages[i].id = cursor'[u] /\ messages[l].id \in due[u] => i <= l
    BY <1>1 DEF Passed
  <2>1. CASE u # t
    BY <1>2, <2>1 DEF IInv, Passed
  <2>2. CASE u = t
    <3>1. \A l \in DOMAIN messages : messages[l].id \in due[t] => IsFor(messages[l], visitor[t])
      BY <1>1 DEF IInv, Passed, Walking
    <3>2. \A l \in DOMAIN messages : messages[l].id \in due[t] => k <= l /\ l # k
      BY <1>1, <3>1 DEF IInv, Passed, Walking
    <3>3. \A l \in DOMAIN messages : messages[l].id \in due[t] => k + 1 \in DOMAIN messages /\ k + 1 <= l
      BY <3>2, ListType DEF IInv
    <3>4. CASE k + 1 \in DOMAIN messages /\ After(k) = messages[k + 1].id
      <4>1. messages[k + 1].id # End
        BY <3>4, ListType DEF IInv, Ids, End
      <4>2. \A i \in DOMAIN messages : messages[i].id = messages[k + 1].id => i = k + 1
        BY <3>4 DEF IInv, EntriesOK
      <4> QED BY <1>2, <2>2, <3>1, <3>3, <3>4, <4>1, <4>2
    <3>5. CASE k = Len(messages) /\ After(k) = End
      <4>1. k + 1 \notin DOMAIN messages
        BY <3>5, ListType DEF IInv
      <4>2. \A i \in DOMAIN messages : messages[i].id # End
        BY ListType DEF IInv, Ids, End
      <4> QED BY <1>2, <2>2, <3>1, <3>3, <3>5, <4>1, <4>2
    <3> QED BY <1>3, <3>4, <3>5
  <2> QED BY <2>1, <2>2
<1> QED BY <1>6, <1>7 DEF IInv

LEMMA EndStep ==
  ASSUME IInv, TypeOK', NEW t \in Threads, EndOfScan(t)
  PROVE  IInv'
<1>1. /\ pc[t] = "scanning" /\ up /\ up' /\ cursor' = cursor /\ cursor[t] = End
      /\ UNCHANGED <<messages, rows, paged, said, excused, wild>>
      /\ pc' = [pc EXCEPT ![t] = "idle"]
      /\ visitor' = [visitor EXCEPT ![t] = Nobody] /\ due' = [due EXCEPT ![t] = {}]
  BY DEF EndOfScan, Does, env
<1>2. /\ pc'[t] = "idle"
      /\ \A u \in Threads \ {t} :
           pc'[u] = pc[u] /\ cursor'[u] = cursor[u] /\ visitor'[u] = visitor[u] /\ due'[u] = due[u]
  BY <1>1 DEF IInv, TypeOK
<1>3. /\ HeldOK' /\ EntriesOK' /\ RowsOK' /\ Ordered' /\ SaidOK' /\ Unsent' /\ Matched'
      /\ NothingLost' /\ SentOnce' /\ JidIsPrivate'
  BY <1>1, <1>2, MoveStep
<1>4. Passed'
  BY <1>1, <1>2 DEF IInv, Passed, Walking
<1> QED BY <1>3, <1>4 DEF IInv

\* What is sent has not been sent before, unless another walk has just sent it.
LEMMA SendStep ==
  ASSUME IInv, TypeOK', NEW t \in Threads, NEW k \in DOMAIN messages, Deliver(t, k) \/ Expire(t, k)
  PROVE  IInv'
<1>0. PICK id \in Ids : id = cursor[t] /\ id = messages[k].id /\ id # End
  BY SendCases, Here DEF IInv
<1>1. /\ pc[t] = "scanning" /\ up /\ ~wild
      /\ UNCHANGED <<env, messages, rows, paged, cursor, visitor, due>>
      /\ excused' = IF Overlapping(t) # {} THEN excused \cup {id} ELSE excused
      /\ pc' = [pc EXCEPT ![t] = "purging"]
  BY <1>0, SendCases, Here DEF IInv
<1>2. PICK w \in {"delivered", "expired"} :
        /\ [id |-> id, what |-> w, whom |-> visitor[t].jid] \in Sendings
        /\ said' = Append(said, [id |-> id, what |-> w, whom |-> visitor[t].jid])
        /\ w = "delivered" => IsFor(messages[k], visitor[t])
  BY <1>0, SendCases DEF IInv
<1>3. PICK last : last = Len(said) + 1
  OBVIOUS
<1>4. /\ DOMAIN said' = DOMAIN said \cup {last} /\ last \notin DOMAIN said
      /\ said'[last] = [id |-> id, what |-> w, whom |-> visitor[t].jid]
      /\ \A j \in DOMAIN said : said'[j] = said[j]
      /\ \A i : Sent(i)' = IF i = id THEN Sent(i) \cup {last} ELSE Sent(i)
  BY <1>2, <1>3, SentMore DEF IInv
<1>5. pc'[t] = "purging" /\ \A u \in Threads \ {t} : pc'[u] = pc[u]
  BY <1>1 DEF IInv, TypeOK
<1>6. excused \subseteq excused' /\ excused' \subseteq excused \cup {id}
  BY <1>1
<1>7. \A u \in Threads : pc[u] = "storing" => u # t /\ cursor[u] # id
  BY <1>0, <1>1 DEF IInv, HeldOK
<1>8. \A u \in Threads : pc'[u] # pc[u] => u = t
  BY <1>5
<1>9. HeldOK'
  <2>1. Listed' = Listed
    BY <1>1 DEF Listed
  <2>2. \A u \in Threads : pc'[u] \in Walking <=> pc[u] \in Walking
    BY <1>1, <1>5 DEF Walking
  <2>3. \A u \in Threads : /\ pc'[u] = "storing" <=> pc[u] = "storing"
                           /\ pc'[u] = "idle" <=> pc[u] = "idle"
    BY <1>1, <1>5
  <2>4. \A u \in Threads : pc'[u] \in {"storing", "purging", "dropping"} => cursor[u] # End
    BY <1>0, <1>5 DEF IInv, HeldOK
  <2> QED BY <1>1, <2>1, <2>2, <2>3, <2>4 DEF IInv, HeldOK, env
<1>10. EntriesOK' /\ RowsOK'
  BY <1>1 DEF IInv, EntriesOK, RowsOK
<1>11. Ordered'
  <2>1. \A u \in Threads : pc'[u] = "storing" => pc[u] = "storing"
    BY <1>5
  <2> QED BY <1>1, <2>1 DEF IInv, Ordered
<1>12. SaidOK'
  <2>1. id <= Len(paged)
    BY <1>0 DEF IInv, EntriesOK
  <2> QED BY <1>1, <1>4, <2>1 DEF IInv, SaidOK
<1>13. NothingLost'
  BY <1>1, <1>4 DEF IInv, NothingLost, env
<1>14. id \notin excused' => Sent(id) = {} /\ Overlapping(t) = {}
  <2> SUFFICES ASSUME id \notin excused' PROVE Sent(id) = {} /\ Overlapping(t) = {}
    OBVIOUS
  <2>1. Overlapping(t) = {} /\ id \notin excused
    BY <1>1
  <2>2. ~Handles("purging", id) /\ ~Handles("dropping", id)
    BY <1>0, <1>1, <2>1 DEF Handles, Overlapping
  <2> QED BY <1>0, <2>1, <2>2 DEF IInv, Unsent
<1>15. SentOnce'
  BY <1>4, <1>6, <1>14 DEF IInv, SentOnce
<1>16. JidIsPrivate'
  <2>1. ASSUME w = "delivered", paged[id].to \in {u.jid : u \in Users}
        PROVE  visitor[t].jid = paged[id].to
    <3>1. messages[k].to = paged[id].to
      BY <1>0 DEF IInv, EntriesOK
    <3>2. visitor[t] \in Users
      BY <1>1 DEF IInv, HeldOK, Walking
    <3> QED BY <1>2, <2>1, <3>1, <3>2, PagerAssumption DEF IsFor
  <2>2. \A j \in DOMAIN said : said'[j] = said[j]
    BY <1>4
  <2>3. ASSUME NEW j \in DOMAIN said', said'[j].what = "delivered",
               paged[said'[j].id].to \in {u.jid : u \in Users}
        PROVE  said'[j].whom = paged[said'[j].id].to
    <3>1. CASE j = last
      <4>1. said'[j].what = w /\ said'[j].id = id /\ said'[j].whom = visitor[t].jid
        BY <1>4, <3>1
      <4> QED BY <2>1, <2>3, <4>1
    <3>2. CASE j \in DOMAIN said
      BY <2>2, <2>3, <3>2 DEF IInv, JidIsPrivate
    <3> QED BY <1>4, <3>1, <3>2
  <2> QED BY <1>1, <2>3 DEF JidIsPrivate
<1>17. ASSUME NEW what \in {"storing", "purging", "dropping"}, NEW i, Handles(what, i)
       PROVE  Handles(what, i)'
  <2>1. PICK u \in Threads : pc[u] = what /\ cursor[u] = i
    BY <1>17 DEF Handles
  <2>2. pc'[u] = what /\ cursor'[u] = i
    BY <1>1, <1>5, <2>1
  <2> QED BY <2>2 DEF Handles
<1>18. Handles("purging", id)'
  BY <1>0, <1>1, <1>5 DEF Handles
<1>19. Unsent'
  <2>1. \A u \in Threads : pc'[u] = "storing" => Sent(cursor[u])' = {}
    <3> TAKE u \in Threads
    <3> HAVE pc'[u] = "storing"
    <3>1. pc[u] = "storing" /\ cursor[u] # id
      BY <1>5, <1>7
    <3> QED BY <1>1, <1>4, <3>1 DEF IInv, Unsent
  <2>2. \A u \in Threads : pc'[u] \in {"purging", "dropping"} => Sent(cursor[u])' # {}
    <3> TAKE u \in Threads
    <3> HAVE pc'[u] \in {"purging", "dropping"}
    <3>1. CASE u = t
      BY <1>0, <1>1, <1>4, <3>1
    <3>2. CASE u # t
      BY <1>1, <1>4, <1>5, <3>2 DEF IInv, Unsent
    <3> QED BY <3>1, <3>2
  <2>3. ASSUME NEW s \in rows, NEW i, i = s.id, i \notin excused', Sent(i)' # {}
        PROVE  Handles("purging", i)'
    BY <1>4, <1>6, <1>17, <1>18, <2>3 DEF IInv, Unsent
  <2>4. ASSUME NEW j \in DOMAIN messages, NEW i, i = messages[j].id, i \notin excused', Sent(i)' # {}
        PROVE  Handles("purging", i)' \/ Handles("dropping", i)'
    BY <1>4, <1>6, <1>17, <1>18, <2>4 DEF IInv, Unsent
  <2> QED BY <1>1, <2>1, <2>2, <2>3, <2>4 DEF Unsent
<1>20. Matched'
  <2>1. ASSUME NEW j \in DOMAIN messages, NEW i, i = messages[j].id
        PROVE  HasRow(rows, i) \/ Handles("dropping", i)'
    BY <1>1, <1>17, <2>1 DEF IInv, Matched
  <2>2. \A u \in Threads : pc'[u] = "storing" => HasRow(rows, cursor[u])
    BY <1>1, <1>5 DEF IInv, Matched
  <2>3. \A u \in Threads : pc'[u] = "dropping" /\ cursor[u] \notin excused' => ~HasRow(rows, cursor[u])
    BY <1>5, <1>6 DEF IInv, Matched
  <2>4. ASSUME NEW s \in rows, NEW i, i = s.id PROVE i \in Listed \cup excused' \/ Handles("storing", i)'
    BY <1>1, <1>6, <1>17, <2>4 DEF IInv, Matched
  <2>5. Listed' = Listed
    BY <1>1 DEF Listed
  <2> QED BY <1>1, <2>1, <2>2, <2>3, <2>4, <2>5 DEF Matched
<1>21. Passed'
  <2>1. \A u \in Threads : pc'[u] \in Walking => pc[u] \in Walking
    BY <1>1, <1>5 DEF Walking
  <2> QED BY <1>1, <2>1 DEF IInv, Passed
<1> QED
  BY <1>9, <1>10, <1>11, <1>12, <1>13, <1>15, <1>16, <1>19, <1>20, <1>21 DEF IInv

\* A row goes when its message has been sent.
LEMMA PurgeStep ==
  ASSUME IInv, TypeOK', NEW t \in Threads, NEW k \in DOMAIN messages, Purge(t, k) \/ PurgeFails(t, k)
  PROVE  IInv'
<1>0. PICK id \in Ids : id = cursor[t] /\ id = messages[k].id
  BY Here DEF Purge, PurgeFails, IInv
<1>1. /\ pc[t] = "purging" /\ up /\ ~wild
      /\ UNCHANGED <<env, messages, paged, cursor, visitor, due, said>>
      /\ \/ rows' = {r \in rows : r.id # id} /\ excused' = excused
         \/ rows' = rows /\ excused' = excused \cup {id}
      /\ pc' = [pc EXCEPT ![t] = "dropping"]
  BY <1>0 DEF Purge, PurgeFails, At, Does
<1>2. pc'[t] = "dropping" /\ \A u \in Threads \ {t} : pc'[u] = pc[u]
  BY <1>1 DEF IInv, TypeOK
<1>3. /\ rows' \subseteq rows /\ excused \subseteq excused'
      /\ \A i : i # id /\ HasRow(rows, i) => HasRow(rows', i)
      /\ \A i : HasRow(rows', i) => HasRow(rows, i)
      /\ HasRow(rows', id) => id \in excused'
  BY <1>1 DEF HasRow
<1>4. \A i : Sent(i)' = Sent(i)
  BY <1>1 DEF Sent
<1>5. Sent(id) # {}
  BY <1>0, <1>1 DEF IInv, Unsent
<1>6. Listed' = Listed
  BY <1>1 DEF Listed
<1>7. HeldOK'
  <2>1. \A u \in Threads : pc'[u] \in Walking <=> pc[u] \in Walking
    BY <1>1, <1>2 DEF Walking
  <2>2. \A u \in Threads : /\ pc'[u] = "storing" <=> pc[u] = "storing"
                           /\ pc'[u] = "idle" <=> pc[u] = "idle"
    BY <1>1, <1>2
  <2>3. \A u \in Threads : pc'[u] \in {"storing", "purging", "dropping"} => cursor[u] # End
    BY <1>1, <1>2 DEF IInv, HeldOK
  <2> QED BY <1>1, <1>6, <2>1, <2>2, <2>3 DEF IInv, HeldOK, env
<1>8. EntriesOK' /\ SaidOK' /\ JidIsPrivate'
  BY <1>1 DEF IInv, EntriesOK, SaidOK, JidIsPrivate
<1>9. RowsOK'
  BY <1>1, <1>3, FS_Subset DEF IInv, RowsOK
<1>10. Ordered'
  <2>1. \A u \in Threads : pc'[u] = "storing" => pc[u] = "storing"
    BY <1>2
  <2> QED BY <1>1, <2>1 DEF IInv, Ordered
<1>11. NothingLost'
  <2> SUFFICES ASSUME NEW i \in DOMAIN paged PROVE (\E r \in rows' : r.id = i) \/ Sent(i) # {}
    BY <1>1, <1>4 DEF NothingLost
  <2>1. CASE i = id
    BY <1>5, <2>1
  <2>2. CASE i # id
    BY <1>1, <2>2 DEF IInv, NothingLost
  <2> QED BY <2>1, <2>2
<1>12. SentOnce'
  BY <1>3, <1>4 DEF IInv, SentOnce
<1>13. ASSUME NEW what \in {"storing", "purging", "dropping"}, NEW i, Handles(what, i)
       PROVE  Handles(what, i)' \/ (what = "purging" /\ i = id)
  <2>1. PICK u \in Threads : pc[u] = what /\ cursor[u] = i
    BY <1>13 DEF Handles
  <2>2. CASE u # t
    <3>1. pc'[u] = what /\ cursor'[u] = i
      BY <1>1, <1>2, <2>1, <2>2
    <3> QED BY <3>1 DEF Handles
  <2>3. CASE u = t
    BY <1>0, <1>1, <2>1, <2>3
  <2> QED BY <2>2, <2>3
<1>14. Handles("dropping", id)'
  BY <1>0, <1>1, <1>2 DEF Handles
<1>15. Unsent'
  <2>1. \A u \in Threads : pc'[u] = "storing" => Sent(cursor[u]) = {}
    BY <1>2 DEF IInv, Unsent
  <2>2. \A u \in Threads : pc'[u] \in {"purging", "dropping"} => Sent(cursor[u]) # {}
    BY <1>0, <1>2, <1>5 DEF IInv, Unsent
  <2>3. ASSUME NEW s \in rows', NEW i, i = s.id, i \notin excused', Sent(i) # {}
        PROVE  Handles("purging", i)'
    <3>1. i # id
      BY <1>3, <2>3 DEF HasRow
    <3> QED BY <1>3, <1>13, <2>3, <3>1 DEF IInv, Unsent
  <2>4. ASSUME NEW j \in DOMAIN messages, NEW i, i = messages[j].id, i \notin excused', Sent(i) # {}
        PROVE  Handles("purging", i)' \/ Handles("dropping", i)'
    BY <1>3, <1>13, <1>14, <2>4 DEF IInv, Unsent
  <2> QED BY <1>1, <1>4, <2>1, <2>2, <2>3, <2>4 DEF Unsent
<1>16. Matched'
  <2>1. ASSUME NEW j \in DOMAIN messages, NEW i, i = messages[j].id
        PROVE  HasRow(rows', i) \/ Handles("dropping", i)'
    BY <1>1, <1>3, <1>13, <1>14, <2>1 DEF IInv, Matched
  <2>2. ASSUME NEW u \in Threads, pc'[u] = "storing" PROVE HasRow(rows', cursor[u])
    <3>1. pc[u] = "storing" /\ cursor[u] # id
      BY <1>0, <1>1, <1>2, <2>2 DEF IInv, HeldOK
    <3> QED BY <1>1, <1>3, <3>1 DEF IInv, Matched
  <2>3. \A u \in Threads : pc'[u] = "dropping" /\ cursor[u] \notin excused' => ~HasRow(rows', cursor[u])
    BY <1>0, <1>2, <1>3 DEF IInv, Matched
  <2>4. ASSUME NEW s \in rows', NEW i, i = s.id PROVE i \in Listed \cup excused' \/ Handles("storing", i)'
    BY <1>1, <1>3, <1>13, <2>4 DEF IInv, Matched
  <2> QED BY <1>1, <1>6, <2>1, <2>2, <2>3, <2>4 DEF Matched
<1>17. Passed'
  <2>1. \A u \in Threads : pc'[u] \in Walking => pc[u] \in Walking
    BY <1>1, <1>2 DEF Walking
  <2> QED BY <1>1, <2>1 DEF IInv, Passed
<1> QED
  BY <1>7, <1>8, <1>9, <1>10, <1>11, <1>12, <1>15, <1>16, <1>17 DEF IInv

\* erase takes one entry out, and the iterator goes on to the next.
LEMMA DropStep ==
  ASSUME IInv, TypeOK', NEW t \in Threads, NEW k \in DOMAIN messages, Drop(t, k)
  PROVE  IInv'
<1>0. PICK id \in Ids : id = cursor[t] /\ id = messages[k].id
  BY Here DEF Drop, IInv
<1>1. /\ pc[t] = "dropping" /\ up /\ ~wild /\ id # End
      /\ UNCHANGED <<env, rows, paged, visitor, due, said, excused>>
      /\ messages' = RemoveAt(messages, k)
      /\ cursor' = [cursor EXCEPT ![t] = After(k)]
      /\ pc' = [pc EXCEPT ![t] = "scanning"]
  BY <1>0 DEF Drop, At, Does, Ids, End
<1>2. /\ pc'[t] = "scanning" /\ cursor'[t] = After(k)
      /\ \A u \in Threads \ {t} : pc'[u] = pc[u] /\ cursor'[u] = cursor[u]
  BY <1>1 DEF IInv, TypeOK
<1>3. /\ Len(messages) \in Nat /\ DOMAIN messages = 1..Len(messages) /\ messages \in Seq(Messages)
      /\ messages' \in Seq(Messages) /\ k \in 1..Len(messages) /\ k \in Nat
      /\ Len(paged) \in Nat /\ \A j \in DOMAIN messages : messages[j].id \in Ids
  BY ListType DEF IInv, TypeOK
<1>4. /\ DOMAIN messages' = 1..(Len(messages) - 1)
      /\ \A j \in DOMAIN messages' :
           messages'[j] = IF j < k THEN messages[j] ELSE messages[j + 1]
  <2>1. Len(messages') = Len(messages) - 1 /\ DOMAIN messages' = 1..Len(messages')
    BY <1>1, <1>3, Removed, LenProperties
  <2> QED BY <1>1, <1>3, <2>1, Removed
<1>5. PICK was : was = [j \in DOMAIN messages' |-> IF j < k THEN j ELSE j + 1]
  OBVIOUS
<1>6. \A j \in DOMAIN messages' :
        was[j] \in DOMAIN messages /\ was[j] # k /\ messages'[j] = messages[was[j]]
  BY <1>3, <1>4, <1>5
<1>7. \A i, j \in DOMAIN messages' :
        /\ i < j => was[i] < was[j]
        /\ i <= j <=> was[i] <= was[j]
        /\ i = j <=> was[i] = was[j]
  BY <1>3, <1>4, <1>5
<1>8. \A j \in DOMAIN messages' : messages'[j].id # id
  BY <1>0, <1>6 DEF IInv, EntriesOK
<1>9. Listed \ {id} \subseteq Listed' /\ Listed' \subseteq Listed
  <2>1. Listed' \subseteq Listed
    BY <1>6 DEF Listed
  <2>2. ASSUME NEW i \in DOMAIN messages, messages[i].id # id
        PROVE  \E j \in DOMAIN messages' : messages'[j] = messages[i]
    <3>1. i # k
      BY <1>0, <2>2
    <3>2. CASE i < k
      <4>1. i \in DOMAIN messages' /\ messages'[i] = messages[i]
        BY <1>3, <1>4, <3>2
      <4> QED BY <4>1
    <3>3. CASE i > k
      <4>1. i - 1 \in DOMAIN messages' /\ messages'[i - 1] = messages[i]
        BY <1>3, <1>4, <3>3
      <4> QED BY <4>1
    <3> QED BY <1>3, <3>1, <3>2, <3>3
  <2>3. Listed \ {id} \subseteq Listed'
    BY <2>2 DEF Listed
  <2> QED BY <2>1, <2>3
<1>10. \/ k + 1 \in DOMAIN messages /\ After(k) = messages[k + 1].id
       \/ k = Len(messages) /\ After(k) = End
  BY <1>3 DEF After
<1>11. After(k) \in Listed \cup {End} /\ After(k) <= Len(paged)
  BY <1>3, <1>10 DEF Listed, IInv, EntriesOK, End
<1>12. \A i : Sent(i)' = Sent(i)
  BY <1>1 DEF Sent
<1>13. HeldOK'
  <2>1. \A u \in Threads : cursor'[u] <= Len(paged)
    BY <1>2, <1>11 DEF IInv, HeldOK
  <2>2. \A u \in Threads : /\ pc'[u] = "storing" <=> pc[u] = "storing"
                           /\ pc'[u] = "idle" <=> pc[u] = "idle"
                           /\ pc'[u] \in Walking <=> pc[u] \in Walking
    BY <1>1, <1>2 DEF Walking
  <2>3. \A u \in Threads : pc'[u] \in {"storing", "purging", "dropping"} =>
          cursor'[u] # End /\ u # t
    BY <1>2 DEF IInv, HeldOK
  <2>4. \A u \in Threads : pc'[u] = "storing" => cursor'[u] \notin Listed' /\ paged[cursor'[u]].by = u
    BY <1>2, <1>9, <2>2, <2>3 DEF IInv, HeldOK
  <2>5. ASSUME NEW u \in Threads, NEW v \in Threads, pc'[u] = "storing", u # v, pc'[v] # "idle"
        PROVE  cursor'[u] # cursor'[v]
    <3>1. cursor'[u] = cursor[u] /\ pc[u] = "storing" /\ cursor[u] \notin Listed /\ cursor[u] # End
      BY <1>2, <2>2, <2>3, <2>5 DEF IInv, HeldOK
    <3>2. CASE v = t
      BY <1>2, <1>11, <3>1, <3>2
    <3>3. CASE v # t
      BY <1>2, <2>5, <3>1, <3>3 DEF IInv, HeldOK
    <3> QED BY <3>2, <3>3
  <2>6. \A u, v \in Threads : pc'[u] \in Walking /\ pc'[v] = "storing" => cursor'[v] \notin due[u]
    BY <1>2, <2>2, <2>3 DEF IInv, HeldOK
  <2> QED BY <1>1, <2>1, <2>2, <2>3, <2>4, <2>5, <2>6 DEF IInv, HeldOK, env
<1>14. EntriesOK'
  <2>1. \A i, j \in DOMAIN messages' : messages'[i].id = messages'[j].id => i = j
    BY <1>6, <1>7 DEF IInv, EntriesOK
  <2> QED BY <1>1, <1>6, <2>1 DEF IInv, EntriesOK
<1>15. RowsOK' /\ SaidOK' /\ JidIsPrivate'
  BY <1>1 DEF IInv, RowsOK, SaidOK, JidIsPrivate
<1>16. Ordered'
  <2>1. \A i, j \in DOMAIN messages' :
          i < j /\ paged[messages'[i].id].by = paged[messages'[j].id].by
            => messages'[i].id < messages'[j].id
    BY <1>6, <1>7 DEF IInv, Ordered
  <2>2. \A u \in Threads : pc'[u] = "storing" => pc[u] = "storing" /\ cursor'[u] = cursor[u]
    BY <1>2
  <2>3. \A u \in Threads, j \in DOMAIN messages' :
          pc'[u] = "storing" /\ paged[messages'[j].id].by = u => messages'[j].id < cursor'[u]
    BY <1>6, <2>2 DEF IInv, Ordered
  <2> QED BY <1>1, <2>1, <2>3 DEF Ordered
<1>17. NothingLost' /\ SentOnce'
  BY <1>1, <1>12 DEF IInv, NothingLost, SentOnce, env
<1>18. ASSUME NEW what \in {"storing", "purging", "dropping"}, NEW i, Handles(what, i)
       PROVE  Handles(what, i)' \/ (what = "dropping" /\ i = id)
  <2>1. PICK u \in Threads : pc[u] = what /\ cursor[u] = i
    BY <1>18 DEF Handles
  <2>2. CASE u # t
    <3>1. pc'[u] = what /\ cursor'[u] = i
      BY <1>2, <2>1, <2>2
    <3> QED BY <3>1 DEF Handles
  <2>3. CASE u = t
    BY <1>0, <1>1, <2>1, <2>3
  <2> QED BY <2>2, <2>3
<1>19. Unsent'
  <2>1. \A u \in Threads : pc'[u] = "storing" => Sent(cursor'[u]) = {}
    BY <1>2 DEF IInv, Unsent
  <2>2. \A u \in Threads : pc'[u] \in {"purging", "dropping"} => Sent(cursor'[u]) # {}
    BY <1>2 DEF IInv, Unsent
  <2>3. ASSUME NEW s \in rows, NEW i, i = s.id, i \notin excused, Sent(i) # {}
        PROVE  Handles("purging", i)'
    BY <1>18, <2>3 DEF IInv, Unsent
  <2>4. ASSUME NEW j \in DOMAIN messages', NEW i, i = messages'[j].id, i \notin excused, Sent(i) # {}
        PROVE  Handles("purging", i)' \/ Handles("dropping", i)'
    <3>1. i # id /\ was[j] \in DOMAIN messages /\ i = messages[was[j]].id
      BY <1>6, <1>8, <2>4
    <3> QED BY <1>18, <2>4, <3>1 DEF IInv, Unsent
  <2> QED BY <1>1, <1>12, <2>1, <2>2, <2>3, <2>4 DEF Unsent
<1>20. Matched'
  <2>1. ASSUME NEW j \in DOMAIN messages', NEW i, i = messages'[j].id
        PROVE  HasRow(rows, i) \/ Handles("dropping", i)'
    <3>1. i # id /\ was[j] \in DOMAIN messages /\ i = messages[was[j]].id
      BY <1>6, <1>8, <2>1
    <3> QED BY <1>1, <1>18, <3>1 DEF IInv, Matched
  <2>2. \A u \in Threads : pc'[u] = "storing" => HasRow(rows, cursor'[u])
    BY <1>1, <1>2 DEF IInv, Matched
  <2>3. \A u \in Threads : pc'[u] = "dropping" /\ cursor'[u] \notin excused => ~HasRow(rows, cursor'[u])
    BY <1>2 DEF IInv, Matched
  <2>4. ASSUME NEW s \in rows, NEW i, i = s.id PROVE i \in Listed' \cup excused \/ Handles("storing", i)'
    <3>1. i = id => i \in excused
      BY <1>0, <1>1, <2>4 DEF IInv, Matched, HasRow
    <3>2. i \in Listed \cup excused \/ Handles("storing", i)
      BY <1>1, <2>4 DEF IInv, Matched
    <3> QED BY <1>9, <1>18, <3>1, <3>2
  <2> QED BY <1>1, <2>1, <2>2, <2>3, <2>4 DEF Matched
<1>21. Passed'
  <2> SUFFICES ASSUME NEW u \in Threads, pc'[u] \in Walking
               PROVE  /\ \A l \in DOMAIN messages' : messages'[l].id \in due[u] => IsFor(messages'[l], visitor[u])
                      /\ cursor'[u] = End => \A l \in DOMAIN messages' : messages'[l].id \notin due[u]
                      /\ \A i, l \in DOMAIN messages' :
                           messages'[i].id = cursor'[u] /\ messages'[l].id \in due[u] => i <= l
    BY <1>1 DEF Passed
  <2>1. pc[u] \in Walking
    BY <1>1, <1>2 DEF Walking
  <2>2. \A l \in DOMAIN messages' : messages'[l].id \in due[u] => IsFor(messages'[l], visitor[u])
    BY <1>6, <2>1 DEF IInv, Passed
  <2>3. CASE u # t
    BY <1>2, <1>6, <1>7, <2>1, <2>2, <2>3 DEF IInv, Passed
  <2>4. CASE u = t
    <3>1. \A l \in DOMAIN messages' : messages'[l].id \in due[t] => k < was[l]
      <4> TAKE l \in DOMAIN messages'
      <4> HAVE messages'[l].id \in due[t]
      <4>1. was[l] \in DOMAIN messages /\ was[l] # k /\ messages[was[l]].id \in due[t]
        BY <1>6
      <4>2. k <= was[l]
        BY <1>0, <2>1, <2>4, <4>1 DEF IInv, Passed
      <4> QED BY <1>3, <4>1, <4>2
    <3>2. CASE k + 1 \in DOMAIN messages /\ After(k) = messages[k + 1].id
      <4>1. messages[k + 1].id # End
        BY <1>3, <3>2 DEF Ids, End
      <4>2. \A i \in DOMAIN messages' : messages'[i].id = messages[k + 1].id => was[i] = k + 1
        BY <1>6, <3>2 DEF IInv, EntriesOK
      <4>3. \A i, l \in DOMAIN messages' :
              messages'[i].id = messages[k + 1].id /\ messages'[l].id \in due[t] => was[i] <= was[l]
        BY <1>3, <1>6, <3>1, <4>2
      <4> QED BY <1>2, <1>7, <2>2, <2>4, <3>2, <4>1, <4>3
    <3>3. CASE k = Len(messages) /\ After(k) = End
      <4>1. \A i \in DOMAIN messages' : messages'[i].id # End
        BY <1>3, <1>6 DEF Ids, End
      <4>2. \A l \in DOMAIN messages' : messages'[l].id \notin due[t]
        BY <1>3, <1>6, <3>1, <3>3
      <4> QED BY <1>2, <2>2, <2>4, <3>3, <4>1, <4>2
    <3> QED BY <1>10, <3>2, <3>3
  <2> QED BY <2>3, <2>4
<1> QED
  BY <1>13, <1>14, <1>15, <1>16, <1>17, <1>19, <1>20, <1>21 DEF IInv

\* After the use of an entry that is gone, rows may be gone too, and nothing is added.
LEMMA DanglingStep ==
  ASSUME IInv, TypeOK', NEW t \in Threads, Dangling(t)
  PROVE  IInv'
<1>1. /\ wild' /\ rows' \subseteq rows
      /\ UNCHANGED <<up, messages, paged, pc, cursor, visitor, due, said, excused>>
  BY DEF Dangling
<1>2. HeldOK' /\ EntriesOK' /\ SaidOK' /\ JidIsPrivate' /\ Ordered' /\ Passed'
  BY <1>1 DEF IInv, HeldOK, Listed, EntriesOK, SaidOK, JidIsPrivate, Ordered, Passed
<1>3. RowsOK'
  BY <1>1, FS_Subset DEF IInv, RowsOK
<1>4. NothingLost'
  BY <1>1 DEF NothingLost
<1>5. \A i : Sent(i)' = Sent(i)
  BY <1>1 DEF Sent
<1>6. \A what, i : Handles(what, i)' <=> Handles(what, i)
  BY <1>1 DEF Handles
<1>7. SentOnce' /\ Unsent'
  BY <1>1, <1>5, <1>6 DEF IInv, SentOnce, Unsent
<1>8. Matched'
  BY <1>1, <1>6 DEF IInv, Matched, HasRow, Listed
<1> QED
  BY <1>2, <1>3, <1>4, <1>7, <1>8 DEF IInv

\* The end of the process: what a walk has sent, and not yet removed, stays.
LEMMA StopStep ==
  ASSUME IInv, TypeOK', Stop
  PROVE  IInv'
<1>1. /\ ~up' /\ messages' = <<>> /\ \A t \in Threads : pc'[t] = "idle" /\ cursor'[t] = End
      /\ excused' = excused \cup {cursor[t] : t \in {u \in Threads : pc[u] = "purging"}}
      /\ UNCHANGED <<rows, paged, said, wild>>
  BY DEF Stop
<1>2. DOMAIN messages' = {} /\ Len(paged) \in Nat
  BY <1>1, ListType DEF IInv
<1>3. \A i : Sent(i)' = Sent(i)
  BY <1>1 DEF Sent
<1>4. \A i : Handles("purging", i) => i \in excused'
  BY <1>1 DEF Handles
<1>5. HeldOK'
  BY <1>1, <1>2 DEF HeldOK, Walking, End
<1>6. EntriesOK' /\ RowsOK' /\ Ordered' /\ SaidOK' /\ JidIsPrivate' /\ Passed'
  BY <1>1, <1>2 DEF IInv, EntriesOK, RowsOK, Ordered, SaidOK, JidIsPrivate, Passed, Walking
<1>7. NothingLost' /\ SentOnce'
  BY <1>1, <1>3 DEF IInv, NothingLost, SentOnce
<1>8. Unsent'
  BY <1>1, <1>2, <1>3, <1>4 DEF IInv, Unsent
<1>9. Matched'
  BY <1>1, <1>2 DEF Matched
<1> QED
  BY <1>5, <1>6, <1>7, <1>8, <1>9 DEF IInv

\* RestoreMessages: the list is what the table holds, in the order of the pages.
LEMMA RestoreStep ==
  ASSUME IInv, TypeOK', RestoreMessages
  PROVE  IInv'
<1>1. /\ ~up /\ up' /\ \A t \in Threads : pc[t] = "idle"
      /\ UNCHANGED <<rows, paged, pc, cursor, visitor, due, said, excused, wild>>
      /\ \A k, l \in DOMAIN messages' : k < l => messages'[k].id < messages'[l].id
  BY DEF RestoreMessages, IInv, HeldOK
<1>2. /\ \A k \in DOMAIN messages' : messages'[k] \in rows
      /\ \A r \in rows : \E k \in DOMAIN messages' : messages'[k] = r
  BY DEF RestoreMessages, Range
<1>3. DOMAIN messages' = 1..Cardinality(rows) /\ Cardinality(rows) \in Nat
  BY FS_CardinalityType DEF RestoreMessages, IInv, RowsOK
<1>4. \A r \in rows : r.id \in Listed'
  BY <1>2 DEF Listed
<1>5. \A i : Sent(i)' = Sent(i)
  BY <1>1 DEF Sent
<1>6. \A what \in {"storing", "purging", "dropping"} : \A i : ~Handles(what, i)
  BY <1>1 DEF Handles
<1>7. HeldOK'
  BY <1>1 DEF IInv, HeldOK, Walking
<1>8. EntriesOK'
  <2>1. \A r \in rows : r.id \in Nat
    BY ListType DEF IInv, Ids
  <2>2. ASSUME NEW k \in DOMAIN messages', NEW l \in DOMAIN messages', messages'[k].id = messages'[l].id
        PROVE  k = l
    <3>1. messages'[k].id \in Nat /\ messages'[l].id \in Nat
      BY <1>2, <2>1
    <3>2. ~(k < l) /\ ~(l < k)
      BY <1>1, <2>2, <3>1
    <3> QED BY <1>3, <3>2
  <2> QED BY <1>1, <1>2, <2>2 DEF IInv, RowsOK, EntriesOK
<1>9. RowsOK' /\ SaidOK' /\ JidIsPrivate'
  BY <1>1 DEF IInv, RowsOK, SaidOK, JidIsPrivate
<1>10. Ordered' /\ Passed'
  BY <1>1 DEF Ordered, Passed, Walking
<1>11. NothingLost' /\ SentOnce'
  BY <1>1, <1>5 DEF IInv, NothingLost, SentOnce
<1>12. \A r \in rows : r.id \in excused \/ Sent(r.id) = {}
  BY <1>6 DEF IInv, Unsent
<1>13. Unsent'
  BY <1>1, <1>2, <1>5, <1>12 DEF Unsent
<1>14. Matched'
  BY <1>1, <1>2, <1>4 DEF Matched, HasRow
<1> QED
  BY <1>7, <1>8, <1>9, <1>10, <1>11, <1>13, <1>14 DEF IInv

LEMMA NextStep == IInv /\ [Next]_vars => IInv'
<1> SUFFICES ASSUME IInv, [Next]_vars PROVE IInv'
  OBVIOUS
<1>1. TypeOK'
  BY TypeStep
<1>2. ASSUME UNCHANGED <<up, messages, rows, paged, pc, cursor, visitor, due, said, excused, wild>>
      PROVE  IInv'
  <2>1. HeldOK' /\ EntriesOK' /\ RowsOK' /\ SaidOK' /\ JidIsPrivate' /\ Ordered' /\ Passed'
    BY <1>2 DEF IInv, HeldOK, Listed, EntriesOK, RowsOK, SaidOK, JidIsPrivate, Ordered, Passed
  <2>2. (\A i : Sent(i)' = Sent(i)) /\ \A what, i : Handles(what, i)' <=> Handles(what, i)
    BY <1>2 DEF Sent, Handles
  <2>3. NothingLost' /\ SentOnce' /\ Unsent'
    BY <1>2, <2>2 DEF IInv, NothingLost, SentOnce, Unsent
  <2>4. Matched'
    BY <1>2, <2>2 DEF IInv, Matched, Listed
  <2> QED BY <1>1, <2>1, <2>3, <2>4 DEF IInv
<1>3. CASE Tick
  BY <1>2, <1>3 DEF Tick
<1>4. CASE UNCHANGED vars
  BY <1>2, <1>4 DEF vars
<1>5. ASSUME NEW t \in Threads, InsertFails(t) PROVE IInv'
  BY <1>4, <1>5 DEF InsertFails
<1>6. ASSUME NEW t \in Threads, Walk(t) PROVE IInv'
  <2>1. ASSUME NEW k \in DOMAIN messages, Deliver(t, k) \/ Expire(t, k) PROVE IInv'
    BY <1>1, <2>1, SendStep
  <2>2. ASSUME NEW k \in DOMAIN messages, Pass(t, k) PROVE IInv'
    BY <1>1, <2>2, PassStep
  <2>3. ASSUME NEW k \in DOMAIN messages, Purge(t, k) \/ PurgeFails(t, k) PROVE IInv'
    BY <1>1, <2>3, PurgeStep
  <2>4. ASSUME NEW k \in DOMAIN messages, Drop(t, k) PROVE IInv'
    BY <1>1, <2>4, DropStep
  <2>5. CASE EndOfScan(t)
    BY <1>1, <2>5, EndStep
  <2>6. CASE Dangling(t)
    BY <1>1, <2>6, DanglingStep
  <2> QED BY <1>6, <2>1, <2>2, <2>3, <2>4, <2>5, <2>6 DEF Walk
<1>7. ASSUME NEW t \in Threads, NEW to \in Addresses, Store(t, to) PROVE IInv'
  BY <1>1, <1>7, StoreStep
<1>8. ASSUME NEW t \in Threads, Keep(t) PROVE IInv'
  BY <1>1, <1>8, KeepStep
<1>9. ASSUME NEW t \in Threads, NEW user \in Users, Arrive(t, user) PROVE IInv'
  BY <1>1, <1>9, ArriveStep
<1>10. CASE Stop
  BY <1>1, <1>10, StopStep
<1>11. CASE RestoreMessages
  BY <1>1, <1>11, RestoreStep
<1> QED
  BY <1>3, <1>4, <1>5, <1>6, <1>7, <1>8, <1>9, <1>10, <1>11 DEF Next

-----------------------------------------------------------------------------
(* What follows from the invariant                                         *)

LEMMA IsDurable == IInv => Durable
<1> SUFFICES ASSUME IInv, ~wild PROVE Durable
  BY DEF Durable
<1>1. ASSUME NEW k \in DOMAIN messages, ~Handles("dropping", messages[k].id)
      PROVE  \E r \in rows : r.id = messages[k].id /\ r.to = messages[k].to
  <2>1. PICK r \in rows : r.id = messages[k].id
    BY <1>1 DEF IInv, Matched, HasRow
  <2> QED BY <2>1 DEF IInv, RowsOK, EntriesOK
<1>2. up => \A r \in rows : r.id \in Listed \cup excused \/ Handles("storing", r.id)
  BY DEF IInv, Matched
<1>3. \A k, l \in DOMAIN messages :
        k < l /\ paged[messages[k].id].by = paged[messages[l].id].by
          => messages[k].id < messages[l].id
  BY DEF IInv, Ordered
<1> QED BY <1>1, <1>2, <1>3 DEF Durable

\* A walk that comes to its end, other than by that of the process, has passed the
\* end of the list.
LEMMA ScanEnds ==
  ASSUME IInv, [Next]_vars, NEW t \in Threads, pc[t] = "scanning", pc'[t] = "idle", up'
  PROVE  due[t] \cap Listed = {}
<1>1. pc \in [Threads -> {"idle", "storing", "scanning", "purging", "dropping"}]
  BY DEF IInv, TypeOK
<1>2. EndOfScan(t)
  <2>1. ~Tick /\ ~UNCHANGED vars /\ ~RestoreMessages
    BY DEF Tick, vars, RestoreMessages
  <2>2. ~Stop
    BY DEF Stop
  <2>3. ASSUME NEW u \in Threads
        PROVE  /\ \A to \in Addresses : ~Store(u, to)
               /\ ~Keep(u) /\ ~InsertFails(u)
               /\ \A user \in Users : ~Arrive(u, user)
    BY <1>1, <2>1 DEF Store, Keep, InsertFails, Arrive, Does
  <2>4. ASSUME NEW u \in Threads
        PROVE  /\ \A k \in DOMAIN messages :
                    /\ ~Deliver(u, k) /\ ~Expire(u, k) /\ ~Pass(u, k)
                    /\ ~Purge(u, k) /\ ~PurgeFails(u, k) /\ ~Drop(u, k)
               /\ ~Dangling(u)
    BY <1>1 DEF Deliver, Expire, Send, Pass, Purge, PurgeFails, Drop, Dangling, At, Does
  <2>5. PICK u \in Threads : EndOfScan(u)
    BY <2>1, <2>2, <2>3, <2>4 DEF Next, Walk
  <2>6. u = t
    BY <1>1, <2>5 DEF EndOfScan
  <2> QED BY <2>5, <2>6
<1>3. cursor[t] = End
  BY <1>2 DEF EndOfScan
<1>4. \A l \in DOMAIN messages : messages[l].id \notin due[t]
  BY <1>3 DEF IInv, Passed, Walking
<1> QED BY <1>4 DEF Listed

-----------------------------------------------------------------------------
\* The inductive invariant holds always.
THEOREM Invariance == Spec => []IInv
<1>1. IInv /\ [Next]_vars => IInv'
  BY NextStep
<1> QED BY InitIInv, <1>1, PTL DEF Spec

\* Type correctness.
THEOREM TypeCorrect == Spec => []TypeOK
<1>1. IInv => TypeOK
  BY DEF IInv
<1> QED BY Invariance, <1>1, PTL

\* Pager::_messages has its rows in the table, but for what a thread is adding or
\* removing, and the pages of one thread are in their order, before and after a
\* restart, though two threads page and walk at once.
THEOREM DurableCorrect == Spec => []Durable
<1>1. IInv => Durable
  BY IsDurable
<1> QED BY Invariance, <1>1, PTL

\* A message stays in the table until it has been sent, whenever the process ends,
\* whatever the database refuses and whatever the other thread does, short of using
\* an entry that is gone.
THEOREM NothingLostCorrect == Spec => []NothingLost
<1>1. IInv => NothingLost
  BY DEF IInv
<1> QED BY Invariance, <1>1, PTL

\* A message is sent once, unless its row outlived the sending or a second walk came
\* to it in between.
THEOREM SentOnceCorrect == Spec => []SentOnce
<1>1. IInv => SentOnce
  BY DEF IInv
<1> QED BY Invariance, <1>1, PTL

\* Pager::HandlePresence leaves nothing of what it found for the visitor, though it
\* removes messages from the list it walks, and other threads do too.
THEOREM NothingLeftCorrect == Spec => NothingLeft
<1>1. IInv /\ [Next]_vars =>
        [\A t \in Threads : pc[t] = "scanning" /\ pc'[t] = "idle" /\ up' =>
           due[t] \cap Listed = {}]_vars
  BY ScanEnds
<1> QED BY Invariance, <1>1, PTL DEF Spec, NothingLeft

\* What was paged to a jid goes to that jid.
THEOREM JidIsPrivateCorrect == Spec => []JidIsPrivate
<1>1. IInv => JidIsPrivate
  BY DEF IInv
<1> QED BY Invariance, <1>1, PTL
=============================================================================
