---------------------------- MODULE FeedsProofs ----------------------------
(***************************************************************************)
(* The safety properties of Feeds, for any feeds, any number of items,     *)
(* rows and restarts: proofs that TLAPS checks.                            *)
(*                                                                         *)
(* A thread works on a copy of the table that others may have changed, so  *)
(* each property needs to know what a copy and the table still have in     *)
(* common.  RemovedStaysRemoved rests on CopiesAgree: a row has the URL of *)
(* every copy of it, because ids are never used again.  AnnouncedOnce      *)
(* rests on a chain, which holds until two updates have crossed: what was  *)
(* announced is not newer than the row and than the copies of it that are  *)
(* still to be looked at, and an item that is fetched is newer than the    *)
(* copy it is compared with.                                               *)
(***************************************************************************)
EXTENDS Feeds, TLAPS

\* Where a thread is, and what it then has in hand.
PlacesOK ==
  \A t \in Threads :
    /\ phase = "down" => pc[t] = "idle"
    /\ pc[t] = "inserting" => t \in Commanders /\ adding[t] \in Urls
    /\ pc[t] \in {"updating", "sending"} => todo[t] # <<>>
    /\ todo[t] # <<>> => Updating(t)

\* Ids are never used again.
IdsOK ==
  /\ \A r \in rows : r.id <= added
  /\ \A r, s \in rows : r.id = s.id => r = s
  /\ \A t \in Threads : \A feed \in Range(todo[t]) : feed.id <= added
  /\ \A s \in said : s.id <= added

CopiesAgree ==
  \A t \in Threads : \A feed \in Range(todo[t]), r \in rows : r.id = feed.id => r.url = feed.url

CopiesInOrder == \A t \in Threads : InOrder(todo[t])

\* No row and no copy is ahead of its feed.
GuidsOK ==
  /\ \A r \in rows : r.guid <= newest[r.url]
  /\ \A t \in Threads : \A feed \in Range(todo[t]) : feed.guid <= newest[feed.url]

ItemOK ==
  \A t \in Threads : pc[t] \in {"updating", "sending"} =>
    /\ Head(todo[t]).guid < item[t]
    /\ item[t] <= newest[Head(todo[t]).url]

\* What holds until two updates have run at the same time.
Alone == \A t, u \in Threads : Updating(t) /\ Updating(u) => t = u
SaidIsStored == \A s \in said, r \in rows : s.id = r.id => s.guid <= r.guid
SaidIsCopied ==
  \A t \in Threads : \A feed \in Range(todo[t]), s \in said : s.id = feed.id => s.guid <= feed.guid
WrittenBeforeSent ==
  \A t \in Threads : pc[t] = "sending" =>
    \A r \in rows : r.id = Head(todo[t]).id => r.guid = item[t]

InTurn == ~crossed => Alone /\ SaidIsStored /\ SaidIsCopied /\ WrittenBeforeSent

IInv ==
  /\ TypeOK
  /\ PlacesOK
  /\ IdsOK
  /\ CopiesAgree
  /\ CopiesInOrder
  /\ GuidsOK
  /\ ItemOK
  /\ InTurn

\* A thread is about to insert a URL: no row has it, and no other thread is about
\* to insert it, unless two threads have been adding it at the same time.
NotYetThere ==
  \A t \in Threads : pc[t] = "inserting" =>
    adding[t] \in raced \/ \A r \in rows : r.url # adding[t]
NobodyElse ==
  \A t, u \in Threads :
    /\ pc[t] = "inserting" /\ pc[u] = "inserting"
    /\ adding[t] = adding[u] /\ t # u
    => adding[t] \in raced

-----------------------------------------------------------------------------
(* Copies and their parts                                                  *)

LEMMA RowType ==
  \A r \in Rows : r.id \in Nat \ {0} /\ r.id <= MaxRows /\ r.url \in Urls /\ r.guid \in 0..MaxItems
BY FeedsAssumption DEF Rows, Ids

LEMMA ElementsOf ==
  ASSUME NEW S, NEW copy \in Seq(S)
  PROVE  Range(copy) \subseteq S
BY DEF Range

LEMMA HeadAndTail ==
  ASSUME NEW S, NEW copy \in Seq(S), copy # <<>>
  PROVE  /\ Head(copy) \in Range(copy) /\ Head(copy) \in S
         /\ Tail(copy) \in Seq(S) /\ Range(Tail(copy)) \subseteq Range(copy)
<1>1. Len(copy) \in Nat \ {0} /\ DOMAIN copy = 1..Len(copy) /\ Head(copy) = copy[1]
  OBVIOUS
<1>2. /\ Tail(copy) \in Seq(S) /\ DOMAIN Tail(copy) = 1..(Len(copy) - 1)
      /\ \A k \in 1..(Len(copy) - 1) : Tail(copy)[k] = copy[k + 1]
  OBVIOUS
<1>3. \A k \in 1..(Len(copy) - 1) : k + 1 \in 1..Len(copy)
  BY <1>1
<1> QED BY <1>1, <1>2, <1>3 DEF Range

LEMMA TailInOrder ==
  ASSUME NEW copy \in Seq(Rows), copy # <<>>, InOrder(copy)
  PROVE  /\ InOrder(Tail(copy))
         /\ \A feed \in Range(Tail(copy)) : Head(copy).id < feed.id
<1>1. /\ Len(copy) \in Nat \ {0} /\ DOMAIN copy = 1..Len(copy) /\ Head(copy) = copy[1]
      /\ DOMAIN Tail(copy) = 1..(Len(copy) - 1)
      /\ \A k \in 1..(Len(copy) - 1) : Tail(copy)[k] = copy[k + 1]
  OBVIOUS
<1>2. \A k \in 1..(Len(copy) - 1) : k + 1 \in 1..Len(copy) /\ 1 < k + 1 /\ 1 \in 1..Len(copy)
  BY <1>1
<1>3. \A k, l \in 1..(Len(copy) - 1) : k < l => k + 1 < l + 1
  BY <1>1
<1>4. \A k, l \in 1..Len(copy) : k < l => copy[k].id < copy[l].id
  BY <1>1 DEF InOrder
<1>5. InOrder(Tail(copy))
  BY <1>1, <1>2, <1>3, <1>4 DEF InOrder
<1>6. \A k \in 1..(Len(copy) - 1) : Head(copy).id < Tail(copy)[k].id
  BY <1>1, <1>2, <1>4
<1> QED BY <1>1, <1>5, <1>6 DEF Range

\* What TypeOK says of one thread.
LEMMA ThreadType ==
  ASSUME TypeOK, NEW t \in Threads
  PROVE  /\ todo[t] \in Seq(Rows) /\ Range(todo[t]) \subseteq Rows
         /\ item[t] \in 0..MaxItems /\ adding[t] \in Urls \cup {NoUrl}
BY ElementsOf DEF TypeOK

-----------------------------------------------------------------------------
\* A step that adds nothing: rows and the rest of a copy only get fewer, feeds
\* only go on, and a thread that holds an item goes on holding it.
LEMMA NothingNew ==
  ASSUME IInv, TypeOK', PlacesOK',
         rows' \subseteq rows, UNCHANGED <<added, said, crossed>>,
         \A u \in Urls : newest[u] <= newest'[u],
         \A t \in Threads :
           /\ Range(todo'[t]) \subseteq Range(todo[t]) /\ InOrder(todo'[t])
           /\ pc'[t] \in {"updating", "sending"} =>
                pc'[t] = pc[t] /\ todo'[t] = todo[t] /\ item'[t] = item[t]
           /\ Updating(t)' => Updating(t)
  PROVE  IInv'
<1>1. /\ rows \subseteq Rows /\ newest \in [Urls -> Nat] /\ newest' \in [Urls -> Nat]
      /\ item \in [Threads -> Nat]
      /\ \A t \in Threads : Range(todo[t]) \subseteq Rows /\ todo[t] \in Seq(Rows)
  BY ThreadType, FeedsAssumption DEF IInv, TypeOK
<1>2. IdsOK'
  BY DEF IInv, IdsOK
<1>3. CopiesAgree'
  BY DEF IInv, CopiesAgree
<1>4. CopiesInOrder'
  BY DEF CopiesInOrder
<1>5. ASSUME NEW r \in Rows, r.guid <= newest[r.url]
      PROVE  r.guid <= newest'[r.url]
  <2>1. r.guid \in Nat /\ newest[r.url] \in Nat /\ newest'[r.url] \in Nat
        /\ newest[r.url] <= newest'[r.url]
    BY <1>1, RowType, FeedsAssumption
  <2> QED BY <1>5, <2>1
<1>6. GuidsOK'
  BY <1>1, <1>5 DEF IInv, GuidsOK
<1>7. ItemOK'
  <2> SUFFICES ASSUME NEW t \in Threads, pc'[t] \in {"updating", "sending"}
               PROVE  /\ Head(todo'[t]).guid < item'[t]
                      /\ item'[t] <= newest'[Head(todo'[t]).url]
    BY DEF ItemOK
  <2>1. /\ Head(todo[t]).guid < item[t] /\ item[t] <= newest[Head(todo[t]).url]
        /\ Head(todo[t]) \in Rows
    BY <1>1, HeadAndTail DEF IInv, ItemOK, PlacesOK
  <2>2. Head(todo[t]).url \in Urls
    BY <2>1, RowType
  <2>3. newest[Head(todo[t]).url] <= newest'[Head(todo[t]).url]
        /\ newest[Head(todo[t]).url] \in Nat /\ newest'[Head(todo[t]).url] \in Nat
        /\ item[t] \in Nat
    BY <1>1, <2>2
  <2> QED BY <2>1, <2>3
<1>8. InTurn'
  <2> SUFFICES ASSUME ~crossed
               PROVE  Alone' /\ SaidIsStored' /\ SaidIsCopied' /\ WrittenBeforeSent'
    BY DEF InTurn
  <2>1. Alone /\ SaidIsStored /\ SaidIsCopied /\ WrittenBeforeSent
    BY DEF IInv, InTurn
  <2>2. Alone'
    BY <2>1 DEF Alone
  <2>3. SaidIsStored'
    BY <2>1 DEF SaidIsStored
  <2>4. SaidIsCopied'
    BY <2>1 DEF SaidIsCopied
  <2>5. WrittenBeforeSent'
    BY <2>1 DEF WrittenBeforeSent
  <2> QED BY <2>2, <2>3, <2>4, <2>5
<1> QED BY <1>2, <1>3, <1>4, <1>6, <1>7, <1>8 DEF IInv

-----------------------------------------------------------------------------
(* RSSWatcher::UpdateFeeds, step by step                                   *)

LEMMA CopyStep ==
  ASSUME IInv, NEW t \in Threads, Copy(t)
  PROVE  IInv'
<1>1. PICK copy \in BoundedSeq(rows, added) :
        Range(copy) = rows /\ InOrder(copy) /\ todo' = [todo EXCEPT ![t] = copy]
  BY DEF Copy
<1>2. copy \in Seq(Rows)
  <2>1. rows \subseteq Rows /\ added \in Nat
    BY FeedsAssumption DEF IInv, TypeOK
  <2>2. PICK n \in 0..added : copy \in [1..n -> rows]
    BY <1>1 DEF BoundedSeq, SeqOf
  <2>3. copy \in [1..n -> Rows] /\ n \in Nat
    BY <2>1, <2>2
  <2> QED BY <2>3
<1>3. /\ pc[t] = "copying" /\ pc' = [pc EXCEPT ![t] = "fetching"]
      /\ UNCHANGED <<newest, rows, added, phase, joined, adding, item, said, raced, stops>>
      /\ todo \in [Threads -> Seq(Rows)]
      /\ pc \in [Threads -> {"idle", "inserting", "copying", "fetching", "updating", "sending"}]
      /\ crossed' \in BOOLEAN
  BY DEF Copy, IInv, TypeOK
<1>4. TypeOK'
  BY <1>1, <1>2, <1>3 DEF IInv, TypeOK
<1>5. \A u \in Threads : IF u = t THEN todo'[u] = copy /\ pc'[u] = "fetching"
                                  ELSE todo'[u] = todo[u] /\ pc'[u] = pc[u]
  BY <1>1, <1>3
<1>6. PlacesOK'
  BY <1>3, <1>5 DEF IInv, PlacesOK, Updating
<1>7. IdsOK'
  BY <1>1, <1>3, <1>5 DEF IInv, IdsOK
<1>8. CopiesAgree'
  BY <1>1, <1>3, <1>5 DEF IInv, CopiesAgree, IdsOK
<1>9. CopiesInOrder'
  BY <1>1, <1>5 DEF IInv, CopiesInOrder
<1>10. GuidsOK'
  BY <1>1, <1>3, <1>5 DEF IInv, GuidsOK
<1>11. ItemOK'
  BY <1>3, <1>5 DEF IInv, ItemOK
<1>12. InTurn'
  <2> SUFFICES ASSUME ~crossed'
               PROVE  Alone' /\ SaidIsStored' /\ SaidIsCopied' /\ WrittenBeforeSent'
    BY DEF InTurn
  <2>1. ~crossed /\ \A u \in Threads : ~Updating(u)
    BY DEF Copy, IInv, TypeOK
  <2>2. SaidIsStored /\ SaidIsCopied /\ WrittenBeforeSent
    BY <2>1 DEF IInv, InTurn
  <2>3. Alone'
    BY <1>5, <2>1 DEF Alone, Updating
  <2>4. SaidIsStored'
    BY <1>3, <2>2 DEF SaidIsStored
  <2>5. SaidIsCopied'
    BY <1>1, <1>3, <1>5, <2>2 DEF SaidIsCopied, SaidIsStored
  <2>6. WrittenBeforeSent'
    BY <1>3, <1>5, <2>2 DEF WrittenBeforeSent
  <2> QED BY <2>3, <2>4, <2>5, <2>6
<1> QED BY <1>4, <1>6, <1>7, <1>8, <1>9, <1>10, <1>11, <1>12 DEF IInv

\* What is fetched and differs from the copy is newer than the copy.
LEMMA FetchStep ==
  ASSUME IInv, NEW t \in Threads, Fetch(t)
  PROVE  IInv'
<1>1. /\ pc[t] = "fetching" /\ todo[t] # <<>> /\ todo[t] \in Seq(Rows)
      /\ InOrder(todo[t])
      /\ todo \in [Threads -> Seq(Rows)] /\ item \in [Threads -> 0..MaxItems]
      /\ pc \in [Threads -> {"idle", "inserting", "copying", "fetching", "updating", "sending"}]
      /\ UNCHANGED <<newest, rows, added, phase, joined, adding, said, crossed, raced, stops>>
  BY DEF Fetch, IInv, TypeOK, CopiesInOrder
<1>2. PICK feed \in Rows : feed = Head(todo[t]) /\ feed \in Range(todo[t])
  BY <1>1, HeadAndTail
<1>3. feed.guid <= newest[feed.url] /\ feed.guid \in Nat /\ newest[feed.url] \in 0..MaxItems
  BY <1>2, RowType, FeedsAssumption DEF IInv, GuidsOK, TypeOK
<1>4. newest \in [Urls -> Nat]
  BY FeedsAssumption DEF IInv, TypeOK
<1>5. CASE newest[feed.url] # feed.guid
  <2>1. /\ pc' = [pc EXCEPT ![t] = "updating"]
        /\ item' = [item EXCEPT ![t] = newest[feed.url]] /\ todo' = todo
    BY <1>2, <1>5 DEF Fetch
  <2>2. \A u \in Threads : IF u = t THEN pc'[u] = "updating" /\ item'[u] = newest[feed.url]
                                    ELSE pc'[u] = pc[u] /\ item'[u] = item[u]
    BY <1>1, <2>1
  <2>3. TypeOK'
    BY <1>1, <1>3, <2>1 DEF IInv, TypeOK
  <2>4. \A u \in Threads : Updating(u)' <=> Updating(u)
    BY <1>1, <2>2 DEF Updating
  <2>5. PlacesOK'
    BY <1>1, <2>1, <2>2, <2>4 DEF IInv, PlacesOK
  <2>6. IdsOK' /\ CopiesAgree' /\ CopiesInOrder' /\ GuidsOK'
    BY <1>1, <2>1 DEF IInv, IdsOK, CopiesAgree, CopiesInOrder, GuidsOK
  <2>7. feed.guid < newest[feed.url]
    BY <1>3, <1>5, FeedsAssumption
  <2>8. ItemOK'
    <3> SUFFICES ASSUME NEW u \in Threads, pc'[u] \in {"updating", "sending"}
                 PROVE  /\ Head(todo'[u]).guid < item'[u]
                        /\ item'[u] <= newest'[Head(todo'[u]).url]
      BY DEF ItemOK
    <3>1. CASE u = t
      BY <1>1, <1>2, <1>3, <2>1, <2>2, <2>7, <3>1
    <3>2. CASE u # t
      BY <1>1, <2>1, <2>2, <3>2 DEF IInv, ItemOK
    <3> QED BY <3>1, <3>2
  <2>9. InTurn'
    <3> SUFFICES ASSUME ~crossed
                 PROVE  Alone' /\ SaidIsStored' /\ SaidIsCopied' /\ WrittenBeforeSent'
      BY <1>1 DEF InTurn
    <3>1. Alone /\ SaidIsStored /\ SaidIsCopied /\ WrittenBeforeSent
      BY DEF IInv, InTurn
    <3>2. Alone'
      BY <2>4, <3>1 DEF Alone
    <3>3. SaidIsStored' /\ SaidIsCopied'
      BY <1>1, <2>1, <3>1 DEF SaidIsStored, SaidIsCopied
    <3>4. WrittenBeforeSent'
      BY <1>1, <2>1, <2>2, <3>1 DEF WrittenBeforeSent
    <3> QED BY <3>2, <3>3, <3>4
  <2> QED BY <2>3, <2>5, <2>6, <2>8, <2>9 DEF IInv
<1>6. CASE newest[feed.url] = feed.guid
  <2>1. todo' = [todo EXCEPT ![t] = Tail(@)] /\ UNCHANGED <<pc, item>>
    BY <1>2, <1>6 DEF Fetch
  <2>2. Tail(todo[t]) \in Seq(Rows) /\ Range(Tail(todo[t])) \subseteq Range(todo[t])
        /\ InOrder(Tail(todo[t]))
    BY <1>1, HeadAndTail, TailInOrder
  <2>3. \A u \in Threads : todo'[u] = IF u = t THEN Tail(todo[t]) ELSE todo[u]
    BY <1>1, <2>1
  <2>4. TypeOK'
    BY <1>1, <2>1, <2>2 DEF IInv, TypeOK
  <2>5. PlacesOK'
    BY <1>1, <2>1, <2>3 DEF IInv, PlacesOK, Updating
  <2>6. \A u \in Threads :
          /\ Range(todo'[u]) \subseteq Range(todo[u]) /\ InOrder(todo'[u])
          /\ pc'[u] \in {"updating", "sending"} =>
               pc'[u] = pc[u] /\ todo'[u] = todo[u] /\ item'[u] = item[u]
          /\ Updating(u)' => Updating(u)
    BY <1>1, <2>1, <2>2, <2>3 DEF IInv, CopiesInOrder, Updating
  <2>7. rows' \subseteq rows /\ \A u \in Urls : newest[u] <= newest'[u]
    BY <1>1, <1>4
  <2> QED BY <1>1, <2>4, <2>5, <2>6, <2>7, NothingNew
<1> QED BY <1>5, <1>6

LEMMA FetchFailsStep ==
  ASSUME IInv, NEW t \in Threads, FetchFails(t)
  PROVE  IInv'
<1>1. /\ pc[t] = "fetching" /\ todo[t] # <<>> /\ todo[t] \in Seq(Rows) /\ InOrder(todo[t])
      /\ todo \in [Threads -> Seq(Rows)] /\ newest \in [Urls -> Nat]
      /\ todo' = [todo EXCEPT ![t] = Tail(@)]
      /\ UNCHANGED <<newest, rows, added, phase, joined, pc, adding, item, said, crossed, raced, stops>>
  BY FeedsAssumption DEF FetchFails, IInv, TypeOK, CopiesInOrder
<1>2. Tail(todo[t]) \in Seq(Rows) /\ Range(Tail(todo[t])) \subseteq Range(todo[t])
      /\ InOrder(Tail(todo[t]))
  BY <1>1, HeadAndTail, TailInOrder
<1>3. \A u \in Threads : todo'[u] = IF u = t THEN Tail(todo[t]) ELSE todo[u]
  BY <1>1
<1>4. TypeOK'
  BY <1>1, <1>2 DEF IInv, TypeOK
<1>5. PlacesOK'
  BY <1>1, <1>3 DEF IInv, PlacesOK, Updating
<1>6. \A u \in Threads :
        /\ Range(todo'[u]) \subseteq Range(todo[u]) /\ InOrder(todo'[u])
        /\ pc'[u] \in {"updating", "sending"} =>
             pc'[u] = pc[u] /\ todo'[u] = todo[u] /\ item'[u] = item[u]
        /\ Updating(u)' => Updating(u)
  BY <1>1, <1>2, <1>3 DEF IInv, CopiesInOrder, Updating
<1>7. rows' \subseteq rows /\ \A u \in Urls : newest[u] <= newest'[u]
  BY <1>1
<1> QED BY <1>1, <1>4, <1>5, <1>6, <1>7, NothingNew

\* The row that is written keeps its id and its URL.
LEMMA UpdateStep ==
  ASSUME IInv, NEW t \in Threads, Update(t)
  PROVE  /\ IInv'
         /\ \A s \in rows' : \E r \in rows : r.id = s.id /\ r.url = s.url
<1>1. /\ pc[t] = "updating" /\ todo[t] # <<>> /\ todo[t] \in Seq(Rows)
      /\ pc \in [Threads -> {"idle", "inserting", "copying", "fetching", "updating", "sending"}]
      /\ pc' = [pc EXCEPT ![t] = "sending"]
      /\ UNCHANGED <<newest, added, phase, joined, adding, todo, item, said, crossed, raced, stops>>
      /\ item \in [Threads -> 0..MaxItems]
      /\ newest \in [Urls -> Nat] /\ rows \subseteq Rows
  BY FeedsAssumption DEF Update, IInv, TypeOK, PlacesOK
<1>2. PICK feed \in Rows : feed = Head(todo[t]) /\ feed \in Range(todo[t])
  BY <1>1, HeadAndTail
<1>3. PICK news \in 0..MaxItems : news = item[t]
  BY <1>1
<1>4. feed.guid < news /\ news <= newest[feed.url]
  BY <1>1, <1>2, <1>3 DEF IInv, ItemOK
<1>5. PICK row : row = [feed EXCEPT !.guid = news]
  OBVIOUS
<1>6. row \in Rows /\ row.id = feed.id /\ row.url = feed.url /\ row.guid = news
  BY <1>5 DEF Rows
<1>7. rows' = {IF r.id = feed.id THEN row ELSE r : r \in rows}
  BY <1>2, <1>3, <1>5 DEF Update
<1>8. /\ \A s \in rows' : \/ s \in rows /\ s.id # feed.id
                          \/ s = row /\ \E r \in rows : r.id = feed.id /\ r.url = feed.url
      /\ \A u \in Threads : IF u = t THEN pc'[u] = "sending" ELSE pc'[u] = pc[u]
  BY <1>1, <1>2, <1>7 DEF IInv, CopiesAgree
<1>9. \A s \in rows' : \E r \in rows : r.id = s.id /\ r.url = s.url
  BY <1>6, <1>8
<1>10. TypeOK'
  BY <1>1, <1>6, <1>8 DEF IInv, TypeOK
<1>11. \A u \in Threads : Updating(u)' <=> Updating(u)
  BY <1>1, <1>8 DEF Updating
<1>12. PlacesOK'
  BY <1>1, <1>8, <1>11 DEF IInv, PlacesOK
<1>13. IdsOK'
  <2>1. \A r \in rows' : r.id <= added
    BY <1>6, <1>8 DEF IInv, IdsOK
  <2>2. \A r, s \in rows' : r.id = s.id => r = s
    BY <1>6, <1>8 DEF IInv, IdsOK
  <2> QED BY <1>1, <2>1, <2>2 DEF IInv, IdsOK
<1>14. CopiesAgree'
  BY <1>1, <1>9 DEF IInv, CopiesAgree
<1>15. CopiesInOrder'
  BY <1>1 DEF IInv, CopiesInOrder
<1>16. GuidsOK'
  BY <1>1, <1>4, <1>6, <1>8 DEF IInv, GuidsOK
<1>17. ItemOK'
  BY <1>1, <1>8 DEF IInv, ItemOK
<1>18. InTurn'
  <2> SUFFICES ASSUME ~crossed
               PROVE  Alone' /\ SaidIsStored' /\ SaidIsCopied' /\ WrittenBeforeSent'
    BY <1>1 DEF InTurn
  <2>1. Alone /\ SaidIsStored /\ SaidIsCopied /\ WrittenBeforeSent
    BY DEF IInv, InTurn
  <2>2. Alone'
    BY <1>11, <2>1 DEF Alone
  <2>3. SaidIsStored'
    <3>1. ASSUME NEW s \in said, s.id = feed.id
          PROVE  s.guid <= row.guid
      <4>1. s.guid <= feed.guid /\ s.guid \in Nat /\ feed.guid \in Nat /\ news \in Nat
        BY <1>2, <2>1, <3>1, RowType, FeedsAssumption DEF SaidIsCopied, IInv, TypeOK
      <4> QED BY <1>4, <1>6, <4>1
    <3> QED BY <1>1, <1>6, <1>8, <2>1, <3>1 DEF SaidIsStored
  <2>4. SaidIsCopied'
    BY <1>1, <2>1 DEF SaidIsCopied
  <2>5. \A u \in Threads : pc'[u] = "sending" => u = t
    BY <1>1, <1>8, <2>1 DEF Alone, Updating
  <2>6. WrittenBeforeSent'
    BY <1>1, <1>2, <1>3, <1>6, <1>8, <2>5 DEF WrittenBeforeSent
  <2> QED BY <2>2, <2>3, <2>4, <2>6
<1> QED BY <1>9, <1>10, <1>12, <1>13, <1>14, <1>15, <1>16, <1>17, <1>18 DEF IInv

\* The item is remembered by the row, if there is one, and no copy that is
\* still to be looked at is one of the same row.
LEMMA AnnounceStep ==
  ASSUME IInv, NEW t \in Threads, Announce(t)
  PROVE  IInv'
<1>1. /\ pc[t] = "sending" /\ todo[t] # <<>> /\ todo[t] \in Seq(Rows) /\ InOrder(todo[t])
      /\ pc \in [Threads -> {"idle", "inserting", "copying", "fetching", "updating", "sending"}]
      /\ todo \in [Threads -> Seq(Rows)] /\ joined \in BOOLEAN
      /\ pc' = [pc EXCEPT ![t] = "fetching"] /\ todo' = [todo EXCEPT ![t] = Tail(@)]
      /\ UNCHANGED <<newest, rows, added, phase, joined, adding, item, crossed, raced, stops>>
      /\ item \in [Threads -> 0..MaxItems]
      /\ newest \in [Urls -> Nat] /\ rows \subseteq Rows
  BY FeedsAssumption DEF Announce, IInv, TypeOK, PlacesOK, CopiesInOrder
<1>2. PICK feed \in Rows : feed = Head(todo[t]) /\ feed \in Range(todo[t])
  BY <1>1, HeadAndTail
<1>3. PICK news \in 0..MaxItems : news = item[t]
  BY <1>1
<1>4. PICK post : post = [id |-> feed.id, guid |-> news, shown |-> joined]
  OBVIOUS
<1>5. said' = said \cup {post} /\ post.id = feed.id /\ post.guid = news
  BY <1>2, <1>3, <1>4 DEF Announce
<1>6. post \in [id : Ids, guid : 0..MaxItems, shown : BOOLEAN]
  BY <1>1, <1>4 DEF Rows
<1>7. /\ Tail(todo[t]) \in Seq(Rows) /\ Range(Tail(todo[t])) \subseteq Range(todo[t])
      /\ InOrder(Tail(todo[t])) /\ \A f \in Range(Tail(todo[t])) : feed.id < f.id
  BY <1>1, <1>2, HeadAndTail, TailInOrder
<1>8. \A u \in Threads : IF u = t THEN pc'[u] = "fetching" /\ todo'[u] = Tail(todo[t])
                                  ELSE pc'[u] = pc[u] /\ todo'[u] = todo[u]
  BY <1>1
<1>9. TypeOK'
  BY <1>1, <1>5, <1>6, <1>7 DEF IInv, TypeOK
<1>10. \A u \in Threads : Updating(u)' <=> Updating(u)
  BY <1>1, <1>8 DEF Updating
<1>11. PlacesOK'
  BY <1>1, <1>8, <1>10 DEF IInv, PlacesOK, Updating
<1>12. IdsOK'
  BY <1>1, <1>2, <1>5, <1>7, <1>8 DEF IInv, IdsOK
<1>13. CopiesAgree' /\ CopiesInOrder'
  BY <1>1, <1>7, <1>8 DEF IInv, CopiesAgree, CopiesInOrder
<1>14. GuidsOK'
  BY <1>1, <1>7, <1>8 DEF IInv, GuidsOK
<1>15. ItemOK'
  BY <1>1, <1>8 DEF IInv, ItemOK
<1>16. InTurn'
  <2> SUFFICES ASSUME ~crossed
               PROVE  Alone' /\ SaidIsStored' /\ SaidIsCopied' /\ WrittenBeforeSent'
    BY <1>1 DEF InTurn
  <2>1. Alone /\ SaidIsStored /\ SaidIsCopied /\ WrittenBeforeSent
    BY DEF IInv, InTurn
  <2>2. Alone'
    BY <1>10, <2>1 DEF Alone
  <2>3. \A r \in rows : r.id = feed.id => r.guid = news
    BY <1>1, <1>2, <1>3, <2>1 DEF WrittenBeforeSent
  <2>4. SaidIsStored'
    BY <1>1, <1>5, <2>1, <2>3 DEF SaidIsStored
  <2>5. \A u \in Threads : u # t => todo'[u] = <<>>
    BY <1>1, <1>8, <2>1 DEF Alone, Updating, IInv, PlacesOK
  <2>6. \A f \in Range(Tail(todo[t])) : f.id # post.id
    BY <1>1, <1>2, <1>5, <1>7, RowType, ThreadType DEF IInv
  <2>7. SaidIsCopied'
    <3> SUFFICES ASSUME NEW u \in Threads, NEW f \in Range(todo'[u]), NEW s \in said',
                        s.id = f.id
                 PROVE  s.guid <= f.guid
      BY DEF SaidIsCopied
    <3>1. u = t
      <4>1. Range(<<>>) = {}
        BY DEF Range
      <4> QED BY <2>5, <4>1
    <3>2. f \in Range(Tail(todo[t]))
      BY <1>8, <3>1
    <3>3. s \in said /\ f \in Range(todo[t])
      BY <1>5, <1>7, <2>6, <3>2
    <3> QED BY <2>1, <3>3 DEF SaidIsCopied
  <2>8. WrittenBeforeSent'
    BY <1>1, <1>8, <2>1 DEF WrittenBeforeSent
  <2> QED BY <2>2, <2>4, <2>7, <2>8
<1> QED BY <1>9, <1>11, <1>12, <1>13, <1>14, <1>15, <1>16 DEF IInv

\* A new row has a new id, so that nothing was ever said of it or copied from it.
LEMMA InsertStep ==
  ASSUME IInv, NEW t \in Threads, Insert(t)
  PROVE  /\ IInv'
         /\ \A r \in rows' : r \in rows \/ (r.id = added + 1 /\ r.url = adding[t])
<1>1. /\ pc[t] = "inserting" /\ added < MaxRows /\ added \in Nat /\ added' = added + 1
      /\ adding[t] \in Urls
      /\ pc \in [Threads -> {"idle", "inserting", "copying", "fetching", "updating", "sending"}]
      /\ adding \in [Threads -> Urls \cup {NoUrl}]
      /\ pc' = [pc EXCEPT ![t] = "copying"] /\ adding' = [adding EXCEPT ![t] = NoUrl]
      /\ UNCHANGED <<newest, phase, joined, todo, item, said, crossed, raced, stops>>
      /\ newest \in [Urls -> Nat] /\ rows \subseteq Rows /\ MaxRows \in Nat
  BY FeedsAssumption DEF Insert, IInv, TypeOK, PlacesOK
<1>2. PICK row : row = [id |-> added', url |-> adding[t], guid |-> 0]
  OBVIOUS
<1>3. row \in Rows /\ row.id = added + 1 /\ row.url = adding[t] /\ row.guid = 0
  BY <1>1, <1>2, FeedsAssumption DEF Rows, Ids
<1>4. rows' = rows \cup {row}
  BY <1>2 DEF Insert
<1>5. \A u \in Threads : IF u = t THEN pc'[u] = "copying" /\ adding'[u] = NoUrl
                                  ELSE pc'[u] = pc[u] /\ adding'[u] = adding[u]
  BY <1>1
<1>6. TypeOK'
  BY <1>1, <1>3, <1>4 DEF IInv, TypeOK
<1>7. \A u \in Threads : Updating(u)' <=> Updating(u)
  BY <1>1, <1>5 DEF Updating
<1>8. PlacesOK'
  BY <1>1, <1>5, <1>7 DEF IInv, PlacesOK
<1>9. /\ \A r \in rows : r.id # added + 1 /\ r.id <= added + 1
      /\ \A s \in said : s.id # added + 1 /\ s.id <= added + 1
      /\ \A u \in Threads : \A f \in Range(todo[u]) : f.id # added + 1 /\ f.id <= added + 1
  <2>1. ASSUME NEW i \in Nat, i <= added
        PROVE  i # added + 1 /\ i <= added + 1
    BY <1>1, <2>1
  <2>2. /\ \A r \in rows : r.id \in Nat
        /\ \A s \in said : s.id \in Nat
        /\ \A u \in Threads : \A f \in Range(todo[u]) : f.id \in Nat
    BY <1>1, RowType, ThreadType DEF IInv, TypeOK, Ids
  <2> QED BY <2>1, <2>2 DEF IInv, IdsOK
<1>10. IdsOK'
  BY <1>1, <1>3, <1>4, <1>9 DEF IInv, IdsOK
<1>11. CopiesAgree'
  BY <1>1, <1>3, <1>4, <1>9 DEF IInv, CopiesAgree
<1>12. CopiesInOrder' /\ ItemOK'
  BY <1>1, <1>5 DEF IInv, CopiesInOrder, ItemOK
<1>13. GuidsOK'
  BY <1>1, <1>3, <1>4 DEF IInv, GuidsOK
<1>14. InTurn'
  <2> SUFFICES ASSUME ~crossed
               PROVE  Alone' /\ SaidIsStored' /\ SaidIsCopied' /\ WrittenBeforeSent'
    BY <1>1 DEF InTurn
  <2>1. Alone /\ SaidIsStored /\ SaidIsCopied /\ WrittenBeforeSent
    BY DEF IInv, InTurn
  <2>2. Alone'
    BY <1>7, <2>1 DEF Alone
  <2>3. SaidIsStored'
    BY <1>1, <1>3, <1>4, <1>9, <2>1 DEF SaidIsStored
  <2>4. SaidIsCopied'
    BY <1>1, <2>1 DEF SaidIsCopied
  <2>5. WrittenBeforeSent'
    <3> SUFFICES ASSUME NEW u \in Threads, pc'[u] = "sending", NEW r \in rows',
                        r.id = Head(todo[u]).id
                 PROVE  r.guid = item[u]
      BY <1>1 DEF WrittenBeforeSent
    <3>1. pc[u] = "sending" /\ todo[u] # <<>> /\ todo[u] \in Seq(Rows)
      BY <1>5 DEF IInv, PlacesOK, TypeOK
    <3>2. Head(todo[u]) \in Range(todo[u])
      BY <3>1, HeadAndTail
    <3>3. r \in rows
      BY <1>3, <1>4, <1>9, <3>2
    <3> QED BY <2>1, <3>1, <3>3 DEF WrittenBeforeSent
  <2> QED BY <2>2, <2>3, <2>4, <2>5
<1> QED BY <1>3, <1>4, <1>6, <1>8, <1>10, <1>11, <1>12, <1>13, <1>14 DEF IInv

-----------------------------------------------------------------------------
(* The other actions add nothing                                           *)

\* A thread goes from one place to another, outside of its copy.
LEMMA StepAside ==
  ASSUME IInv, NEW t \in Threads, todo[t] = <<>>,
         NEW place \in {"idle", "inserting", "copying"},
         pc' = [pc EXCEPT ![t] = place], PlacesOK', TypeOK',
         \A u \in Threads \ {t} : item'[u] = item[u],
         rows' \subseteq rows, UNCHANGED <<newest, added, todo, said, crossed>>
  PROVE  IInv'
<1>1. /\ pc \in [Threads -> {"idle", "inserting", "copying", "fetching", "updating", "sending"}]
      /\ newest \in [Urls -> Nat]
  BY FeedsAssumption DEF IInv, TypeOK
<1>2. \A u \in Threads : pc'[u] = IF u = t THEN place ELSE pc[u]
  BY <1>1
<1>3. \A u \in Threads :
        /\ Range(todo'[u]) \subseteq Range(todo[u]) /\ InOrder(todo'[u])
        /\ pc'[u] \in {"updating", "sending"} =>
             pc'[u] = pc[u] /\ todo'[u] = todo[u] /\ item'[u] = item[u]
        /\ Updating(u)' => Updating(u)
  BY <1>2 DEF IInv, CopiesInOrder, Updating
<1>4. \A u \in Urls : newest[u] <= newest'[u]
  BY <1>1
<1> QED BY <1>3, <1>4, NothingNew

LEMMA IdleHasNoCopy ==
  ASSUME IInv, NEW t \in Threads, ~Updating(t)
  PROVE  todo[t] = <<>>
BY DEF IInv, PlacesOK

LEMMA CommandStep ==
  ASSUME IInv, NEW t \in Threads,
         \/ StartUpdate(t) \/ Return(t) \/ InsertFails(t)
         \/ \E url \in Urls : AddRss(t, url)
  PROVE  IInv' /\ rows' = rows
<1>1. CASE StartUpdate(t)
  <2>1. /\ pc[t] = "idle" /\ phase = "up" /\ pc' = [pc EXCEPT ![t] = "copying"]
        /\ UNCHANGED <<newest, rows, added, phase, joined, adding, todo, item, said, crossed, raced, stops>>
    BY <1>1 DEF StartUpdate, CanCommand, CanStart
  <2>2. TypeOK' /\ todo[t] = <<>>
    BY <2>1, IdleHasNoCopy DEF IInv, TypeOK, Updating
  <2>3. PlacesOK'
    BY <2>1, <2>2 DEF IInv, TypeOK, PlacesOK, Updating
  <2>4. IInv'
    BY <2>1, <2>2, <2>3, StepAside
  <2> QED BY <2>1, <2>4
<1>2. CASE Return(t)
  <2>1. /\ pc[t] = "fetching" /\ todo[t] = <<>> /\ pc' = [pc EXCEPT ![t] = "idle"]
        /\ item' = [item EXCEPT ![t] = 0] /\ phase' = "up"
        /\ UNCHANGED <<newest, rows, added, joined, adding, todo, said, crossed, raced, stops>>
    BY <1>2 DEF Return
  <2>2. TypeOK' /\ \A u \in Threads \ {t} : item'[u] = item[u]
    BY <2>1, FeedsAssumption DEF IInv, TypeOK
  <2>3. PlacesOK'
    BY <2>1, <2>2 DEF IInv, TypeOK, PlacesOK, Updating
  <2>4. IInv'
    BY <2>1, <2>2, <2>3, StepAside
  <2> QED BY <2>1, <2>4
<1>3. CASE InsertFails(t)
  <2>1. /\ pc[t] = "inserting" /\ pc' = [pc EXCEPT ![t] = "copying"]
        /\ adding' = [adding EXCEPT ![t] = NoUrl]
        /\ UNCHANGED <<newest, rows, added, phase, joined, todo, item, said, crossed, raced, stops>>
    BY <1>3 DEF InsertFails
  <2>2. TypeOK' /\ todo[t] = <<>>
    BY <2>1, IdleHasNoCopy DEF IInv, TypeOK, Updating
  <2>3. PlacesOK'
    BY <2>1, <2>2 DEF IInv, TypeOK, PlacesOK, Updating
  <2>4. IInv'
    BY <2>1, <2>2, <2>3, StepAside
  <2> QED BY <2>1, <2>4
<1>4. ASSUME NEW url \in Urls, AddRss(t, url)
      PROVE  IInv' /\ rows' = rows
  <2>1. /\ t \in Commanders /\ pc[t] = "idle" /\ phase = "up"
        /\ UNCHANGED <<newest, rows, added, phase, joined, todo, item, said, crossed, stops>>
        /\ raced' \in {raced, raced \cup {url}}
    BY <1>4 DEF AddRss, CanCommand, CanStart, Race
  <2>2. todo[t] = <<>>
    BY <2>1, IdleHasNoCopy DEF Updating
  <2>3. PICK place \in {"inserting", "copying"} :
          /\ pc' = [pc EXCEPT ![t] = place]
          /\ \/ place = "copying" /\ adding' = adding
             \/ place = "inserting" /\ adding' = [adding EXCEPT ![t] = url]
    BY <1>4 DEF AddRss
  <2>4. TypeOK'
    BY <2>1, <2>3 DEF IInv, TypeOK
  <2>5. PlacesOK'
    BY <2>1, <2>2, <2>3 DEF IInv, TypeOK, PlacesOK, Updating
  <2>6. IInv'
    BY <2>1, <2>2, <2>3, <2>4, <2>5, StepAside
  <2> QED BY <2>1, <2>6
<1> QED BY <1>1, <1>2, <1>3, <1>4

LEMMA EnvironmentStep ==
  ASSUME IInv,
         \/ \E t \in Threads : \E id \in Ids : DelRss(t, id)
         \/ \E url \in Urls : Publish(url)
         \/ Join \/ Stop \/ Build \/ UNCHANGED vars
  PROVE  IInv' /\ rows' \subseteq rows
<1>1. newest \in [Urls -> Nat] /\ \A u \in Urls : newest[u] <= newest[u]
  BY FeedsAssumption DEF IInv, TypeOK
<1>2. ASSUME UNCHANGED <<added, phase, pc, adding, todo, item, said, crossed>>,
             TypeOK', rows' \subseteq rows, \A u \in Urls : newest[u] <= newest'[u]
      PROVE  IInv'
  <2>1. PlacesOK'
    BY <1>2 DEF IInv, PlacesOK, Updating
  <2>2. \A u \in Threads :
          /\ Range(todo'[u]) \subseteq Range(todo[u]) /\ InOrder(todo'[u])
          /\ pc'[u] \in {"updating", "sending"} =>
               pc'[u] = pc[u] /\ todo'[u] = todo[u] /\ item'[u] = item[u]
          /\ Updating(u)' => Updating(u)
    BY <1>2 DEF IInv, CopiesInOrder, Updating
  <2> QED BY <1>2, <2>1, <2>2, NothingNew
<1>3. ASSUME NEW t \in Threads, NEW id \in Ids, DelRss(t, id)
      PROVE  IInv' /\ rows' \subseteq rows
  <2>1. /\ rows' \subseteq rows
        /\ UNCHANGED <<newest, added, phase, joined, pc, adding, todo, item, said, crossed, raced, stops>>
    BY <1>3 DEF DelRss
  <2>2. TypeOK'
    BY <2>1 DEF IInv, TypeOK
  <2> QED BY <1>1, <1>2, <2>1, <2>2
<1>4. ASSUME NEW url \in Urls, Publish(url)
      PROVE  IInv' /\ rows' \subseteq rows
  <2>1. /\ newest' = [newest EXCEPT ![url] = @ + 1] /\ newest[url] < MaxItems
        /\ UNCHANGED <<rows, added, phase, joined, pc, adding, todo, item, said, crossed, raced, stops>>
    BY <1>4 DEF Publish
  <2>2. newest' \in [Urls -> 0..MaxItems] /\ \A u \in Urls : newest[u] <= newest'[u]
    BY <1>1, <2>1, FeedsAssumption DEF IInv, TypeOK
  <2>3. TypeOK'
    BY <2>1, <2>2 DEF IInv, TypeOK
  <2> QED BY <1>2, <2>1, <2>2, <2>3
<1>5. CASE Join
  <2>1. /\ joined' = TRUE
        /\ UNCHANGED <<newest, rows, added, phase, pc, adding, todo, item, said, crossed, raced, stops>>
    BY <1>5 DEF Join
  <2>2. TypeOK'
    BY <2>1 DEF IInv, TypeOK
  <2> QED BY <1>1, <1>2, <2>1, <2>2
<1>6. CASE Stop
  <2>1. /\ stops < MaxStops /\ stops' = stops + 1 /\ phase' = "down" /\ joined' = FALSE
        /\ pc' = [t \in Threads |-> "idle"] /\ adding' = [t \in Threads |-> NoUrl]
        /\ todo' = [t \in Threads |-> <<>>] /\ item' = [t \in Threads |-> 0]
        /\ UNCHANGED <<newest, rows, added, said, crossed, raced>>
    BY <1>6 DEF Stop
  <2>2. TypeOK'
    <3>1. /\ todo' \in [Threads -> Seq(Rows)] /\ item' \in [Threads -> 0..MaxItems]
          /\ adding' \in [Threads -> Urls \cup {NoUrl}] /\ stops' \in 0..MaxStops
          /\ pc' \in [Threads -> {"idle", "inserting", "copying", "fetching", "updating", "sending"}]
      <4>1. <<>> \in Seq(Rows)
        OBVIOUS
      <4> QED BY <2>1, <4>1, FeedsAssumption DEF IInv, TypeOK
    <3> QED BY <2>1, <3>1 DEF IInv, TypeOK
  <2>3. PlacesOK'
    BY <2>1 DEF PlacesOK
  <2>4. Range(<<>>) = {} /\ InOrder(<<>>)
    BY DEF Range, InOrder
  <2>5. \A u \in Threads :
          /\ Range(todo'[u]) \subseteq Range(todo[u]) /\ InOrder(todo'[u])
          /\ pc'[u] \in {"updating", "sending"} =>
               pc'[u] = pc[u] /\ todo'[u] = todo[u] /\ item'[u] = item[u]
          /\ Updating(u)' => Updating(u)
    BY <2>1, <2>4 DEF Updating
  <2> QED BY <1>1, <2>1, <2>2, <2>3, <2>5, NothingNew
<1>7. CASE Build
  <2>1. /\ phase = "down" /\ phase' = "building" /\ pc' = [pc EXCEPT ![Stream] = "copying"]
        /\ UNCHANGED <<newest, rows, added, joined, adding, todo, item, said, crossed, raced, stops>>
    BY <1>7 DEF Build
  <2>2. Stream \in Threads /\ ~Updating(Stream)
    BY <2>1 DEF Threads, IInv, PlacesOK, Updating
  <2>3. todo[Stream] = <<>>
    BY <2>2, IdleHasNoCopy
  <2>4. TypeOK'
    BY <2>1, <2>2 DEF IInv, TypeOK
  <2>5. PlacesOK'
    BY <2>1, <2>2, <2>3 DEF IInv, TypeOK, PlacesOK, Updating
  <2>6. IInv'
    BY <2>1, <2>2, <2>3, <2>4, <2>5, StepAside
  <2> QED BY <2>1, <2>6
<1>8. CASE UNCHANGED vars
  <2>1. UNCHANGED <<newest, rows, added, phase, joined, pc, adding, todo, item, said, crossed, raced, stops>>
    BY <1>8 DEF vars
  <2>2. TypeOK'
    BY <2>1 DEF IInv, TypeOK
  <2> QED BY <1>1, <1>2, <2>1, <2>2
<1> QED BY <1>3, <1>4, <1>5, <1>6, <1>7, <1>8

-----------------------------------------------------------------------------
LEMMA InitIInv == Init => IInv
<1> SUFFICES ASSUME Init PROVE IInv OBVIOUS
<1>1. PICK url \in Injection(1..added, Urls) :
        rows = {[id |-> k, url |-> url[k], guid |-> 0] : k \in 1..added}
  BY DEF Init
<1>2. added \in Nat /\ added <= MaxRows /\ url \in [1..added -> Urls]
  BY FeedsAssumption DEF Init, Injection
<1>3. /\ \A t \in Threads : todo[t] = <<>> /\ pc[t] = "idle"
      /\ said = {} /\ Range(<<>>) = {}
  BY DEF Init, Range
<1>4. rows \subseteq Rows
  BY <1>1, <1>2, FeedsAssumption DEF Rows, Ids
<1>5. TypeOK
  <2>1. <<>> \in Seq(Rows)
    OBVIOUS
  <2>2. todo \in [Threads -> Seq(Rows)] /\ item \in [Threads -> 0..MaxItems]
    BY <2>1, FeedsAssumption DEF Init
  <2>3. newest \in [Urls -> 0..MaxItems]
    BY FeedsAssumption DEF Init
  <2>4. /\ pc \in [Threads -> {"idle", "inserting", "copying", "fetching", "updating", "sending"}]
        /\ adding \in [Threads -> Urls \cup {NoUrl}]
    BY DEF Init
  <2>5. stops \in 0..MaxStops
    BY FeedsAssumption DEF Init
  <2>6. joined \in BOOLEAN /\ crossed \in BOOLEAN /\ raced \subseteq Urls
    BY DEF Init
  <2>7. phase = "down" /\ added \in 0..MaxRows /\ said = {}
    BY DEF Init
  <2> QED BY <1>4, <2>2, <2>3, <2>4, <2>5, <2>6, <2>7 DEF TypeOK
<1>6. PlacesOK
  BY <1>3 DEF PlacesOK
<1>7. IdsOK
  <2>1. \A r \in rows : r.id <= added
    BY <1>1, <1>2
  <2>2. \A r, s \in rows : r.id = s.id => r = s
    BY <1>1
  <2> QED BY <1>3, <2>1, <2>2 DEF IdsOK
<1>8. CopiesAgree
  BY <1>3 DEF CopiesAgree
<1>9. CopiesInOrder
  BY <1>3 DEF CopiesInOrder, InOrder
<1>10. GuidsOK
  <2>1. newest \in [Urls -> Nat]
    BY DEF Init
  <2>2. \A r \in rows : r.guid = 0 /\ r.url \in Urls
    BY <1>1, <1>2
  <2> QED BY <1>3, <2>1, <2>2 DEF GuidsOK
<1>11. ItemOK
  BY <1>3 DEF ItemOK
<1>12. InTurn
  BY <1>3 DEF InTurn, Alone, Updating, SaidIsStored, SaidIsCopied, WrittenBeforeSent
<1> QED BY <1>5, <1>6, <1>7, <1>8, <1>9, <1>10, <1>11, <1>12 DEF IInv

\* A step keeps the inductive invariant, and a row in the table after a step
\* was there before, with its id and URL, unless its id is new.
LEMMA NextStep ==
  ASSUME IInv, [Next]_vars
  PROVE  /\ IInv'
         /\ \A s \in rows' : s.id = added + 1 \/ \E r \in rows : r.id = s.id /\ r.url = s.url
<1>1. CASE \E t \in Threads : Copy(t) \/ Fetch(t) \/ FetchFails(t) \/ Announce(t)
  <2>1. IInv'
    BY <1>1, CopyStep, FetchStep, FetchFailsStep, AnnounceStep
  <2>2. rows' = rows
    BY <1>1 DEF Copy, Fetch, FetchFails, Announce
  <2> QED BY <2>1, <2>2
<1>2. CASE \E t \in Threads : Update(t)
  BY <1>2, UpdateStep
<1>3. CASE \E t \in Threads : Insert(t)
  BY <1>3, InsertStep
<1>4. CASE \E t \in Threads : StartUpdate(t) \/ Return(t) \/ InsertFails(t)
                                \/ \E url \in Urls : AddRss(t, url)
  BY <1>4, CommandStep
<1>5. CASE \/ \E t \in Threads : \E id \in Ids : DelRss(t, id)
           \/ \E url \in Urls : Publish(url)
           \/ Join \/ Stop \/ Build \/ UNCHANGED vars
  BY <1>5, EnvironmentStep
<1> QED BY <1>1, <1>2, <1>3, <1>4, <1>5 DEF Next, Work

\* The inductive invariant holds in every reachable state.
THEOREM Invariance == Spec => []IInv
<1>1. IInv /\ [Next]_vars => IInv'
  BY NextStep
<1> QED BY InitIInv, <1>1, PTL DEF Spec

\* The table, the copies and the threads keep their types.
THEOREM TypeCorrect == Spec => []TypeOK
<1>1. IInv => TypeOK
  BY DEF IInv
<1> QED BY Invariance, <1>1, PTL

\* RSSWatcher::UpdateFeeds writes the row before it sends the item: as long as
\* no two updates cross, no item is announced twice, or after a newer one.
THEOREM AnnouncedOnceCorrect == Spec => AnnouncedOnce
<1>1. ASSUME IInv, NEW t \in Threads, Announces(t), ~crossed,
             NEW s \in said, s.id = Head(todo[t]).id
      PROVE  s.guid < item[t]
  <2>1. /\ pc[t] = "sending" /\ todo[t] # <<>> /\ todo[t] \in Seq(Rows)
        /\ item[t] \in 0..MaxItems /\ s.guid \in 0..MaxItems
    BY <1>1 DEF Announces, IInv, PlacesOK, TypeOK
  <2>2. Head(todo[t]) \in Range(todo[t]) /\ Head(todo[t]) \in Rows
    BY <2>1, HeadAndTail
  <2>3. s.guid <= Head(todo[t]).guid /\ Head(todo[t]).guid < item[t]
    BY <1>1, <2>1, <2>2 DEF IInv, InTurn, SaidIsCopied, ItemOK
  <2>4. Head(todo[t]).guid \in Nat /\ s.guid \in Nat /\ item[t] \in Nat
    BY <2>1, <2>2, RowType, FeedsAssumption
  <2> QED BY <2>3, <2>4
<1>2. IInv => [\A t \in Threads : Announces(t) /\ ~crossed =>
                 \A s \in said : s.id = Head(todo[t]).id => s.guid < item[t]]_vars
  BY <1>1
<1> QED BY Invariance, <1>2, PTL DEF AnnouncedOnce

\* A feed that !delrss has removed is not brought back by a thread that works
\* on an older copy of the table.
THEOREM RemovedStaysRemovedCorrect == Spec => RemovedStaysRemoved
<1>1. ASSUME IInv, [Next]_vars
      PROVE  \A id \in 1..added :
               \A s \in rows' : s.id = id => \E r \in rows : r.id = id /\ r.url = s.url
  <2>1. added \in Nat
    BY <1>1, FeedsAssumption DEF IInv, TypeOK
  <2>2. \A id \in 1..added : id # added + 1
    BY <2>1
  <2> QED BY <1>1, <2>2, NextStep
<1>2. IInv /\ [Next]_vars =>
        [\A id \in 1..added :
           \A s \in rows' : s.id = id => \E r \in rows : r.id = id /\ r.url = s.url]_vars
  BY <1>1
<1> QED BY Invariance, <1>2, PTL DEF Spec, RemovedStaysRemoved

\* RSSWatcher::RegisterFeed looks before it inserts: a feed is on the list twice
\* only if two threads have been between the two at the same time for its URL.
THEOREM NoDuplicatesCorrect == Spec => []NoDuplicates
<1> DEFINE Distinct == NoDuplicates /\ NotYetThere /\ NobodyElse
<1>1. Init => Distinct
  <2> SUFFICES ASSUME Init PROVE Distinct OBVIOUS
  <2>1. PICK url \in Injection(1..added, Urls) :
          rows = {[id |-> k, url |-> url[k], guid |-> 0] : k \in 1..added}
    BY DEF Init
  <2>2. \A k, l \in 1..added : url[k] = url[l] => k = l
    BY DEF Injection, IsInjective
  <2>3. NoDuplicates
    BY <2>1, <2>2 DEF NoDuplicates
  <2>4. NotYetThere /\ NobodyElse
    BY DEF Init, NotYetThere, NobodyElse
  <2> QED BY <2>3, <2>4
<1>2. ASSUME IInv, Distinct, [Next]_vars
      PROVE  Distinct'
  <2>1. pc \in [Threads -> {"idle", "inserting", "copying", "fetching", "updating", "sending"}]
        /\ adding \in [Threads -> Urls \cup {NoUrl}]
    BY <1>2 DEF IInv, TypeOK
  <2>2. ASSUME \A s \in rows' : \E r \in rows : r.id = s.id /\ r.url = s.url,
               \A r, s \in rows' : r.id = s.id => r = s,
               \A t \in Threads : pc'[t] = "inserting" => pc[t] = "inserting" /\ adding'[t] = adding[t],
               raced' = raced
        PROVE  Distinct'
    <3>1. NoDuplicates'
      BY <1>2, <2>2 DEF NoDuplicates
    <3>2. NotYetThere'
      BY <1>2, <2>2 DEF NotYetThere
    <3>3. NobodyElse'
      BY <1>2, <2>2 DEF NobodyElse
    <3> QED BY <3>1, <3>2, <3>3
  <2>3. ASSUME rows' \subseteq rows, raced' = raced,
               \A t \in Threads : pc'[t] = "inserting" => pc[t] = "inserting" /\ adding'[t] = adding[t]
        PROVE  Distinct'
    <3>1. /\ \A s \in rows' : \E r \in rows : r.id = s.id /\ r.url = s.url
          /\ \A r, s \in rows' : r.id = s.id => r = s
      BY <1>2, <2>3 DEF IInv, IdsOK
    <3> HIDE DEF Distinct
    <3> QED BY <2>2, <2>3, <3>1
  <2>4. ASSUME NEW t \in Threads, Work(t), ~Update(t), ~Insert(t)
        PROVE  Distinct'
    <3>1. rows' = rows /\ raced' = raced
      BY <2>4 DEF Work, Copy, Fetch, FetchFails, Announce, Return, InsertFails
    <3>2. \A u \in Threads : pc'[u] = "inserting" => pc[u] = "inserting" /\ adding'[u] = adding[u]
      BY <2>1, <2>4 DEF Work, Copy, Fetch, FetchFails, Announce, Return, InsertFails
    <3> HIDE DEF Distinct
    <3> QED BY <2>3, <3>1, <3>2
  <2>5. ASSUME NEW t \in Threads, Update(t)
        PROVE  Distinct'
    <3>1. /\ \A s \in rows' : \E r \in rows : r.id = s.id /\ r.url = s.url
          /\ \A r, s \in rows' : r.id = s.id => r = s
      BY <1>2, <2>5, UpdateStep DEF IInv, IdsOK
    <3>2. /\ \A u \in Threads : pc'[u] = "inserting" => pc[u] = "inserting" /\ adding'[u] = adding[u]
          /\ raced' = raced
      BY <2>1, <2>5 DEF Update
    <3> HIDE DEF Distinct
    <3> QED BY <2>2, <3>1, <3>2
  <2>6. ASSUME NEW t \in Threads, Insert(t)
        PROVE  Distinct'
    <3>1. /\ pc[t] = "inserting" /\ raced' = raced
          /\ pc' = [pc EXCEPT ![t] = "copying"] /\ adding' = [adding EXCEPT ![t] = NoUrl]
      BY <2>6 DEF Insert
    <3>2. \A u \in Threads : pc'[u] = "inserting" => u # t /\ pc[u] = "inserting" /\ adding'[u] = adding[u]
      BY <2>1, <3>1
    <3>3. /\ \A r \in rows' : r \in rows \/ (r.id = added + 1 /\ r.url = adding[t])
          /\ \A r, s \in rows' : r.id = s.id => r = s
      BY <1>2, <2>6, InsertStep DEF IInv, IdsOK
    <3>4. NoDuplicates'
      <4>1. adding[t] \in raced \/ \A r \in rows : r.url # adding[t]
        BY <1>2, <3>1 DEF NotYetThere
      <4> QED BY <1>2, <3>1, <3>3, <4>1 DEF NoDuplicates
    <3>5. NotYetThere'
      <4> SUFFICES ASSUME NEW u \in Threads, pc'[u] = "inserting", NEW r \in rows', r.url = adding'[u]
                   PROVE  adding'[u] \in raced'
        BY DEF NotYetThere
      <4>1. u # t /\ pc[u] = "inserting" /\ adding'[u] = adding[u]
        BY <3>2
      <4>2. CASE r \in rows
        BY <1>2, <3>1, <4>1, <4>2 DEF NotYetThere
      <4>3. CASE r.url = adding[t]
        BY <1>2, <3>1, <4>1, <4>3 DEF NobodyElse
      <4> QED BY <3>3, <4>2, <4>3
    <3>6. NobodyElse'
      BY <1>2, <3>1, <3>2 DEF NobodyElse
    <3> QED BY <3>4, <3>5, <3>6
  <2>7. ASSUME NEW t \in Threads, NEW url \in Urls, AddRss(t, url)
        PROVE  Distinct'
    <3>1. CASE \E r \in rows : r.url = url
      <4>1. rows' = rows /\ pc' = [pc EXCEPT ![t] = "copying"] /\ UNCHANGED <<adding, raced>>
        BY <2>7, <3>1 DEF AddRss
      <4>2. \A u \in Threads : pc'[u] = "inserting" => pc[u] = "inserting" /\ adding'[u] = adding[u]
        BY <2>1, <4>1
      <4> HIDE DEF Distinct
      <4> QED BY <2>3, <4>1, <4>2
    <3>2. CASE ~ \E r \in rows : r.url = url
      <4>1. /\ rows' = rows /\ pc' = [pc EXCEPT ![t] = "inserting"]
            /\ adding' = [adding EXCEPT ![t] = url] /\ raced' = Race(url)
        BY <2>7, <3>2 DEF AddRss
      <4>2. \A u \in Threads : IF u = t THEN adding'[u] = url
                                        ELSE pc'[u] = pc[u] /\ adding'[u] = adding[u]
        BY <2>1, <4>1
      <4>3. raced \subseteq raced' /\ \A u \in Threads : adding[u] = url => url \in raced'
        BY <4>1 DEF Race
      <4>4. NoDuplicates'
        BY <1>2, <4>1, <4>3 DEF NoDuplicates
      <4>5. NotYetThere'
        BY <1>2, <3>2, <4>1, <4>2, <4>3 DEF NotYetThere
      <4>6. NobodyElse'
        BY <1>2, <4>2, <4>3 DEF NobodyElse
      <4> QED BY <4>4, <4>5, <4>6
    <3> QED BY <3>1, <3>2
  <2>8. CASE \/ \E t \in Threads : StartUpdate(t) \/ \E id \in Ids : DelRss(t, id)
             \/ \E url \in Urls : Publish(url)
             \/ Join \/ Stop \/ Build \/ UNCHANGED vars
    <3>1. rows' \subseteq rows /\ raced' = raced
      BY <2>8 DEF StartUpdate, DelRss, Publish, Join, Stop, Build, vars
    <3>2. \A u \in Threads : pc'[u] = "inserting" => pc[u] = "inserting" /\ adding'[u] = adding[u]
      BY <2>1, <2>8 DEF StartUpdate, DelRss, Publish, Join, Stop, Build, vars
    <3> HIDE DEF Distinct
    <3> QED BY <2>3, <3>1, <3>2
  <2> HIDE DEF Distinct
  <2> QED BY <1>2, <2>4, <2>5, <2>6, <2>7, <2>8 DEF Next, Work
<1>3. Distinct => NoDuplicates
  OBVIOUS
<1> HIDE DEF Distinct
<1> QED BY Invariance, <1>1, <1>2, <1>3, PTL DEF Spec
=============================================================================
