---------------------------- MODULE QuotesProofs ----------------------------
(***************************************************************************)
(* The properties of Quotes, for any number of quotes and crashes: proofs  *)
(* that TLAPS checks.                                                      *)
(*                                                                         *)
(* That indexes follow the keys rests on what a regeneration has done so   *)
(* far: the rows it has rewritten come first and have the indexes it has   *)
(* given, and all others still have larger ones (HalfRegenerated), so that *)
(* a crash leaves two halves that fit.  It holds until two commands        *)
(* overlap, and is kept because only one thread is busy until then; after, *)
(* TLC finds IndexIsUnique violated.  And they are the indexes from 1 on   *)
(* without a gap (Counted), so that the count it ends with is true.        *)
(***************************************************************************)
EXTENDS Quotes, TLAPS, FiniteSetTheorems

\* What holds until two commands overlap: one thread at most is half way,
OneIsBusy == \A t, u \in Threads : pc[t] # "idle" /\ pc[u] # "idle" => t = u

\* and the indexes follow the keys.
Ordered == \A k, m \in Quotes : k < m => rows[k] < rows[m]

KeysAreUsed == \A k \in Quotes : k < nextId

NewIsLargest ==
  \A t \in Threads : pc[t] = "adding" =>
    newID[t] > 0 /\ \A k \in Quotes : rows[k] < newID[t]

HalfRegenerated ==
  \A t \in Threads : pc[t] = "regenerating" =>
    /\ todo[t] \subseteq Quotes
    /\ \A k \in todo[t] : rows[k] > index[t]
    /\ \A k \in Quotes \ todo[t] : rows[k] <= index[t] /\ \A m \in todo[t] : k < m

InTurn ==
  /\ TypeOK
  /\ OneIsBusy
  /\ Ordered
  /\ KeysAreUsed
  /\ NewIsLargest
  /\ HalfRegenerated

IInv == TypeOK /\ (~crossed => InTurn)

-----------------------------------------------------------------------------
(* Numbers                                                                 *)

\* The natural numbers are well-founded.
LEMMA LeastNatural ==
  ASSUME NEW T \in SUBSET Nat, T # {}
  PROVE  \E m \in T : \A n \in T : m <= n
<1> DEFINE R == {ss \in Nat \X Nat : ss[1] < ss[2]}
<1>1. IsWellFoundedOn(R, Nat)
  BY NatLessThanWellFounded DEF OpToRel
<1>2. PICK m \in T : \A y \in T : ~ (<<y, m>> \in R)
  <2> HIDE DEF R
  <2> QED BY <1>1, WFMin
<1>3. ASSUME NEW n \in T PROVE m <= n
  <2>1. <<n, m>> \in Nat \X Nat /\ m \in Nat /\ n \in Nat
    OBVIOUS
  <2>2. ~(n < m)
    BY <2>1, <1>2
  <2> QED BY <2>1, <2>2
<1> QED BY <1>2, <1>3

\* A finite set of numbers has an upper bound: if not, take a smallest one that
\* has none, and remove a number from it.
LEMMA FiniteIsBounded ==
  ASSUME NEW S \in SUBSET Nat, IsFiniteSet(S)
  PROVE  \E b \in Nat : \A n \in S : n <= b
<1> DEFINE Bounded(U) == \E b \in Nat : \A n \in U : n <= b
           Sizes == {c \in Nat : \E U \in SUBSET Nat :
                                    IsFiniteSet(U) /\ Cardinality(U) = c /\ ~Bounded(U)}
<1> SUFFICES ASSUME ~Bounded(S) PROVE FALSE
  OBVIOUS
<1>1. Cardinality(S) \in Sizes
  BY FS_CardinalityType
<1>2. PICK c \in Sizes : \A d \in Sizes : c <= d
  <2> HIDE DEF Sizes
  <2>1. Sizes \in SUBSET Nat
    BY DEF Sizes
  <2> QED BY <1>1, <2>1, LeastNatural
<1>3. PICK U \in SUBSET Nat : IsFiniteSet(U) /\ Cardinality(U) = c /\ ~Bounded(U)
  BY <1>2
<1>4. PICK x \in U : TRUE
  BY <1>3
<1>5. IsFiniteSet(U \ {x}) /\ Cardinality(U \ {x}) = c - 1 /\ c - 1 \in Nat
  <2>1. IsFiniteSet(U \ {x}) /\ Cardinality(U \ {x}) = c - 1
    BY <1>3, <1>4, FS_RemoveElement
  <2> QED BY <2>1, FS_CardinalityType
<1>6. Bounded(U \ {x})
  <2>1. c - 1 \notin Sizes
    BY <1>2
  <2>2. U \ {x} \in SUBSET Nat
    BY <1>3
  <2> QED BY <1>5, <2>1, <2>2
<1>7. PICK b \in Nat : \A n \in U \ {x} : n <= b
  BY <1>6
<1>8. \A n \in U : n <= b + x
  BY <1>4, <1>7
<1> QED BY <1>3, <1>4, <1>8

\* What storage.max finds.
LEMMA MaxIndexIsLargest ==
  ASSUME NEW S \in SUBSET Nat, IsFiniteSet(S)
  PROVE  MaxIndex(S) \in Nat /\ \A n \in S : n <= MaxIndex(S)
<1>1. CASE S = {}
  BY <1>1 DEF MaxIndex
<1>2. CASE S # {}
  <2>1. PICK b \in Nat : \A n \in S : n <= b
    BY FiniteIsBounded
  <2> DEFINE T == {b - n : n \in S}
  <2>2. T \in SUBSET Nat /\ T # {}
    <3>1. \A n \in S : b - n \in Nat
      BY <2>1
    <3> QED BY <1>2, <3>1
  <2>3. PICK d \in T : \A e \in T : d <= e
    <3> HIDE DEF T
    <3> QED BY <2>2, LeastNatural
  <2>4. PICK m \in S : d = b - m
    BY <2>3
  <2>5. \A n \in S : n <= m
    <3> TAKE n \in S
    <3>1. b - n \in T /\ n \in Nat /\ m \in Nat
      BY <2>4
    <3> QED BY <2>3, <2>4, <3>1
  <2> QED BY <1>2, <2>5 DEF MaxIndex
<1> QED BY <1>1, <1>2

\* It finds one among the indexes of the table.
LEMMA NewIndex ==
  ASSUME TypeOK
  PROVE  MaxIndex(Indexes) \in Nat /\ \A k \in Quotes : rows[k] <= MaxIndex(Indexes)
<1>1. Indexes \in SUBSET Nat
  BY DEF Indexes, Quotes, TypeOK
<1>2. IsFiniteSet(Quotes)
  <2>1. IsFiniteSet(Keys)
    BY QuotesAssumption, FS_Interval DEF Keys
  <2>2. Quotes \in SUBSET Keys
    BY DEF Quotes
  <2> QED BY <2>1, <2>2, FS_Subset
<1>3. IsFiniteSet(Indexes)
  <2>1. [k \in Quotes |-> rows[k]] \in Surjection(Quotes, Indexes)
    BY DEF Indexes, Surjection
  <2> QED BY <1>2, <2>1, FS_Surjection
<1>4. \A k \in Quotes : rows[k] \in Indexes
  BY DEF Indexes
<1> QED BY <1>1, <1>3, <1>4, MaxIndexIsLargest

-----------------------------------------------------------------------------
(* Types                                                                   *)

LEMMA InitType == Init => TypeOK
<1>1. Init => reply \in Replies
  BY DEF Init, NoReply, Replies
<1>2. Init => crossed \in BOOLEAN
  BY DEF Init
<1> QED BY <1>1, <1>2, QuotesAssumption DEF Init, TypeOK, Keys

\* What the threads answer.
LEMMA ReplyType ==
  /\ \A id \in Int, g \in Nat : [text |-> "deleted", asked |-> id, gone |-> g] \in Replies
  /\ [text |-> "invalid", asked |-> 0, gone |-> 0] \in Replies
  /\ \A id \in Int : [text |-> "denied", asked |-> id, gone |-> 0] \in Replies
  /\ NoReply \in Replies
BY DEF Replies, NoReply

LEMMA TypeStep ==
  ASSUME TypeOK, [Next]_vars
  PROVE  TypeOK'
<1> USE DEF TypeOK
<1>1. ASSUME NEW t \in Threads, ReadMax(t) PROVE TypeOK'
  BY <1>1, NewIndex DEF ReadMax, Crossed
<1>2. ASSUME NEW t \in Threads, Insert(t) PROVE TypeOK'
  BY <1>2, QuotesAssumption DEF Insert, Keys
<1>3. ASSUME NEW t \in Threads, InsertFails(t) PROVE TypeOK'
  BY <1>3 DEF InsertFails
<1>4. ASSUME NEW t \in Threads, NEW id \in 0..(MaxQuotes + 1), Delete(t, id) PROVE TypeOK'
  <2>1. id \in Int
    BY QuotesAssumption
  <2>2. \E g \in Nat : reply' = [text |-> "deleted", asked |-> id, gone |-> g]
    <3>1. CASE id \in Keys
      <4>1. rows[id] \in Nat
        BY <3>1
      <4> QED BY <1>4, <3>1, <4>1 DEF Delete
    <3>2. CASE id \notin Keys
      BY <1>4, <3>2 DEF Delete
    <3> QED BY <3>1, <3>2
  <2>3. reply' \in Replies
    BY <2>1, <2>2, ReplyType
  <2>4. rows' \in [Keys -> Nat]
    <3>1. rows' = rows \/ rows' = [rows EXCEPT ![id] = 0]
      BY <1>4, Zenon DEF Delete
    <3> QED BY <3>1
  <2> QED BY <1>4, <2>3, <2>4 DEF Delete, Crossed
<1>5. ASSUME NEW t \in Threads, DeleteNonsense(t) PROVE TypeOK'
  <2>1. reply' \in Replies
    BY <1>5, ReplyType, Zenon DEF DeleteNonsense
  <2> QED BY <1>5, <2>1 DEF DeleteNonsense
<1>6. ASSUME NEW t \in Threads, StartRegenerating(t) PROVE TypeOK'
  BY <1>6 DEF StartRegenerating, Quotes, Crossed
<1>7. ASSUME NEW t \in Threads, NEW k \in Keys, UpdateRow(t, k) PROVE TypeOK'
  <2>1. index[t] + 1 \in Nat /\ index' = [index EXCEPT ![t] = index[t] + 1]
    BY <1>7 DEF UpdateRow
  <2>2. todo' \in [Threads -> SUBSET Keys]
    BY <1>7 DEF UpdateRow
  <2> QED BY <1>7, <2>1, <2>2 DEF UpdateRow
<1>8. ASSUME NEW t \in Threads, EndRegenerating(t) PROVE TypeOK'
  BY <1>8 DEF EndRegenerating
<1>9. CASE Stop
  <2>1. reply' \in Replies
    BY <1>9, ReplyType, Zenon DEF Stop
  <2> QED BY <1>9, <2>1, QuotesAssumption DEF Stop
<1>10. CASE UNCHANGED vars
  BY <1>10 DEF vars
<1>11. ASSUME NEW t \in Threads, NEW id \in 0..(MaxQuotes + 1), DeleteFails(t, id) PROVE TypeOK'
  <2>1. id \in Int
    BY QuotesAssumption
  <2>2. reply' \in Replies
    BY <1>11, <2>1, ReplyType, Zenon DEF DeleteFails
  <2> QED BY <1>11, <2>2 DEF DeleteFails
<1>12. ASSUME NEW t \in Threads, RegenerationFails(t) PROVE TypeOK'
  BY <1>12 DEF RegenerationFails
<1> QED
  BY <1>1, <1>2, <1>3, <1>4, <1>5, <1>6, <1>7, <1>8, <1>9, <1>10, <1>11, <1>12 DEF Next, Step

-----------------------------------------------------------------------------
(* Order, until two commands overlap                                       *)

LEMMA InitInTurn == Init => InTurn
BY InitType
   DEF Init, InTurn, OneIsBusy, Ordered, KeysAreUsed, NewIsLargest, HalfRegenerated, Quotes

\* A step that removes a row, or none, while no thread is half way.
LEMMA FewerRows ==
  ASSUME InTurn, TypeOK', Quotes' \subseteq Quotes,
         \A k \in Quotes' : rows'[k] = rows[k],
         nextId' = nextId,
         \A t \in Threads : pc'[t] = "idle"
  PROVE  InTurn'
BY DEF InTurn, OneIsBusy, Ordered, KeysAreUsed, NewIsLargest, HalfRegenerated

\* A step that leaves the table and the threads where they are.
LEMMA NothingMoves ==
  ASSUME InTurn, TypeOK', UNCHANGED <<rows, nextId, pc, newID, todo, index>>
  PROVE  InTurn'
BY DEF InTurn, OneIsBusy, Ordered, KeysAreUsed, NewIsLargest, HalfRegenerated, Quotes

Alone(t) == \A u \in Threads : u # t => pc[u] = "idle"

LEMMA BeginsAlone ==
  ASSUME NEW t \in Threads, crossed' = Crossed(t), ~crossed'
  PROVE  Alone(t)
BY DEF Crossed, Alone

LEMMA BusyIsAlone ==
  ASSUME InTurn, NEW t \in Threads, pc[t] # "idle"
  PROVE  Alone(t)
BY DEF InTurn, OneIsBusy, Alone

LEMMA ReadMaxStep ==
  ASSUME InTurn, TypeOK', ~crossed', NEW t \in Threads, ReadMax(t)
  PROVE  InTurn'
<1>1. /\ Quotes' = Quotes /\ rows' = rows /\ nextId' = nextId
      /\ pc' = [pc EXCEPT ![t] = "adding"]
      /\ newID' = [newID EXCEPT ![t] = MaxIndex(Indexes) + 1]
  BY DEF ReadMax, Quotes
<1>2. \A u \in Threads : IF u = t THEN pc'[u] = "adding" ELSE pc'[u] = "idle"
  BY <1>1, BeginsAlone DEF ReadMax, Alone, InTurn, TypeOK
<1>3. NewIsLargest'
  <2>1. newID'[t] > 0 /\ \A k \in Quotes : rows[k] < newID'[t]
    <3>1. newID'[t] = MaxIndex(Indexes) + 1
      BY <1>1 DEF InTurn, TypeOK
    <3>2. \A k \in Quotes : rows[k] \in Nat
      BY DEF InTurn, TypeOK, Quotes
    <3> QED BY <3>1, <3>2, NewIndex DEF InTurn
  <2> QED BY <1>1, <1>2, <2>1 DEF NewIsLargest
<1>4. Ordered' /\ KeysAreUsed' /\ OneIsBusy'
  BY <1>1, <1>2 DEF InTurn, Ordered, KeysAreUsed, OneIsBusy
<1>5. HalfRegenerated'
  BY <1>2 DEF HalfRegenerated
<1> QED BY <1>3, <1>4, <1>5 DEF InTurn

LEMMA InsertStep ==
  ASSUME InTurn, TypeOK', NEW t \in Threads, Insert(t)
  PROVE  InTurn'
<1>1. /\ pc[t] = "adding" /\ nextId \in Keys /\ newID[t] > 0 /\ newID[t] \in Nat
      /\ rows' = [rows EXCEPT ![nextId] = newID[t]]
      /\ nextId' = nextId + 1 /\ nextId \in Nat
      /\ pc' = [pc EXCEPT ![t] = "idle"]
      /\ \A k \in Quotes : rows[k] < newID[t] /\ k < nextId /\ k \in Keys
  BY DEF Insert, InTurn, TypeOK, Keys, NewIsLargest, KeysAreUsed, Quotes
<1>2. /\ Quotes' = Quotes \cup {nextId} /\ nextId \notin Quotes
      /\ rows'[nextId] = newID[t] /\ \A k \in Quotes : rows'[k] = rows[k]
  BY <1>1 DEF InTurn, TypeOK, Quotes
<1>3. Ordered'
  <2> SUFFICES ASSUME NEW k \in Quotes', NEW m \in Quotes', k < m PROVE rows'[k] < rows'[m]
    BY DEF Ordered
  <2>1. k # nextId
    BY <1>1, <1>2 DEF Keys
  <2>2. CASE m = nextId
    BY <1>1, <1>2, <2>1, <2>2
  <2>3. CASE m # nextId
    BY <1>2, <2>1, <2>3 DEF InTurn, Ordered
  <2> QED BY <2>2, <2>3
<1>4. KeysAreUsed'
  BY <1>1, <1>2 DEF KeysAreUsed, Keys
<1>5. \A u \in Threads : pc'[u] = "idle"
  BY <1>1, BusyIsAlone DEF Alone, InTurn, TypeOK
<1> QED BY <1>3, <1>4, <1>5 DEF InTurn, OneIsBusy, NewIsLargest, HalfRegenerated

LEMMA StartRegeneratingStep ==
  ASSUME InTurn, TypeOK', ~crossed', NEW t \in Threads, StartRegenerating(t)
  PROVE  InTurn'
<1>1. /\ Quotes' = Quotes /\ rows' = rows /\ nextId' = nextId
      /\ pc' = [pc EXCEPT ![t] = "regenerating"]
      /\ todo' = [todo EXCEPT ![t] = Quotes] /\ index' = [index EXCEPT ![t] = 0]
      /\ Alone(t)
  BY BeginsAlone DEF StartRegenerating, Quotes
<1>2. /\ pc'[t] = "regenerating" /\ todo'[t] = Quotes /\ index'[t] = 0
      /\ \A u \in Threads : u # t => pc'[u] = "idle"
  BY <1>1 DEF InTurn, TypeOK, Alone
<1>3. \A k \in Quotes : rows[k] > 0
  BY DEF InTurn, TypeOK, Quotes
<1>4. HalfRegenerated'
  BY <1>1, <1>2, <1>3 DEF HalfRegenerated
<1> QED BY <1>1, <1>2, <1>4 DEF InTurn, OneIsBusy, Ordered, KeysAreUsed, NewIsLargest

LEMMA UpdateRowStep ==
  ASSUME InTurn, TypeOK', NEW t \in Threads, NEW k \in Keys, UpdateRow(t, k)
  PROVE  InTurn'
<1> DEFINE new == index[t] + 1
<1>1. /\ pc[t] = "regenerating" /\ k \in todo[t] /\ \A m \in todo[t] : k <= m
      /\ index' = [index EXCEPT ![t] = new] /\ todo' = [todo EXCEPT ![t] = todo[t] \ {k}]
      /\ UNCHANGED <<nextId, pc, newID>> /\ \A u \in Threads : u # t => pc[u] = "idle"
  BY BusyIsAlone DEF UpdateRow, Alone
<1>2. /\ todo[t] \subseteq Quotes
      /\ \A m \in todo[t] : rows[m] > index[t]
      /\ \A m \in Quotes \ todo[t] : rows[m] <= index[t] /\ \A n \in todo[t] : m < n
  BY <1>1 DEF InTurn, HalfRegenerated
<1>3. index'[t] = new /\ todo'[t] = todo[t] \ {k} /\ new \in Nat /\ index[t] \in Nat
  BY <1>1 DEF InTurn, TypeOK
<1>4. k \in Quotes /\ rows' = [rows EXCEPT ![k] = new]
  <2>1. k \in Quotes /\ rows[k] # 0
    BY <1>1, <1>2 DEF Quotes
  <2> QED BY <1>3, <2>1 DEF UpdateRow
<1>5. rows'[k] = new /\ \A m \in Quotes : m \in Keys /\ rows[m] \in Nat /\ (m # k => rows'[m] = rows[m])
  BY <1>4 DEF InTurn, TypeOK, Quotes
<1>6. Quotes' = Quotes
  BY <1>3, <1>4 DEF InTurn, TypeOK, Quotes
\* Of the rows still to be done, those after the first have indexes that are larger by more.
<1>7. \A m \in todo[t] \ {k} : k < m /\ rows[m] > new
  <2> TAKE m \in todo[t] \ {k}
  <2>1. k < m
    BY <1>1, <1>2, <1>5 DEF Keys
  <2>2. rows[k] < rows[m] /\ rows[k] > index[t]
    BY <1>1, <1>2, <2>1 DEF InTurn, Ordered
  <2> QED BY <1>1, <1>2, <1>3, <1>5, <2>1, <2>2
<1>8. \A m \in Quotes \ todo[t] : m < k /\ rows[m] < new
  BY <1>1, <1>2, <1>3, <1>5
<1>9. Ordered'
  <2> SUFFICES ASSUME NEW m \in Quotes, NEW n \in Quotes, m < n PROVE rows'[m] < rows'[n]
    BY <1>6 DEF Ordered
  <2>1. m \in Nat /\ n \in Nat /\ k \in Nat
    BY <1>5 DEF Keys
  <2>2. CASE m = k
    <3>1. n \in todo[t] \ {k}
      BY <1>8, <2>1, <2>2
    <3>2. rows'[n] = rows[n] /\ rows[n] > new /\ rows[n] \in Nat /\ rows'[m] = new
      BY <1>5, <1>7, <2>2, <3>1
    <3> QED BY <1>3, <3>2
  <2>3. CASE n = k
    <3>1. m \notin todo[t]
      BY <1>7, <2>1, <2>3
    <3>2. rows'[m] = rows[m] /\ rows[m] < new /\ rows'[n] = new
      BY <1>1, <1>5, <1>8, <2>3, <3>1
    <3> QED BY <3>2
  <2>4. CASE m # k /\ n # k
    <3>1. rows[m] < rows[n]
      BY DEF InTurn, Ordered
    <3>2. rows'[m] = rows[m] /\ rows'[n] = rows[n]
      BY <1>5, <2>4
    <3> QED BY <3>1, <3>2
  <2> QED BY <2>2, <2>3, <2>4
<1>10. KeysAreUsed'
  BY <1>1, <1>6 DEF InTurn, KeysAreUsed
<1>11. NewIsLargest'
  BY <1>1 DEF NewIsLargest
<1>12. OneIsBusy'
  BY <1>1 DEF InTurn, OneIsBusy
<1>13. HalfRegenerated'
  <2>1. \A m \in todo'[t] : rows'[m] > index'[t]
    BY <1>2, <1>3, <1>5, <1>7
  <2>2. \A m \in Quotes' \ todo'[t] : rows'[m] <= index'[t] /\ \A n \in todo'[t] : m < n
    <3> TAKE m \in Quotes' \ todo'[t]
    <3>1. CASE m = k
      BY <1>3, <1>5, <1>7, <3>1
    <3>2. CASE m # k
      BY <1>2, <1>3, <1>5, <1>6, <1>8, <3>2
    <3> QED BY <3>1, <3>2
  <2> QED BY <1>1, <1>2, <1>3, <1>6, <2>1, <2>2 DEF HalfRegenerated
<1> QED BY <1>9, <1>10, <1>11, <1>12, <1>13 DEF InTurn

LEMMA InTurnStep ==
  ASSUME InTurn, ~crossed', [Next]_vars
  PROVE  InTurn'
<1>1. TypeOK'
  BY TypeStep DEF InTurn
<1>2. ASSUME NEW t \in Threads, ReadMax(t) PROVE InTurn'
  BY <1>1, <1>2, ReadMaxStep
<1>3. ASSUME NEW t \in Threads, Insert(t) PROVE InTurn'
  BY <1>1, <1>3, InsertStep
<1>4. ASSUME NEW t \in Threads, InsertFails(t) \/ RegenerationFails(t) \/ EndRegenerating(t)
      PROVE  InTurn'
  <2>1. /\ rows' = rows /\ Quotes' = Quotes /\ nextId' = nextId /\ pc' = [pc EXCEPT ![t] = "idle"]
        /\ pc[t] # "idle"
    BY <1>4 DEF InsertFails, RegenerationFails, EndRegenerating, Quotes
  <2>2. \A u \in Threads : pc'[u] = "idle"
    BY <2>1, BusyIsAlone DEF Alone, InTurn, TypeOK
  <2> QED BY <1>1, <2>1, <2>2, FewerRows
<1>5. ASSUME NEW t \in Threads, NEW id \in 0..(MaxQuotes + 1), Delete(t, id)
      PROVE  InTurn'
  <2>1. /\ nextId' = nextId /\ pc' = pc /\ pc[t] = "idle" /\ Alone(t)
        /\ rows' = rows \/ (id \in Keys /\ rows' = [rows EXCEPT ![id] = 0])
    BY <1>5, BeginsAlone DEF Delete
  <2>2. Quotes' \subseteq Quotes /\ \A k \in Quotes' : rows'[k] = rows[k]
    BY <2>1 DEF InTurn, TypeOK, Quotes
  <2>3. \A u \in Threads : pc'[u] = "idle"
    BY <2>1 DEF Alone
  <2> QED BY <1>1, <2>1, <2>2, <2>3, FewerRows
<1>6. ASSUME NEW t \in Threads, NEW id \in 0..(MaxQuotes + 1), DeleteNonsense(t) \/ DeleteFails(t, id)
      PROVE  InTurn'
  BY <1>1, <1>6, NothingMoves DEF DeleteNonsense, DeleteFails
<1>7. ASSUME NEW t \in Threads, DeleteNonsense(t) PROVE InTurn'
  BY <1>1, <1>7, NothingMoves DEF DeleteNonsense
<1>8. ASSUME NEW t \in Threads, StartRegenerating(t) PROVE InTurn'
  BY <1>1, <1>8, StartRegeneratingStep
<1>9. ASSUME NEW t \in Threads, NEW k \in Keys, UpdateRow(t, k) PROVE InTurn'
  BY <1>1, <1>9, UpdateRowStep
<1>10. CASE Stop
  <2>1. rows' = rows /\ Quotes' = Quotes /\ nextId' = nextId /\ \A u \in Threads : pc'[u] = "idle"
    BY <1>10 DEF Stop, Quotes
  <2> QED BY <1>1, <2>1, FewerRows
<1>11. CASE UNCHANGED vars
  BY <1>1, <1>11, NothingMoves DEF vars
<1> QED
  BY <1>2, <1>3, <1>4, <1>5, <1>6, <1>7, <1>8, <1>9, <1>10, <1>11 DEF Next, Step

\* Commands that have overlapped, have.
LEMMA CrossedStays ==
  ASSUME [Next]_vars, crossed PROVE crossed'
BY DEF Next, Step, vars, Crossed, ReadMax, Insert, InsertFails, Delete, DeleteFails, DeleteNonsense,
       StartRegenerating, UpdateRow, RegenerationFails, EndRegenerating, Stop

-----------------------------------------------------------------------------
(* What a regeneration has given so far                                    *)

\* The rows it has rewritten have the indexes from 1 to the last one it gave.
Counted ==
  \A t \in Threads : pc[t] = "regenerating" =>
    {rows[k] : k \in Quotes \ todo[t]} = 1..index[t]

\* "Index regenerated. New count: ...": the count is the number of quotes, and
\* they are numbered from 1 to it.
CountIsTrue == \A t \in Threads : EndRegenerating(t) => Indexes = 1..index[t]

LEMMA UpdateRowCounts ==
  ASSUME InTurn, Counted, NEW t \in Threads, NEW k \in Keys, UpdateRow(t, k)
  PROVE  Counted'
<1> DEFINE new == index[t] + 1
           done == Quotes \ todo[t]
<1>1. /\ pc[t] = "regenerating" /\ pc' = pc /\ k \in todo[t]
      /\ \A u \in Threads : u # t => pc[u] = "idle"
      /\ index' = [index EXCEPT ![t] = new] /\ todo' = [todo EXCEPT ![t] = todo[t] \ {k}]
  BY BusyIsAlone DEF UpdateRow, Alone
<1>2. k \in Quotes /\ todo[t] \subseteq Quotes /\ {rows[m] : m \in done} = 1..index[t]
  BY <1>1 DEF InTurn, HalfRegenerated, Counted
<1>3. index'[t] = new /\ todo'[t] = todo[t] \ {k} /\ index[t] \in Nat /\ new \in Nat
  BY <1>1 DEF InTurn, TypeOK
<1>4. rows' = [rows EXCEPT ![k] = new]
  BY <1>2, <1>3 DEF UpdateRow, Quotes
<1>5. /\ rows'[k] = new /\ \A m \in Quotes : m # k => rows'[m] = rows[m]
      /\ Quotes' = Quotes
  <2>1. rows'[k] = new /\ \A m \in Quotes : m \in Keys /\ (m # k => rows'[m] = rows[m])
    BY <1>4 DEF InTurn, TypeOK, Quotes
  <2>2. Quotes' = Quotes
    BY <1>2, <1>3, <1>4 DEF InTurn, TypeOK, Quotes
  <2> QED BY <2>1, <2>2
<1>6. Quotes' \ todo'[t] = done \cup {k} /\ k \notin done
  BY <1>1, <1>2, <1>3, <1>5
<1>7. {rows'[m] : m \in done \cup {k}} = {rows[m] : m \in done} \cup {new}
  BY <1>5, <1>6
<1>8. (1..index[t]) \cup {new} = 1..new
  BY <1>3
<1>9. {rows'[m] : m \in Quotes' \ todo'[t]} = 1..index'[t]
  BY <1>2, <1>3, <1>6, <1>7, <1>8
<1> QED BY <1>1, <1>9 DEF Counted

LEMMA CountedStep ==
  ASSUME InTurn, Counted, ~crossed', [Next]_vars
  PROVE  Counted'
<1>1. ASSUME NEW t \in Threads,
             \/ ReadMax(t) \/ Insert(t) \/ InsertFails(t) \/ RegenerationFails(t)
             \/ EndRegenerating(t) \/ \E id \in 0..(MaxQuotes + 1) : Delete(t, id)
      PROVE  Counted'
  <2>1. /\ Alone(t)
        /\ \A u \in Threads : u # t => pc'[u] = pc[u]
    BY <1>1, BeginsAlone, BusyIsAlone
       DEF InTurn, TypeOK, ReadMax, Insert, InsertFails, RegenerationFails, EndRegenerating, Delete
  <2>2. pc'[t] # "regenerating"
    BY <1>1 DEF InTurn, TypeOK, ReadMax, Insert, InsertFails, RegenerationFails, EndRegenerating, Delete
  <2> QED BY <2>1, <2>2 DEF Alone, Counted
<1>2. ASSUME NEW t \in Threads, StartRegenerating(t) PROVE Counted'
  <2>1. /\ todo'[t] = Quotes /\ index'[t] = 0 /\ Quotes' = Quotes
        /\ \A u \in Threads : u # t => pc'[u] = "idle"
    BY <1>2, BeginsAlone DEF InTurn, TypeOK, StartRegenerating, Quotes, Alone
  <2>2. {rows'[k] : k \in Quotes' \ todo'[t]} = 1..index'[t]
    BY <2>1
  <2> QED BY <2>1, <2>2 DEF Counted
<1>3. ASSUME NEW t \in Threads, NEW k \in Keys, UpdateRow(t, k) PROVE Counted'
  BY <1>3, UpdateRowCounts
<1>4. CASE Stop
  BY <1>4 DEF Stop, Counted
<1>5. ASSUME UNCHANGED <<rows, pc, todo, index>> PROVE Counted'
  BY <1>5 DEF Counted, Quotes
<1>6. ASSUME NEW t \in Threads,
             DeleteNonsense(t) \/ \E id \in 0..(MaxQuotes + 1) : DeleteFails(t, id)
      PROVE  Counted'
  BY <1>5, <1>6 DEF DeleteNonsense, DeleteFails
<1>7. CASE UNCHANGED vars
  BY <1>5, <1>7 DEF vars
<1> QED BY <1>1, <1>2, <1>3, <1>4, <1>6, <1>7 DEF Next, Step

-----------------------------------------------------------------------------
\* The table and the threads keep their types, however many threads there are.
THEOREM TypeCorrect == Spec => []TypeOK
BY InitType, TypeStep, PTL DEF Spec

\* The inductive invariant holds always, however many threads there are.
THEOREM Invariance == Spec => []IInv
<1>1. Init => IInv
  BY InitType, InitInTurn DEF IInv
<1>2. IInv /\ [Next]_vars => IInv'
  BY TypeStep, InTurnStep, CrossedStays DEF IInv
<1> QED BY <1>1, <1>2, PTL DEF Spec

\* As long as no two commands overlap, later quotes have larger indexes: "!gq %id%"
\* finds one quote, also when Quotes::RegenerateIndex was cut short by a crash.
THEOREM IndexOrderCorrect == Spec => []IndexOrder
<1>1. IInv => IndexOrder
  BY DEF IInv, InTurn, Ordered, IndexOrder
<1> QED BY Invariance, <1>1, PTL

\* As long as no two commands overlap, a regeneration that comes to its end has
\* numbered all quotes there are from 1 to the count that RegenerateIndex tells.
THEOREM RegenerationIsComplete == Spec => [][~crossed => CountIsTrue]_vars
<1>1. Init => Counted
  BY DEF Init, Counted
<1>2. IInv /\ (~crossed => Counted) /\ [Next]_vars => (~crossed => Counted)'
  BY CountedStep, CrossedStays DEF IInv
<1>3. IInv /\ (~crossed => Counted) => (~crossed => CountIsTrue)
  <2> SUFFICES ASSUME Counted, NEW t \in Threads, EndRegenerating(t)
               PROVE  Indexes = 1..index[t]
    BY DEF CountIsTrue
  <2>1. todo[t] = {} /\ {rows[k] : k \in Quotes \ todo[t]} = 1..index[t]
    BY DEF EndRegenerating, Counted
  <2> QED BY <2>1 DEF Indexes
<1> QED BY Invariance, <1>1, <1>2, <1>3, PTL DEF Spec
=============================================================================
