---------------------------- MODULE SenderProofs ----------------------------
(***************************************************************************)
(* The properties of Sender, for any threads, texts, limits and bounds:    *)
(* proofs that TLAPS checks.                                               *)
(*                                                                         *)
(* Everything rests on who holds _sendMessageMutex (MutexOK): a thread     *)
(* between its throttle and its stamp, the pieces of its own text for      *)
(* Discord included, but not one that posts directly.  So the text of the  *)
(* holder is the last one in the room (RoomOK), its pieces come after all  *)
(* pieces of earlier texts (DiscordOK), and nobody else changes the        *)
(* throttle or the stamp while it sleeps (SpacingOK).                      *)
(*                                                                         *)
(* And the holder does come nearer to giving the mutex back with each step *)
(* (NearerToRelease), which is what LockReleased takes besides fairness.   *)
(***************************************************************************)
EXTENDS Sender, TLAPS, FiniteSetTheorems, SequenceTheorems

Holds(t) ==
  \/ pc[t] \in {"throttled", "sending", "stamping"}
  \/ pc[t] \in {"posting", "pausing"} /\ calls[current[t]].origin # "Direct"

MutexOK == \A t \in Threads : holder = t <=> Holds(t)

CallsOK ==
  /\ \A t \in Threads : current[t] <= Len(calls) /\ (current[t] = 0 <=> pc[t] = "idle")
  /\ \A t, u \in Threads : t # u /\ current[t] # 0 => current[t] # current[u]
  /\ \A t \in Threads : pc[t] \in {"entering", "throttled", "sending", "stamping"} =>
       calls[current[t]].origin # "Direct"
  /\ \A t \in Threads : pc[t] \in {"posting", "pausing"} => calls[current[t]].origin # "Discord"

RoomOK ==
  /\ \A k \in DOMAIN room : room[k].call <= Len(calls) /\ calls[room[k].call].origin # "Direct"
  /\ \A k, l \in DOMAIN room : room[k].call = room[l].call => k = l
  /\ \A t \in Threads : pc[t] \in {"entering", "throttled", "sending"} =>
       \A k \in DOMAIN room : room[k].call # current[t]
  /\ \A t \in Threads : Holds(t) /\ pc[t] \in {"posting", "pausing", "stamping"} =>
       Len(room) > 0 /\ room[Len(room)].call = current[t]

DiscordOK ==
  \A k \in DOMAIN discord :
    /\ discord[k].call <= Len(calls)
    /\ calls[discord[k].call].origin # "Direct" =>
         \E l \in DOMAIN room : room[l].call = discord[k].call

\* The throttle grows once for each text, which is in the room soon after.
ThrottleOK ==
  /\ throttle <= Len(room) + 2
  /\ (\A t \in Threads : pc[t] \notin {"throttled", "sending"}) => throttle <= Len(room) + 1

SpacingOK ==
  \A t \in Threads :
    /\ pc[t] = "throttled" => age + left[t] >= throttle
    /\ pc[t] = "sending" => age >= throttle

\* The pieces of a text follow each other from its first letter on.
Tiled(id) ==
  /\ \A k \in Pieces(id) : End(k) <= calls[id].length
  /\ \A k, l \in Pieces(id) : k < l => End(k) <= discord[l].from
  /\ \A k \in Pieces(id) : \A letter \in 0..(discord[k].from - 1) :
       \E l \in Pieces(id) : l < k /\ Covers(l, letter)

\* They are the beginning of the text, to the letter before the n-th.
SentUpTo(id, n) ==
  /\ \A k \in Pieces(id) : End(k) <= n
  /\ \A letter \in 0..(calls[id].length - 1) : letter < n => \E k \in Pieces(id) : Covers(k, letter)

Done(id) ==
  \/ id \in failed
  \/ calls[id].origin = "Discord" /\ Pieces(id) = {}
  \/ calls[id].origin # "Discord" /\ Whole(id)

Progress(t) ==
  /\ pc[t] \notin {"posting", "pausing"} => index[t] = 0
  /\ pc[t] \in {"entering", "throttled", "sending"} => Pieces(current[t]) = {}
  /\ pc[t] = "posting" =>
       index[t] = 0 \/ (PieceLimit <= calls[current[t]].length
                        /\ index[t] < PieceCount(calls[current[t]].length))
  /\ pc[t] = "pausing" => PieceLimit <= calls[current[t]].length
  /\ pc[t] \in {"posting", "pausing"} => SentUpTo(current[t], index[t] * PieceLimit)
  /\ pc[t] = "stamping" => Done(current[t])

ProgressOK ==
  /\ \A id \in DOMAIN calls : Tiled(id) /\ (Returned(id) => Done(id))
  /\ \A t \in Threads : Progress(t)

IInv ==
  /\ TypeOK
  /\ MutexOK
  /\ CallsOK
  /\ RoomOK
  /\ DiscordOK
  /\ ThrottleOK
  /\ SpacingOK
  /\ SameOrder
  /\ ProgressOK

-----------------------------------------------------------------------------
(* Numbers                                                                 *)

LEMMA Products ==
  ASSUME NEW m \in Nat, NEW n \in Nat, NEW p \in Nat, m <= n
  PROVE  m * p <= n * p
<1>1. PICK d \in Nat : n = m + d
  BY n - m \in Nat
<1>2. n * p = m * p + d * p
  BY <1>1
<1>3. d * p \in Nat /\ m * p \in Nat
  OBVIOUS
<1> QED BY <1>2, <1>3

LEMMA Quotients ==
  ASSUME NEW n \in Nat, NEW p \in Nat \ {0}
  PROVE  n \div p \in Nat /\ (n \div p) * p <= n /\ n < (n \div p + 1) * p
OBVIOUS

\* The loop of rclientSafeSend begins a piece within the text or at its end,
\* and ends behind the text.
LEMMA PieceBounds ==
  ASSUME NEW length \in Nat, NEW k \in Nat
  PROVE  /\ k * PieceLimit \in Nat /\ (k + 1) * PieceLimit = k * PieceLimit + PieceLimit
         /\ PieceCount(length) \in Nat \ {0}
         /\ PieceLimit <= length /\ k < PieceCount(length) => k * PieceLimit <= length
         /\ k >= PieceCount(length) => length < k * PieceLimit
<1>1. PieceLimit \in Nat \ {0}
  BY SenderAssumption
<1> DEFINE q == length \div PieceLimit
<1>2. q \in Nat /\ q * PieceLimit <= length /\ length < (q + 1) * PieceLimit
  BY <1>1, Quotients
<1>3. k * PieceLimit \in Nat /\ (k + 1) * PieceLimit = k * PieceLimit + PieceLimit
  BY <1>1
<1>4. PieceCount(length) \in Nat \ {0}
  BY <1>2 DEF PieceCount
<1> HIDE DEF q
<1>5. ASSUME PieceLimit <= length, k < PieceCount(length) PROVE k * PieceLimit <= length
  <2>1. PieceCount(length) = q + 1
    BY <1>1, <1>5 DEF PieceCount, q
  <2>2. k <= q
    BY <1>2, <1>5, <2>1
  <2>3. k * PieceLimit <= q * PieceLimit
    BY <1>1, <1>2, <2>2, Products
  <2>4. q * PieceLimit \in Nat
    BY <1>1, <1>2
  <2> QED BY <1>2, <1>3, <2>3, <2>4
<1>6. ASSUME k >= PieceCount(length) PROVE length < k * PieceLimit
  <2>1. CASE length < PieceLimit
    <3>1. 1 * PieceLimit <= k * PieceLimit
      BY <1>1, <1>4, <1>6, Products
    <3> QED BY <1>1, <1>3, <2>1, <3>1
  <2>2. CASE ~(length < PieceLimit)
    <3>1. q + 1 <= k /\ q + 1 \in Nat
      BY <1>2, <1>6, <2>2 DEF PieceCount, q
    <3>2. (q + 1) * PieceLimit <= k * PieceLimit
      BY <1>1, <3>1, Products
    <3>3. (q + 1) * PieceLimit \in Nat
      BY <1>1, <3>1
    <3> QED BY <1>2, <1>3, <3>2, <3>3
  <2> QED BY <2>1, <2>2
<1> QED BY <1>3, <1>4, <1>5, <1>6

-----------------------------------------------------------------------------
(* Types                                                                   *)

LEMMA RecordType ==
  /\ \A c \in Calls : c.origin \in Origins /\ c.length \in Nat
  /\ \A o \in Origins, n \in Lengths : [origin |-> o, length |-> n] \in Calls
  /\ \A r \in Texts : r.call \in CallIds
  /\ \A id \in CallIds, b \in BOOLEAN : [call |-> id, shown |-> b] \in Texts
  /\ \A p \in Parts : p.call \in CallIds /\ p.from \in Nat /\ p.size \in Nat
  /\ \A id \in CallIds, f \in Nat, n \in Nat : [call |-> id, from |-> f, size |-> n] \in Parts
BY SenderAssumption DEF Calls, Texts, Parts

LEMMA SeqType ==
  ASSUME TypeOK
  PROVE  /\ Len(calls) \in Nat /\ DOMAIN calls = 1..Len(calls)
         /\ \A id \in DOMAIN calls :
              id \in CallIds /\ id \in Nat /\ calls[id].origin \in Origins /\ calls[id].length \in Nat
         /\ Len(room) \in Nat /\ DOMAIN room = 1..Len(room)
         /\ \A k \in DOMAIN room : room[k].call \in CallIds /\ room[k].call \in Nat
         /\ Len(discord) \in Nat /\ DOMAIN discord = 1..Len(discord)
         /\ \A k \in DOMAIN discord :
              discord[k].call \in CallIds /\ discord[k].from \in Nat /\ discord[k].size \in Nat
<1>1. Len(calls) \in Nat /\ DOMAIN calls = 1..Len(calls) /\ \A id \in DOMAIN calls : calls[id] \in Calls
  BY LenProperties, ElementOfSeq DEF TypeOK
<1>2. \A id \in DOMAIN calls : id \in CallIds /\ id \in Nat
  BY <1>1, SenderAssumption DEF TypeOK, CallIds
<1>3. Len(room) \in Nat /\ DOMAIN room = 1..Len(room) /\ \A k \in DOMAIN room : room[k] \in Texts
  BY LenProperties, ElementOfSeq DEF TypeOK
<1>4. /\ Len(discord) \in Nat /\ DOMAIN discord = 1..Len(discord)
      /\ \A k \in DOMAIN discord : discord[k] \in Parts
  BY LenProperties, ElementOfSeq DEF TypeOK
<1>5. \A id \in CallIds : id \in Nat
  BY SenderAssumption DEF CallIds
<1> QED BY <1>1, <1>2, <1>3, <1>4, <1>5, RecordType

\* A thread that is not idle is in a call that has been made.
LEMMA CurrentType ==
  ASSUME IInv, NEW t \in Threads, pc[t] # "idle"
  PROVE  /\ current[t] \in DOMAIN calls /\ current[t] \in CallIds /\ current[t] \in Nat
         /\ calls[current[t]].length \in Nat
BY SeqType DEF IInv, TypeOK, CallsOK

\* The mutex has one holder.
LEMMA OneHolder ==
  ASSUME IInv
  PROVE  /\ \A t, u \in Threads : Holds(t) /\ Holds(u) => t = u
         /\ holder = NoThread => \A t \in Threads : ~Holds(t)
BY SenderAssumption DEF IInv, MutexOK

\* A text is in the room once, so the room has no more texts than there were
\* calls, and one less while one is on its way.
LEMMA RoomBound ==
  ASSUME IInv
  PROVE  /\ Len(room) <= MaxCalls
         /\ \A t \in Threads : pc[t] \in {"entering", "throttled", "sending"} =>
              Len(room) + 1 <= MaxCalls
<1> DEFINE f == [k \in DOMAIN room |-> room[k].call]
<1>1. Len(room) \in Nat /\ DOMAIN room = 1..Len(room) /\ MaxCalls \in Nat
  BY SeqType, SenderAssumption DEF IInv
<1>2. /\ IsFiniteSet(DOMAIN room) /\ Cardinality(DOMAIN room) = Len(room)
      /\ IsFiniteSet(CallIds) /\ Cardinality(CallIds) = MaxCalls
  <2>1. \A n \in Nat : IsFiniteSet(1..n) /\ Cardinality(1..n) = n
    <3> TAKE n \in Nat
    <3>1. 1 \in Int /\ n \in Int
      OBVIOUS
    <3>2. IsFiniteSet(1..n) /\ Cardinality(1..n) = IF 1 > n THEN 0 ELSE n - 1 + 1
      BY <3>1, FS_Interval
    <3> QED BY <3>2
  <2> QED BY <1>1, <2>1 DEF CallIds
<1>3. ASSUME NEW S \in SUBSET CallIds, \A k \in DOMAIN room : room[k].call \in S
      PROVE  Len(room) <= Cardinality(S)
  <2>1. f \in Injection(DOMAIN room, S)
    BY <1>3 DEF IInv, RoomOK, Injection, IsInjective
  <2>2. IsFiniteSet(S)
    BY <1>2, FS_Subset
  <2> HIDE DEF f
  <2> QED BY <1>2, <2>1, <2>2, FS_Injection
<1>4. Len(room) <= MaxCalls
  BY <1>2, <1>3, SeqType DEF IInv
<1>5. ASSUME NEW t \in Threads, pc[t] \in {"entering", "throttled", "sending"}
      PROVE  Len(room) + 1 <= MaxCalls
  <2>1. current[t] \in CallIds
    BY <1>5, CurrentType
  <2>2. \A k \in DOMAIN room : room[k].call \in CallIds \ {current[t]}
    BY <1>5, SeqType DEF IInv, RoomOK
  <2>3. Cardinality(CallIds \ {current[t]}) = MaxCalls - 1
    BY <1>2, <2>1, FS_RemoveElement
  <2>4. Len(room) <= Cardinality(CallIds \ {current[t]})
    BY <1>3, <2>2
  <2> QED BY <1>1, <2>3, <2>4
<1> QED BY <1>4, <1>5

-----------------------------------------------------------------------------
(* What a step leaves as it was                                            *)

\* As long as Discord gets nothing new, its pieces say what they said.
LEMMA SameDiscord ==
  ASSUME IInv, discord' = discord, failed \subseteq failed', NEW id \in DOMAIN calls,
         calls'[id] = calls[id]
  PROVE  /\ Pieces(id)' = Pieces(id)
         /\ Tiled(id) => Tiled(id)'
         /\ Done(id) => Done(id)'
         /\ \A n : SentUpTo(id, n) => SentUpTo(id, n)'
BY DEF Pieces, Tiled, Done, Whole, SentUpTo, Covers, End

\* Of the threads that do nothing in a step, what matters to their progress.
LEMMA SameProgress ==
  ASSUME IInv, discord' = discord, failed \subseteq failed', NEW u \in Threads,
         pc'[u] = pc[u], current'[u] = current[u], index'[u] = index[u],
         \A id \in DOMAIN calls : calls'[id] = calls[id]
  PROVE  Progress(u)'
<1>1. Progress(u)
  BY DEF IInv, ProgressOK
<1>2. CASE pc[u] = "idle"
  BY <1>1, <1>2 DEF Progress
<1>3. CASE pc[u] # "idle"
  <2>1. current[u] \in DOMAIN calls /\ calls'[current[u]] = calls[current[u]]
    BY <1>3, CurrentType
  <2>2. /\ Pieces(current[u])' = Pieces(current[u])
        /\ Done(current[u]) => Done(current[u])'
        /\ \A n : SentUpTo(current[u], n) => SentUpTo(current[u], n)'
    BY <2>1, SameDiscord
  <2> QED BY <1>1, <2>1, <2>2 DEF Progress, PieceCount
<1> QED BY <1>2, <1>3

-----------------------------------------------------------------------------
(* The steps                                                               *)

LEMMA InitIInv == Init => IInv
<1> SUFFICES ASSUME Init PROVE IInv
  OBVIOUS
<1> USE DEF Init
<1>1. TypeOK
  <2>1. throttle \in 1..(MaxCalls + 1) /\ age \in 0..Horizon /\ left \in [Threads -> 0..(MaxCalls + 1)]
    BY SenderAssumption
  <2>2. calls \in Seq(Calls) /\ Len(calls) <= MaxCalls /\ room \in Seq(Texts) /\ discord \in Seq(Parts)
    BY SenderAssumption, EmptySeq
  <2>3. current \in [Threads -> 0..MaxCalls]
    BY SenderAssumption
  <2> QED BY <2>1, <2>2, <2>3 DEF TypeOK
<1>2. DOMAIN calls = {} /\ DOMAIN room = {} /\ DOMAIN discord = {} /\ Len(room) = 0 /\ Len(calls) = 0
  OBVIOUS
<1>3. \A id : Pieces(id) = {}
  BY <1>2 DEF Pieces
<1>4. MutexOK
  BY SenderAssumption DEF MutexOK, Holds
<1>5. CallsOK /\ RoomOK /\ DiscordOK /\ SameOrder
  BY <1>2 DEF CallsOK, RoomOK, DiscordOK, SameOrder, Holds
<1>6. ThrottleOK /\ SpacingOK
  BY <1>2 DEF ThrottleOK, SpacingOK
<1>7. ProgressOK
  BY <1>2 DEF ProgressOK, Progress
<1> QED BY <1>1, <1>4, <1>5, <1>6, <1>7 DEF IInv

LEMMA SameHolds ==
  ASSUME IInv, NEW u \in Threads, pc'[u] = pc[u], current'[u] = current[u],
         \A id \in DOMAIN calls : calls'[id] = calls[id]
  PROVE  Holds(u)' <=> Holds(u)
<1>1. CASE pc[u] \in {"posting", "pausing"}
  <2>1. current[u] \in DOMAIN calls
    BY <1>1, CurrentType
  <2> QED BY <1>1, <2>1 DEF Holds
<1>2. CASE pc[u] \notin {"posting", "pausing"}
  BY <1>2 DEF Holds
<1> QED BY <1>1, <1>2

\* A step of one thread that says nothing new to Discord and stays in its call.
LEMMA QuietStep ==
  ASSUME IInv, NEW t \in Threads,
         UNCHANGED <<current, calls, index, discord>>, failed \subseteq failed',
         \A u \in Threads \ {t} : pc'[u] = pc[u],
         Progress(t)'
  PROVE  ProgressOK' /\ (room' = room => DiscordOK' /\ SameOrder')
<1>1. room' = room => DiscordOK'
  BY DEF IInv, DiscordOK
<1>2. room' = room => SameOrder'
  BY DEF IInv, SameOrder, Pieces
<1>3. \A u \in Threads : Progress(u)'
  <2> TAKE u \in Threads
  <2>1. CASE u = t
    BY <2>1
  <2>2. CASE u # t
    BY <2>2, SameProgress
  <2> QED BY <2>1, <2>2
<1>4. \A id \in DOMAIN calls' : Tiled(id)' /\ (Returned(id)' => Done(id)')
  <2> TAKE id \in DOMAIN calls'
  <2>1. Tiled(id) /\ (Returned(id) => Done(id))
    BY DEF IInv, ProgressOK
  <2>2. (Tiled(id) => Tiled(id)') /\ (Done(id) => Done(id)')
    BY SameDiscord
  <2>3. Returned(id)' = Returned(id)
    BY DEF Returned
  <2> QED BY <2>1, <2>2, <2>3
<1>5. ProgressOK'
  BY <1>3, <1>4 DEF ProgressOK
<1> QED BY <1>1, <1>2, <1>5

\* Steps that are not those of a thread.
LEMMA SettingStep ==
  ASSUME IInv, EnableDiscord \/ JoinRoom \/ Tick \/ UNCHANGED vars
  PROVE  IInv'
<1>1. UNCHANGED <<pc, current, calls, holder, throttle, index, room, discord, failed>>
  BY DEF EnableDiscord, JoinRoom, Tick, vars
<1>2. TypeOK' /\ SpacingOK'
  <2>1. CASE UNCHANGED <<age, left>>
    <3>1. joined' \in BOOLEAN /\ enabled' \in BOOLEAN
      BY DEF EnableDiscord, JoinRoom, Tick, vars, IInv, TypeOK
    <3>2. TypeOK'
      BY <1>1, <2>1, <3>1 DEF IInv, TypeOK
    <3>3. SpacingOK'
      BY <1>1, <2>1 DEF IInv, SpacingOK
    <3> QED BY <3>2, <3>3
  <2>2. CASE Tick
    <3>1. /\ age \in 0..Horizon /\ left \in [Threads -> 0..(MaxCalls + 1)]
          /\ throttle \in 1..(MaxCalls + 1) /\ Horizon \in Nat /\ Horizon > MaxCalls + 1 /\ MaxCalls \in Nat
      BY SenderAssumption DEF IInv, TypeOK
    <3>2. /\ age' = IF age < Horizon THEN age + 1 ELSE Horizon
          /\ left' = [t \in Threads |-> IF left[t] > 0 THEN left[t] - 1 ELSE 0]
          /\ UNCHANGED <<joined, enabled>>
      BY <2>2 DEF Tick
    <3>3. age' \in 0..Horizon /\ left' \in [Threads -> 0..(MaxCalls + 1)]
      BY <3>1, <3>2
    <3>4. TypeOK'
      BY <1>1, <3>2, <3>3 DEF IInv, TypeOK
    <3>5. SpacingOK'
      <4> SUFFICES ASSUME NEW t \in Threads
                   PROVE  /\ pc[t] = "throttled" => age' + left'[t] >= throttle
                          /\ pc[t] = "sending" => age' >= throttle
        BY <1>1 DEF SpacingOK
      <4>1. /\ pc[t] = "throttled" => age + left[t] >= throttle
            /\ pc[t] = "sending" => age >= throttle
        BY DEF IInv, SpacingOK
      <4>2. left'[t] = IF left[t] > 0 THEN left[t] - 1 ELSE 0
        BY <3>2
      <4> QED BY <3>1, <3>2, <4>1, <4>2
    <3> QED BY <3>4, <3>5
  <2> QED BY <2>1, <2>2 DEF EnableDiscord, JoinRoom, vars
<1>3. MutexOK' /\ CallsOK' /\ ThrottleOK'
  BY <1>1 DEF IInv, MutexOK, CallsOK, ThrottleOK, Holds
<1>4. RoomOK' /\ DiscordOK' /\ SameOrder'
  BY <1>1 DEF IInv, RoomOK, DiscordOK, SameOrder, Holds, Pieces
<1>5. \A u \in Threads : Progress(u)'
  BY <1>1, SameProgress
<1>6. \A id \in DOMAIN calls : Tiled(id)' /\ (Returned(id)' => Done(id)')
  <2> TAKE id \in DOMAIN calls
  <2>1. Tiled(id) /\ (Returned(id) => Done(id))
    BY DEF IInv, ProgressOK
  <2>2. (Tiled(id) => Tiled(id)') /\ (Done(id) => Done(id)')
    BY <1>1, SameDiscord
  <2>3. Returned(id)' = Returned(id)
    BY <1>1 DEF Returned
  <2> QED BY <2>1, <2>2, <2>3
<1>7. ProgressOK'
  BY <1>1, <1>5, <1>6 DEF ProgressOK
<1> QED BY <1>2, <1>3, <1>4, <1>7 DEF IInv

\* The mutex is taken.
LEMMA EnterStep ==
  ASSUME IInv, NEW t \in Threads, Prompt(t) \/ Delayed(t)
  PROVE  IInv'
<1>1. /\ pc[t] = "entering" /\ holder = NoThread /\ holder' = t
      /\ UNCHANGED <<current, calls, age, index, joined, enabled, room, discord, failed>>
  BY DEF Prompt, Delayed
<1>2. /\ throttle \in Nat /\ age \in Nat /\ Len(room) \in Nat /\ MaxCalls \in Nat
      /\ Len(room) + 1 <= MaxCalls /\ throttle >= 1
  BY <1>1, SeqType, RoomBound, SenderAssumption DEF IInv, TypeOK
<1>3. \A u \in Threads : ~Holds(u) /\ pc[u] \notin {"throttled", "sending", "stamping"}
  BY <1>1, OneHolder DEF Holds
<1>4. throttle <= Len(room) + 1
  BY <1>3 DEF IInv, ThrottleOK
<1>5. \/ /\ age >= throttle /\ throttle' = 1 /\ left' = left /\ pc' = [pc EXCEPT ![t] = "sending"]
      \/ /\ throttle' = throttle + 1 /\ left' = [left EXCEPT ![t] = throttle']
         /\ pc' = [pc EXCEPT ![t] = "throttled"]
  BY DEF Prompt, Delayed
<1>6. /\ pc'[t] \in {"sending", "throttled"}
      /\ \A u \in Threads \ {t} : pc'[u] = pc[u] /\ left'[u] = left[u]
  BY <1>5 DEF IInv, TypeOK
<1>7. throttle' \in 1..(MaxCalls + 1) /\ throttle' <= Len(room) + 2
  BY <1>2, <1>4, <1>5
<1>8. TypeOK'
  <2>1. left' \in [Threads -> 0..(MaxCalls + 1)]
    <3>1. left \in [Threads -> 0..(MaxCalls + 1)] /\ throttle' \in 0..(MaxCalls + 1)
      BY <1>2, <1>7 DEF IInv, TypeOK
    <3>2. left' = left \/ left' = [left EXCEPT ![t] = throttle']
      BY <1>5
    <3> QED BY <3>1, <3>2
  <2>2. pc' \in [Threads -> {"idle", "entering", "throttled", "sending", "posting", "pausing", "stamping"}]
    BY <1>5 DEF IInv, TypeOK
  <2> QED BY <1>1, <1>7, <2>1, <2>2 DEF IInv, TypeOK
<1>9. MutexOK'
  <2>1. \A u \in Threads \ {t} : ~Holds(u)'
    BY <1>1, <1>3, <1>6, SameHolds
  <2> QED BY <1>1, <1>6, <2>1 DEF MutexOK, Holds
<1>10. CallsOK'
  BY <1>1, <1>6 DEF IInv, CallsOK
<1>11. RoomOK'
  <2>1. \A u \in Threads : pc'[u] \in {"posting", "pausing", "stamping"} => ~Holds(u)'
    BY <1>1, <1>3, <1>6, SameHolds
  <2> QED BY <1>1, <1>6, <2>1 DEF IInv, RoomOK
<1>12. ThrottleOK'
  BY <1>1, <1>6, <1>7 DEF ThrottleOK
<1>13. SpacingOK'
  <2>1. \A u \in Threads \ {t} : pc'[u] \notin {"throttled", "sending"}
    BY <1>3, <1>6
  <2>2. /\ pc'[t] = "throttled" => age' + left'[t] >= throttle'
        /\ pc'[t] = "sending" => age' >= throttle'
    BY <1>1, <1>2, <1>5 DEF IInv, TypeOK
  <2> QED BY <2>1, <2>2 DEF SpacingOK
<1>14. Progress(t)'
  <2>1. Progress(t) /\ Pieces(current[t])' = Pieces(current[t])
    BY <1>1 DEF IInv, ProgressOK, Pieces
  <2> QED BY <1>1, <1>6, <2>1 DEF Progress
<1>15. DiscordOK' /\ SameOrder' /\ ProgressOK'
  BY <1>1, <1>6, <1>14, QuietStep
<1> QED BY <1>8, <1>9, <1>10, <1>11, <1>12, <1>13, <1>15 DEF IInv

\* The sleep is over.
LEMMA WakeStep ==
  ASSUME IInv, NEW t \in Threads, Wake(t)
  PROVE  IInv'
<1>1. /\ pc[t] = "throttled" /\ left[t] = 0 /\ pc' = [pc EXCEPT ![t] = "sending"]
      /\ UNCHANGED <<current, calls, holder, throttle, age, left, index, joined, enabled, room, discord, failed>>
  BY DEF Wake
<1>2. pc'[t] = "sending" /\ \A u \in Threads \ {t} : pc'[u] = pc[u]
  BY <1>1 DEF IInv, TypeOK
<1>3. TypeOK'
  BY <1>1 DEF IInv, TypeOK
<1>4. \A u \in Threads : Holds(u)' <=> Holds(u)
  <2>1. Holds(t) /\ Holds(t)'
    BY <1>1, <1>2 DEF Holds
  <2> QED BY <1>1, <1>2, <2>1, SameHolds
<1>5. MutexOK' /\ CallsOK' /\ RoomOK'
  BY <1>1, <1>2, <1>4 DEF IInv, MutexOK, CallsOK, RoomOK
<1>6. ThrottleOK'
  BY <1>1, <1>2 DEF IInv, ThrottleOK
<1>7. SpacingOK'
  <2>1. age + left[t] >= throttle /\ age \in Nat
    BY <1>1, SenderAssumption DEF IInv, SpacingOK, TypeOK
  <2> QED BY <1>1, <1>2, <2>1 DEF IInv, SpacingOK
<1>8. Progress(t)'
  <2>1. Progress(t) /\ Pieces(current[t])' = Pieces(current[t])
    BY <1>1 DEF IInv, ProgressOK, Pieces
  <2> QED BY <1>1, <1>2, <2>1 DEF Progress
<1>9. DiscordOK' /\ SameOrder' /\ ProgressOK'
  BY <1>1, <1>2, <1>8, QuietStep
<1> QED BY <1>3, <1>5, <1>6, <1>7, <1>9 DEF IInv

\* The text goes to the room.
LEMMA PostStep ==
  ASSUME IInv, NEW t \in Threads, Post(t)
  PROVE  IInv'
<1> DEFINE id == current[t]
           bridged == calls[id].origin # "Discord"
<1>1. /\ pc[t] = "sending" /\ room' = Append(room, [call |-> id, shown |-> joined])
      /\ pc' = [pc EXCEPT ![t] = IF bridged /\ enabled THEN "posting" ELSE "stamping"]
      /\ failed' = IF bridged /\ ~enabled THEN failed \cup {id} ELSE failed
      /\ UNCHANGED <<current, calls, holder, throttle, age, left, index, joined, enabled, discord>>
  BY DEF Post
<1>2. /\ pc'[t] = IF bridged /\ enabled THEN "posting" ELSE "stamping"
      /\ \A u \in Threads \ {t} : pc'[u] = pc[u]
  BY <1>1 DEF IInv, TypeOK
<1>3. /\ id \in DOMAIN calls /\ id \in CallIds /\ id \in Nat /\ id <= Len(calls) /\ id # 0
      /\ calls[id].origin # "Direct" /\ calls[id].length \in Nat
  BY <1>1, CurrentType DEF IInv, CallsOK
<1>4. /\ room' \in Seq(Texts) /\ Len(room') = Len(room) + 1 /\ room'[Len(room) + 1].call = id
      /\ DOMAIN room' = 1..(Len(room) + 1) /\ Len(room) \in Nat /\ DOMAIN room = 1..Len(room)
      /\ \A k \in DOMAIN room : room'[k] = room[k]
  <2>1. [call |-> id, shown |-> joined] \in Texts
    BY <1>3, RecordType DEF IInv, TypeOK
  <2>2. /\ room' \in Seq(Texts) /\ Len(room') = Len(room) + 1
        /\ room'[Len(room) + 1] = [call |-> id, shown |-> joined]
        /\ \A k \in 1..Len(room) : room'[k] = room[k]
    BY <1>1, <2>1, AppendProperties DEF IInv, TypeOK
  <2> QED BY <2>2, SeqType, LenProperties DEF IInv
<1>5. TypeOK'
  <2>1. failed' \subseteq CallIds
    BY <1>1, <1>3 DEF IInv, TypeOK
  <2>2. pc' \in [Threads -> {"idle", "entering", "throttled", "sending", "posting", "pausing", "stamping"}]
    BY <1>1 DEF IInv, TypeOK
  <2> QED BY <1>1, <1>4, <2>1, <2>2 DEF IInv, TypeOK
<1>6. Holds(t) /\ Holds(t)' /\ \A u \in Threads : Holds(u)' <=> Holds(u)
  <2>1. Holds(t) /\ Holds(t)'
    BY <1>1, <1>2, <1>3 DEF Holds
  <2> QED BY <1>1, <1>2, <2>1, SameHolds
<1>7. \A u \in Threads \ {t} : ~Holds(u) /\ pc[u] \notin {"throttled", "sending"} /\ current[u] # id
  <2>1. \A u \in Threads \ {t} : ~Holds(u)
    BY <1>6, OneHolder
  <2> QED BY <1>3, <2>1 DEF Holds, IInv, CallsOK
<1>8. MutexOK'
  BY <1>1, <1>6 DEF IInv, MutexOK
<1>9. CallsOK'
  BY <1>1, <1>2, <1>3 DEF IInv, CallsOK
<1>10. \A k \in DOMAIN room : room[k].call # id
  BY <1>1 DEF IInv, RoomOK
<1>11. RoomOK'
  <2>1. \A k \in DOMAIN room' : room'[k].call <= Len(calls) /\ calls[room'[k].call].origin # "Direct"
    BY <1>3, <1>4 DEF IInv, RoomOK
  <2>2. \A k, l \in DOMAIN room' : room'[k].call = room'[l].call => k = l
    BY <1>4, <1>10 DEF IInv, RoomOK
  <2>3. ASSUME NEW u \in Threads, pc'[u] \in {"entering", "throttled", "sending"}, NEW k \in DOMAIN room'
        PROVE  room'[k].call # current[u]
    <3>1. u # t
      BY <1>2, <2>3
    <3>2. CASE k = Len(room) + 1
      BY <1>4, <1>7, <3>1, <3>2
    <3>3. CASE k # Len(room) + 1
      BY <1>2, <1>4, <2>3, <3>1, <3>3 DEF IInv, RoomOK
    <3> QED BY <3>2, <3>3
  <2>4. ASSUME NEW u \in Threads, Holds(u)'
        PROVE  Len(room') > 0 /\ room'[Len(room')].call = current[u]
    BY <1>4, <1>6, <1>7, <2>4
  <2> QED BY <1>1, <2>1, <2>2, <2>3, <2>4 DEF RoomOK
<1>12. ThrottleOK'
  BY <1>1, <1>4, SenderAssumption DEF IInv, ThrottleOK, TypeOK
<1>13. SpacingOK'
  BY <1>1, <1>2 DEF IInv, SpacingOK
<1>14. Pieces(id) = {} /\ index[t] = 0
  BY <1>1 DEF IInv, ProgressOK, Progress
<1>15. DiscordOK'
  BY <1>1, <1>4 DEF IInv, DiscordOK
<1>16. SameOrder'
  <2>1. \A i : Pieces(i)' = Pieces(i)
    BY <1>1 DEF Pieces
  <2> SUFFICES ASSUME NEW i \in DOMAIN room', NEW j \in DOMAIN room', i < j
               PROVE  \A k \in Pieces(room'[i].call), l \in Pieces(room'[j].call) : k < l
    BY <2>1 DEF SameOrder
  <2>2. CASE j = Len(room) + 1
    BY <1>4, <1>14, <2>2
  <2>3. CASE j # Len(room) + 1
    <3>1. i \in DOMAIN room /\ j \in DOMAIN room
      BY <1>4, <2>3
    <3> QED BY <1>4, <3>1 DEF IInv, SameOrder
  <2> QED BY <2>2, <2>3
<1>17. Progress(t)'
  <2>1. Pieces(id)' = {} /\ index'[t] = 0 /\ calls'[id] = calls[id] /\ current'[t] = id
    BY <1>1, <1>14 DEF Pieces
  <2>2. SentUpTo(id, 0 * PieceLimit)'
    <3>1. 0 * PieceLimit = 0
      BY SenderAssumption
    <3> QED BY <1>1, <2>1, <3>1 DEF SentUpTo
  <2>3. ~(bridged /\ enabled) => Done(id)'
    BY <1>1, <2>1 DEF Done
  <2> QED BY <1>2, <2>1, <2>2, <2>3 DEF Progress
<1>18. ProgressOK'
  <2>1. failed \subseteq failed'
    BY <1>1
  <2> QED BY <1>1, <1>2, <1>17, <2>1, QuietStep
<1> QED BY <1>5, <1>8, <1>9, <1>11, <1>12, <1>13, <1>15, <1>16, <1>18 DEF IInv

\* A thread's call ends, or goes back to Bot::SendMessage to be stamped: what
\* holds of all threads if the text of this one is done.
LEMMA EndingStep ==
  ASSUME IInv, NEW t \in Threads, pc[t] \in {"posting", "pausing"}, PostingEnds(t),
         NEW id, id = current[t], Done(id)',
         UNCHANGED <<calls, holder, throttle, age, left, room>>,
         \A i \in DOMAIN calls : Tiled(i)' /\ (i # id /\ Done(i) => Done(i)'),
         \A u \in Threads \ {t} :
           pc'[u] = pc[u] /\ current'[u] = current[u] /\ index'[u] = index[u] => Progress(u)'
  PROVE  /\ MutexOK' /\ CallsOK' /\ RoomOK' /\ ThrottleOK' /\ SpacingOK' /\ ProgressOK'
         /\ pc' \in [Threads -> {"idle", "entering", "throttled", "sending", "posting", "pausing", "stamping"}]
         /\ current' \in [Threads -> 0..MaxCalls]
         /\ index' \in [Threads -> Nat]
<1> DEFINE direct == calls[id].origin = "Direct"
<1>1. /\ pc' = [pc EXCEPT ![t] = IF direct THEN "idle" ELSE "stamping"]
      /\ current' = [current EXCEPT ![t] = IF direct THEN 0 ELSE id]
      /\ index' = [index EXCEPT ![t] = 0]
  BY DEF PostingEnds
<1>2. id \in DOMAIN calls /\ id \in Nat /\ id # 0 /\ id <= Len(calls)
  BY CurrentType DEF IInv, CallsOK
<1>3. /\ pc'[t] = IF direct THEN "idle" ELSE "stamping"
      /\ current'[t] = IF direct THEN 0 ELSE id
      /\ index'[t] = 0
      /\ \A u \in Threads \ {t} : pc'[u] = pc[u] /\ current'[u] = current[u] /\ index'[u] = index[u]
  BY <1>1 DEF IInv, TypeOK
<1>4. /\ pc' \in [Threads -> {"idle", "entering", "throttled", "sending", "posting", "pausing", "stamping"}]
      /\ current' \in [Threads -> 0..MaxCalls] /\ index' \in [Threads -> Nat]
  BY <1>1, SenderAssumption DEF IInv, TypeOK
<1>5. \A u \in Threads : Holds(u)' <=> Holds(u)
  <2>1. Holds(t)' <=> Holds(t)
    BY <1>3 DEF Holds
  <2> QED BY <1>3, <2>1, SameHolds
<1>6. MutexOK'
  BY <1>5 DEF IInv, MutexOK
<1>7. CallsOK'
  <2>1. \A u \in Threads : current'[u] <= Len(calls) /\ (current'[u] = 0 <=> pc'[u] = "idle")
    BY <1>2, <1>3, SeqType DEF IInv, CallsOK
  <2>2. \A u, v \in Threads : u # v /\ current'[u] # 0 => current'[u] # current'[v]
    BY <1>2, <1>3 DEF IInv, CallsOK
  <2>3. \A u \in Threads : pc'[u] \in {"entering", "throttled", "sending", "stamping"} =>
          calls[current'[u]].origin # "Direct"
    BY <1>3 DEF IInv, CallsOK
  <2>4. \A u \in Threads : pc'[u] \in {"posting", "pausing"} => calls[current'[u]].origin # "Discord"
    BY <1>3 DEF IInv, CallsOK
  <2> QED BY <2>1, <2>2, <2>3, <2>4 DEF CallsOK
<1>8. RoomOK'
  BY <1>3, <1>5 DEF IInv, RoomOK
<1>9. ThrottleOK'
  <2>1. (\A u \in Threads : pc'[u] \notin {"throttled", "sending"}) =>
          \A u \in Threads : pc[u] \notin {"throttled", "sending"}
    BY <1>3
  <2> QED BY <2>1 DEF IInv, ThrottleOK
<1>10. SpacingOK'
  BY <1>3 DEF IInv, SpacingOK
<1>11. Progress(t)'
  BY <1>3 DEF Progress
<1>12. \A i \in DOMAIN calls : Returned(i)' => Done(i)'
  <2> TAKE i \in DOMAIN calls
  <2>1. CASE i = id
    BY <2>1
  <2>2. CASE i # id
    <3>1. Returned(i)' => Returned(i)
      BY <1>3, <2>2 DEF Returned
    <3> QED BY <2>2, <3>1 DEF IInv, ProgressOK
  <2> QED BY <2>1, <2>2
<1>13. ProgressOK'
  BY <1>3, <1>11, <1>12 DEF ProgressOK
<1> QED BY <1>4, <1>6, <1>7, <1>8, <1>9, <1>10, <1>13

\* The text is stamped, and the mutex given back.
LEMMA StampStep ==
  ASSUME IInv, NEW t \in Threads, Stamp(t)
  PROVE  IInv'
<1> PICK id : id = current[t]
  OBVIOUS
<1>1. /\ pc[t] = "stamping" /\ age' = 0 /\ holder' = NoThread
      /\ pc' = [pc EXCEPT ![t] = "idle"] /\ current' = [current EXCEPT ![t] = 0]
      /\ UNCHANGED <<calls, throttle, left, index, joined, enabled, room, discord, failed>>
  BY DEF Stamp
<1>2. /\ pc'[t] = "idle" /\ current'[t] = 0
      /\ \A u \in Threads \ {t} : pc'[u] = pc[u] /\ current'[u] = current[u]
  BY <1>1, SenderAssumption DEF IInv, TypeOK
<1>3. /\ id \in DOMAIN calls /\ id \in Nat /\ id # 0
  BY <1>1, CurrentType DEF IInv, CallsOK
<1>4. TypeOK'
  <2>1. 0 \in 0..MaxCalls /\ 0 \in 0..Horizon
    BY SenderAssumption
  <2> QED BY <1>1, <2>1 DEF IInv, TypeOK
<1>5. \A u \in Threads \ {t} : ~Holds(u)' /\ pc'[u] \notin {"throttled", "sending", "stamping"}
  <2>1. \A u \in Threads \ {t} : ~Holds(u)
    BY <1>1, OneHolder DEF Holds
  <2>2. \A u \in Threads \ {t} : ~Holds(u)'
    BY <1>1, <1>2, <2>1, SameHolds
  <2> QED BY <2>2 DEF Holds
<1>6. ~Holds(t)'
  BY <1>2 DEF Holds
<1>7. MutexOK'
  BY <1>1, <1>5, <1>6, SenderAssumption DEF MutexOK
<1>8. CallsOK'
  BY <1>1, <1>2, SeqType DEF IInv, CallsOK
<1>9. RoomOK'
  BY <1>1, <1>2, <1>5, <1>6 DEF IInv, RoomOK
<1>10. ThrottleOK'
  <2>1. \A u \in Threads : pc[u] \notin {"throttled", "sending"}
    BY <1>1, <1>2, <1>5
  <2> QED BY <1>1, <2>1 DEF IInv, ThrottleOK
<1>11. SpacingOK'
  BY <1>2, <1>5 DEF SpacingOK
<1>12. DiscordOK' /\ SameOrder'
  BY <1>1 DEF IInv, DiscordOK, SameOrder, Pieces
<1>13. Done(id)
  BY <1>1 DEF IInv, ProgressOK, Progress
<1>14. \A i \in DOMAIN calls : Tiled(i)' /\ (Returned(i)' => Done(i)')
  <2> TAKE i \in DOMAIN calls
  <2>1. (Tiled(i) => Tiled(i)') /\ (Done(i) => Done(i)')
    BY <1>1, SameDiscord
  <2>2. CASE i = id
    BY <1>13, <2>1, <2>2 DEF IInv, ProgressOK
  <2>3. CASE i # id
    <3>1. Returned(i)' => Returned(i)
      BY <1>2, <2>3 DEF Returned
    <3> QED BY <2>1, <3>1 DEF IInv, ProgressOK
  <2> QED BY <2>2, <2>3
<1>15. \A u \in Threads : Progress(u)'
  <2>1. Progress(t)'
    BY <1>1, <1>2 DEF IInv, ProgressOK, Progress
  <2>2. \A u \in Threads \ {t} : Progress(u)'
    BY <1>1, <1>2, SameProgress
  <2> QED BY <2>1, <2>2
<1>16. ProgressOK'
  BY <1>1, <1>14, <1>15 DEF ProgressOK
<1> QED BY <1>4, <1>7, <1>8, <1>9, <1>10, <1>11, <1>12, <1>16 DEF IInv

\* The loop of rclientSafeSend goes on, or ends behind the text, or a piece is
\* refused.
LEMMA NextPieceStep ==
  ASSUME IInv, NEW t \in Threads, PieceFails(t) \/ NextPiece(t)
  PROVE  IInv'
<1> PICK id : id = current[t]
  OBVIOUS
<1>1. /\ pc[t] \in {"posting", "pausing"}
      /\ UNCHANGED <<calls, holder, throttle, age, left, joined, enabled, room, discord>>
      /\ failed \subseteq failed'
  BY DEF PieceFails, NextPiece
<1>2. /\ id \in DOMAIN calls /\ id \in CallIds /\ calls[id].length \in Nat /\ calls[id].origin # "Discord"
  BY <1>1, CurrentType DEF IInv, CallsOK
<1>3. Progress(t)
  BY DEF IInv, ProgressOK
<1>4. DiscordOK' /\ SameOrder'
  BY <1>1 DEF IInv, DiscordOK, SameOrder, Pieces
<1>5. ASSUME PostingEnds(t), Done(id)', failed' \subseteq CallIds
      PROVE  IInv'
  <2>1. \A i \in DOMAIN calls : Tiled(i)' /\ (Done(i) => Done(i)')
    BY <1>1, SameDiscord DEF IInv, ProgressOK
  <2>2. \A u \in Threads \ {t} :
          pc'[u] = pc[u] /\ current'[u] = current[u] /\ index'[u] = index[u] => Progress(u)'
    BY <1>1, SameProgress
  <2>3. /\ MutexOK' /\ CallsOK' /\ RoomOK' /\ ThrottleOK' /\ SpacingOK' /\ ProgressOK'
        /\ pc' \in [Threads -> {"idle", "entering", "throttled", "sending", "posting", "pausing", "stamping"}]
        /\ current' \in [Threads -> 0..MaxCalls]
        /\ index' \in [Threads -> Nat]
    BY <1>1, <1>5, <2>1, <2>2, EndingStep
  <2>4. TypeOK'
    BY <1>1, <1>5, <2>3 DEF IInv, TypeOK
  <2> QED BY <1>4, <2>3, <2>4 DEF IInv
<1>6. CASE PieceFails(t)
  <2>1. PostingEnds(t) /\ failed' = failed \cup {id}
    BY <1>6 DEF PieceFails
  <2>2. Done(id)' /\ failed' \subseteq CallIds
    BY <1>2, <2>1 DEF Done, IInv, TypeOK
  <2> QED BY <1>5, <2>1, <2>2
<1>7. CASE NextPiece(t) /\ index[t] < PieceCount(calls[id].length)
  <2>1. /\ pc[t] = "pausing" /\ pc' = [pc EXCEPT ![t] = "posting"]
        /\ UNCHANGED <<current, index, failed>>
    BY <1>7 DEF NextPiece
  <2>2. pc'[t] = "posting" /\ \A u \in Threads \ {t} : pc'[u] = pc[u]
    BY <2>1 DEF IInv, TypeOK
  <2>3. \A u \in Threads : Holds(u)' <=> Holds(u)
    <3>1. Holds(t)' <=> Holds(t)
      BY <1>1, <2>1, <2>2 DEF Holds
    <3> QED BY <1>1, <2>1, <2>2, <3>1, SameHolds
  <2>4. TypeOK'
    BY <1>1, <2>1 DEF IInv, TypeOK
  <2>5. MutexOK' /\ CallsOK'
    BY <1>1, <2>1, <2>2, <2>3 DEF IInv, MutexOK, CallsOK
  <2>6. RoomOK'
    BY <1>1, <2>1, <2>2, <2>3 DEF IInv, RoomOK
  <2>7. ThrottleOK'
    <3>1. (\A u \in Threads : pc'[u] \notin {"throttled", "sending"}) =>
            \A u \in Threads : pc[u] \notin {"throttled", "sending"}
      BY <2>1, <2>2
    <3> QED BY <1>1, <3>1 DEF IInv, ThrottleOK
  <2>8. SpacingOK'
    BY <1>1, <2>2 DEF IInv, SpacingOK
  <2>9. Progress(t)'
    <3>1. \A n : SentUpTo(id, n) => SentUpTo(id, n)'
      BY <1>1, <1>2, SameDiscord
    <3>2. PieceLimit <= calls[id].length
      BY <1>3, <2>1 DEF Progress
    <3>3. SentUpTo(id, index[t] * PieceLimit)
      BY <1>3, <2>1 DEF Progress
    <3> QED BY <1>1, <1>7, <2>1, <2>2, <3>1, <3>2, <3>3 DEF Progress, PieceCount
  <2>10. ProgressOK'
    BY <1>1, <2>1, <2>2, <2>9, QuietStep
  <2> QED BY <1>4, <2>4, <2>5, <2>6, <2>7, <2>8, <2>10 DEF IInv
\* All its letters come before the end of the loop.
<1>8. CASE NextPiece(t) /\ ~(index[t] < PieceCount(calls[id].length))
  <2>1. pc[t] = "pausing" /\ PostingEnds(t) /\ failed' = failed
    BY <1>8 DEF NextPiece
  <2>2. index[t] \in Nat /\ PieceCount(calls[id].length) \in Nat
    BY <1>2, PieceBounds DEF IInv, TypeOK
  <2>3. calls[id].length < index[t] * PieceLimit /\ index[t] * PieceLimit \in Nat
    BY <1>2, <1>8, <2>2, PieceBounds
  <2>4. SentUpTo(id, index[t] * PieceLimit)
    BY <1>3, <2>1 DEF Progress
  <2>5. Whole(id)
    <3> SUFFICES ASSUME NEW letter \in 0..(calls[id].length - 1)
                 PROVE  \E k \in Pieces(id) : Covers(k, letter)
      BY DEF Whole
    <3>1. letter < index[t] * PieceLimit
      BY <1>2, <2>3
    <3> QED BY <2>4, <3>1 DEF SentUpTo
  <2>6. Done(id)'
    <3>1. Done(id)
      BY <1>2, <2>5 DEF Done
    <3> QED BY <1>1, <1>2, <3>1, SameDiscord
  <2>7. failed' \subseteq CallIds
    BY <2>1 DEF IInv, TypeOK
  <2> QED BY <1>5, <2>1, <2>6, <2>7
<1> QED BY <1>6, <1>7, <1>8

\* What a new piece changes in Discord.
LEMMA NewPiece ==
  ASSUME IInv, NEW p \in Parts, discord' = Append(discord, p), calls' = calls
  PROVE  /\ discord' \in Seq(Parts)
         /\ DOMAIN discord' = DOMAIN discord \cup {Len(discord) + 1}
         /\ Len(discord) \in Nat /\ DOMAIN discord = 1..Len(discord)
         /\ discord'[Len(discord) + 1] = p /\ \A k \in DOMAIN discord : discord'[k] = discord[k]
         /\ \A id : Pieces(id)' = IF id = p.call THEN Pieces(id) \cup {Len(discord) + 1} ELSE Pieces(id)
         /\ \A k \in DOMAIN discord : End(k)' = End(k) /\ \A letter : Covers(k, letter)' <=> Covers(k, letter)
<1>1. discord \in Seq(Parts) /\ Len(discord) \in Nat /\ DOMAIN discord = 1..Len(discord)
  BY SeqType DEF IInv, TypeOK
<1>2. /\ discord' \in Seq(Parts) /\ Len(discord') = Len(discord) + 1
      /\ \A k \in 1..Len(discord) : discord'[k] = discord[k]
      /\ discord'[Len(discord) + 1] = p
  BY <1>1, AppendProperties
<1>3. DOMAIN discord' = DOMAIN discord \cup {Len(discord) + 1}
  <2>1. DOMAIN discord' = 1..(Len(discord) + 1)
    BY <1>2, LenProperties
  <2> QED BY <1>1, <2>1
<1>4. \A id : Pieces(id)' = IF id = p.call THEN Pieces(id) \cup {Len(discord) + 1} ELSE Pieces(id)
  BY <1>1, <1>2, <1>3 DEF Pieces
<1> QED BY <1>1, <1>2, <1>3, <1>4 DEF End, Covers

\* Texts that the new piece is not of.
LEMMA OtherTexts ==
  ASSUME IInv, NEW p \in Parts, discord' = Append(discord, p), calls' = calls, failed' = failed,
         NEW id \in DOMAIN calls, id # p.call
  PROVE  /\ Tiled(id) => Tiled(id)'
         /\ Done(id) => Done(id)'
         /\ Pieces(id)' = Pieces(id)
         /\ \A n : SentUpTo(id, n) => SentUpTo(id, n)'
<1>1. Pieces(id)' = Pieces(id)
  BY NewPiece
<1>2. \A k \in Pieces(id) : discord'[k] = discord[k] /\ End(k)' = End(k)
  BY NewPiece DEF Pieces, End
<1>3. \A k \in Pieces(id) : \A letter : Covers(k, letter)' <=> Covers(k, letter)
  BY <1>2 DEF Covers
<1>4. Tiled(id) => Tiled(id)'
  BY <1>1, <1>2, <1>3 DEF Tiled
<1>5. Whole(id) => Whole(id)'
  BY <1>1, <1>3 DEF Whole
<1>6. Done(id) => Done(id)'
  BY <1>1, <1>5 DEF Done
<1>7. \A n : SentUpTo(id, n) => SentUpTo(id, n)'
  BY <1>1, <1>2, <1>3 DEF SentUpTo
<1> QED BY <1>1, <1>4, <1>6, <1>7

\* The next piece of the text whose first n letters have been posted.
LEMMA NextLetters ==
  ASSUME IInv, NEW id \in DOMAIN calls, NEW n \in Nat, SentUpTo(id, n), NEW size \in Nat,
         n + size <= calls[id].length, calls' = calls,
         discord' = Append(discord, [call |-> id, from |-> n, size |-> size])
  PROVE  Tiled(id)' /\ SentUpTo(id, n + size)'
<1> DEFINE p == [call |-> id, from |-> n, size |-> size]
           new == Len(discord) + 1
<1>1. p \in Parts
  BY SeqType, RecordType DEF IInv
<1>2. /\ Len(discord) \in Nat /\ \A k \in Pieces(id) : k \in 1..Len(discord)
      /\ Pieces(id)' = Pieces(id) \cup {new}
      /\ discord'[new] = p
      /\ \A k \in Pieces(id) : discord'[k] = discord[k]
  BY <1>1, NewPiece DEF Pieces
<1>3. /\ Tiled(id) /\ calls[id].length \in Nat
      /\ \A k \in Pieces(id) : discord[k].from \in Nat /\ discord[k].size \in Nat
  BY SeqType DEF IInv, ProgressOK, Pieces
<1>4. /\ \A k \in Pieces(id) : k < new /\ discord'[k] = discord[k] /\ discord[k].from + discord[k].size <= n
      /\ discord'[new].from = n /\ discord'[new].size = size
  BY <1>2 DEF SentUpTo, End
<1>5. \A letter \in 0..(calls[id].length - 1) : letter < n + size =>
        \E k \in Pieces(id) \cup {new} :
          discord'[k].from <= letter /\ letter < discord'[k].from + discord'[k].size
  <2> SUFFICES ASSUME NEW letter \in 0..(calls[id].length - 1), letter < n + size
               PROVE  \E k \in Pieces(id) \cup {new} :
                        discord'[k].from <= letter /\ letter < discord'[k].from + discord'[k].size
    OBVIOUS
  <2>1. CASE letter < n
    <3>1. PICK k \in Pieces(id) : discord[k].from <= letter /\ letter < discord[k].from + discord[k].size
      BY <2>1 DEF SentUpTo, Covers, End
    <3> QED BY <1>4, <3>1
  <2>2. CASE ~(letter < n)
    BY <1>3, <1>4, <2>2
  <2> QED BY <2>1, <2>2
<1>6. SentUpTo(id, n + size)'
  <2>1. \A k \in Pieces(id)' : End(k)' <= n + size
    BY <1>2, <1>3, <1>4 DEF End
  <2> QED BY <1>2, <1>5, <2>1 DEF SentUpTo, Covers, End
<1>7. Tiled(id)'
  <2>1. \A k \in Pieces(id)' : End(k)' <= calls[id].length
    BY <1>2, <1>3, <1>4 DEF End
  <2>2. \A k, l \in Pieces(id)' : k < l => End(k)' <= discord'[l].from
    <3> SUFFICES ASSUME NEW k \in Pieces(id) \cup {new}, NEW l \in Pieces(id) \cup {new}, k < l
                 PROVE  discord'[k].from + discord'[k].size <= discord'[l].from
      BY <1>2 DEF End
    <3>1. k \in Pieces(id) /\ k # new
      BY <1>2
    <3>2. CASE l = new
      BY <1>4, <3>1, <3>2
    <3>3. CASE l # new
      BY <1>3, <1>4, <3>1, <3>3 DEF Tiled, End
    <3> QED BY <3>2, <3>3
  <2>3. ASSUME NEW k \in Pieces(id) \cup {new}, NEW letter \in 0..(discord'[k].from - 1)
        PROVE  \E l \in Pieces(id) \cup {new} :
                 l < k /\ discord'[l].from <= letter /\ letter < discord'[l].from + discord'[l].size
    <3>1. CASE k = new
      <4>1. letter \in 0..(calls[id].length - 1) /\ letter < n
        BY <1>3, <1>4, <2>3, <3>1
      <4>2. PICK l \in Pieces(id) : discord[l].from <= letter /\ letter < discord[l].from + discord[l].size
        BY <4>1 DEF SentUpTo, Covers, End
      <4> QED BY <1>4, <3>1, <4>2
    <3>2. CASE k # new
      <4>1. PICK l \in Pieces(id) : l < k /\ discord[l].from <= letter /\ letter < discord[l].from + discord[l].size
        BY <1>3, <1>4, <3>2 DEF Tiled, Covers, End
      <4> QED BY <1>4, <4>1
    <3> QED BY <3>1, <3>2
  <2> QED BY <1>2, <2>1, <2>2, <2>3 DEF Tiled, Covers, End
<1> QED BY <1>6, <1>7

LEMMA PostPieceStep ==
  ASSUME IInv, NEW t \in Threads, PostPiece(t)
  PROVE  IInv'
<1> PICK id : id = current[t]
  OBVIOUS
<1> PICK n : n = index[t] * PieceLimit
  OBVIOUS
<1> PICK size : size = PieceSize(calls[id].length, index[t])
  OBVIOUS
<1> DEFINE p == [call |-> id, from |-> n, size |-> size]
           new == Len(discord) + 1
<1>1. /\ pc[t] = "posting" /\ size > 0 /\ discord' = Append(discord, p)
      /\ UNCHANGED <<calls, holder, throttle, age, joined, enabled, room, failed>>
  BY DEF PostPiece
<1>2. /\ id \in DOMAIN calls /\ id \in CallIds /\ calls[id].length \in Nat /\ calls[id].origin # "Discord"
      /\ id \in Nat /\ id # 0 /\ id <= Len(calls)
  BY <1>1, CurrentType DEF IInv, CallsOK
<1>3. /\ index[t] \in Nat /\ n \in Nat /\ (index[t] + 1) * PieceLimit = n + PieceLimit
      /\ PieceLimit \in Nat \ {0} /\ MaxCalls \in Nat
  BY <1>2, PieceBounds, SenderAssumption DEF IInv, TypeOK
<1>4. size = IF calls[id].length - n < PieceLimit THEN calls[id].length - n ELSE PieceLimit
  BY DEF PieceSize
<1>5. size \in Nat /\ n + size <= calls[id].length
  <2>1. n \in Nat /\ PieceLimit \in Nat /\ calls[id].length \in Nat
    BY <1>2, <1>3
  <2>2. CASE calls[id].length - n < PieceLimit
    <3>1. size = calls[id].length - n /\ size > 0
      BY <1>1, <1>4, <2>2
    <3> QED BY <2>1, <3>1
  <2>3. CASE ~(calls[id].length - n < PieceLimit)
    BY <1>2, <1>4, <2>1, <2>3
  <2> QED BY <2>2, <2>3
<1>6. p \in Parts /\ p.call = id
  BY <1>2, <1>3, <1>5, RecordType
<1>7. Progress(t) /\ SentUpTo(id, n)
  BY <1>1 DEF IInv, ProgressOK, Progress
<1>8. Tiled(id)' /\ SentUpTo(id, n + size)'
  BY <1>1, <1>2, <1>3, <1>5, <1>7, NextLetters
<1>9. /\ discord' \in Seq(Parts) /\ DOMAIN discord' = DOMAIN discord \cup {new}
      /\ new \notin DOMAIN discord /\ \A k \in DOMAIN discord : k < new
      /\ discord'[new] = p /\ \A k \in DOMAIN discord : discord'[k] = discord[k]
      /\ \A i : Pieces(i)' = IF i = id THEN Pieces(i) \cup {new} ELSE Pieces(i)
  BY <1>1, <1>6, NewPiece
<1>10. \A i \in DOMAIN calls : Tiled(i)' /\ (i # id /\ Done(i) => Done(i)')
  <2> TAKE i \in DOMAIN calls
  <2>1. CASE i = id
    BY <1>8, <2>1
  <2>2. CASE i # id
    BY <1>1, <1>6, <2>2, OtherTexts DEF IInv, ProgressOK
  <2> QED BY <2>1, <2>2
<1>11. ASSUME NEW u \in Threads \ {t},
              pc'[u] = pc[u], current'[u] = current[u], index'[u] = index[u]
       PROVE  Progress(u)'
  <2>1. Progress(u)
    BY DEF IInv, ProgressOK
  <2>2. CASE pc[u] = "idle"
    BY <1>11, <2>1, <2>2 DEF Progress
  <2>3. CASE pc[u] # "idle"
    <3> PICK v : v = current[u]
      OBVIOUS
    <3>1. v \in DOMAIN calls /\ v # id
      BY <1>1, <1>2, <2>3, CurrentType DEF IInv, CallsOK
    <3>2. /\ Pieces(v)' = Pieces(v) /\ (Done(v) => Done(v)')
          /\ \A m : SentUpTo(v, m) => SentUpTo(v, m)'
      BY <1>1, <1>6, <3>1, OtherTexts
    <3> QED BY <1>1, <1>11, <2>1, <3>1, <3>2 DEF Progress, PieceCount
  <2> QED BY <2>2, <2>3
<1>12. DiscordOK'
  <2>1. calls[id].origin # "Direct" => \E l \in DOMAIN room : room[l].call = id
    <3>1. calls[id].origin # "Direct" => Holds(t)
      BY <1>1 DEF Holds
    <3>2. Len(room) > 0 => Len(room) \in DOMAIN room
      BY SeqType DEF IInv
    <3> QED BY <1>1, <3>1, <3>2 DEF IInv, RoomOK
  <2> SUFFICES ASSUME NEW k \in DOMAIN discord'
               PROVE  /\ discord'[k].call <= Len(calls)
                      /\ calls[discord'[k].call].origin # "Direct" =>
                           \E l \in DOMAIN room : room[l].call = discord'[k].call
    BY <1>1 DEF DiscordOK
  <2>2. CASE k = new
    BY <1>2, <1>6, <1>9, <2>1, <2>2
  <2>3. CASE k # new
    BY <1>9, <2>3 DEF IInv, DiscordOK
  <2> QED BY <2>2, <2>3
\* Its text is the last one in the room, or not in the room.
<1>13. SameOrder'
  <2> SUFFICES ASSUME NEW i \in DOMAIN room, NEW j \in DOMAIN room, i < j,
                      NEW k \in Pieces(room[i].call)', NEW l \in Pieces(room[j].call)'
               PROVE  k < l
    BY <1>1 DEF SameOrder
  <2>1. room[i].call # id
    <3>1. CASE calls[id].origin = "Direct"
      BY <3>1 DEF IInv, RoomOK
    <3>2. CASE calls[id].origin # "Direct"
      <4>1. Len(room) > 0 /\ room[Len(room)].call = id
        BY <1>1, <3>2 DEF IInv, RoomOK, Holds
      <4>2. i # Len(room) /\ Len(room) \in DOMAIN room
        BY <4>1, SeqType DEF IInv
      <4> QED BY <4>1, <4>2 DEF IInv, RoomOK
    <3> QED BY <3>1, <3>2
  <2>2. k \in Pieces(room[i].call)
    BY <1>1, <1>9, <2>1
  <2>3. CASE l = new
    BY <1>9, <2>2, <2>3 DEF Pieces
  <2>4. CASE l # new
    <3>1. l \in Pieces(room[j].call)
      BY <1>1, <1>9, <2>4
    <3> QED BY <2>2, <3>1 DEF IInv, SameOrder
  <2> QED BY <2>3, <2>4
<1>14. CASE calls[id].length < PieceLimit
  <2>1. PostingEnds(t) /\ left' = left
    BY <1>14 DEF PostPiece
  <2>2. n = 0
    <3>1. index[t] = 0
      BY <1>1, <1>2, <1>3, <1>7, <1>14 DEF Progress
    <3> QED BY <1>3, <3>1
  <2>3. n + size = calls[id].length
    <3>1. calls[id].length - n = calls[id].length
      BY <1>2, <2>2
    <3>2. size = calls[id].length
      BY <1>4, <1>14, <3>1
    <3> QED BY <1>2, <2>2, <3>2
  <2>4. Whole(id)'
    <3>1. \A letter \in 0..(calls[id].length - 1) : letter < n + size
      BY <1>2, <2>3
    <3> QED BY <1>1, <1>8, <3>1 DEF SentUpTo, Whole
  <2>5. Done(id)'
    BY <1>1, <1>2, <2>4 DEF Done
  <2>6. /\ MutexOK' /\ CallsOK' /\ RoomOK' /\ ThrottleOK' /\ SpacingOK' /\ ProgressOK'
        /\ pc' \in [Threads -> {"idle", "entering", "throttled", "sending", "posting", "pausing", "stamping"}]
        /\ current' \in [Threads -> 0..MaxCalls]
        /\ index' \in [Threads -> Nat]
    BY <1>1, <1>10, <1>11, <2>1, <2>5, EndingStep
  <2>7. TypeOK'
    BY <1>1, <1>9, <2>1, <2>6 DEF IInv, TypeOK
  <2> QED BY <1>12, <1>13, <2>6, <2>7 DEF IInv
<1>15. CASE ~(calls[id].length < PieceLimit)
  <2>1. /\ index' = [index EXCEPT ![t] = index[t] + 1] /\ pc' = [pc EXCEPT ![t] = "pausing"]
        /\ left' = [left EXCEPT ![t] = 1] /\ current' = current
    BY <1>15 DEF PostPiece
  <2>2. /\ pc'[t] = "pausing" /\ index'[t] = index[t] + 1
        /\ \A u \in Threads \ {t} : pc'[u] = pc[u] /\ index'[u] = index[u] /\ left'[u] = left[u]
    BY <2>1 DEF IInv, TypeOK
  <2>3. TypeOK'
    <3>1. left' \in [Threads -> 0..(MaxCalls + 1)]
      BY <1>3, <2>1 DEF IInv, TypeOK
    <3>2. index' \in [Threads -> Nat]
      <4>1. index \in [Threads -> Nat]
        BY DEF IInv, TypeOK
      <4>2. index[t] + 1 \in Nat
        BY <1>3
      <4> QED BY <2>1, <4>1, <4>2
    <3>3. pc' \in [Threads -> {"idle", "entering", "throttled", "sending", "posting", "pausing", "stamping"}]
      BY <2>1 DEF IInv, TypeOK
    <3> QED BY <1>1, <1>9, <2>1, <3>1, <3>2, <3>3 DEF IInv, TypeOK
  <2>4. \A u \in Threads : Holds(u)' <=> Holds(u)
    <3>1. Holds(t)' <=> Holds(t)
      BY <1>1, <2>1, <2>2 DEF Holds
    <3> QED BY <1>1, <2>1, <2>2, <3>1, SameHolds
  <2>5. MutexOK' /\ CallsOK'
    BY <1>1, <2>1, <2>2, <2>4 DEF IInv, MutexOK, CallsOK
  <2>6. RoomOK'
    BY <1>1, <2>1, <2>2, <2>4 DEF IInv, RoomOK
  <2>7. ThrottleOK'
    <3>1. (\A u \in Threads : pc'[u] \notin {"throttled", "sending"}) =>
            \A u \in Threads : pc[u] \notin {"throttled", "sending"}
      BY <1>1, <2>2
    <3> QED BY <1>1, <3>1 DEF IInv, ThrottleOK
  <2>8. SpacingOK'
    BY <1>1, <2>2 DEF IInv, SpacingOK
  <2>9. Progress(t)'
    <3>1. SentUpTo(id, n + PieceLimit)'
      <4>0. n \in Nat /\ PieceLimit \in Nat /\ calls[id].length \in Nat
        BY <1>2, <1>3
      <4>1. \A letter \in 0..(calls[id].length - 1) : letter < n + PieceLimit => letter < n + size
        <5>1. CASE calls[id].length - n < PieceLimit
          <6>1. n + size = calls[id].length
            BY <1>4, <4>0, <5>1
          <6> QED BY <4>0, <6>1
        <5>2. CASE ~(calls[id].length - n < PieceLimit)
          BY <1>4, <5>2
        <5> QED BY <5>1, <5>2
      <4>2. n + size <= n + PieceLimit
        <5>1. size <= PieceLimit
          BY <1>4, <1>5, <4>0
        <5> QED BY <1>5, <4>0, <5>1
      <4>3. \A k \in Pieces(id)' : End(k)' <= n + size /\ End(k)' \in Nat
        <5>1. \A k \in DOMAIN discord' : discord'[k] \in Parts
          BY <1>9, ElementOfSeq, LenProperties
        <5>2. \A k \in Pieces(id)' : End(k)' \in Nat
          BY <5>1, RecordType DEF Pieces, End
        <5> QED BY <1>8, <5>2 DEF SentUpTo
      <4>4. \A k \in Pieces(id)' : End(k)' <= n + PieceLimit
        BY <1>3, <1>5, <4>2, <4>3
      <4> QED BY <1>1, <1>8, <4>1, <4>4 DEF SentUpTo
    <3>2. index'[t] * PieceLimit = n + PieceLimit
      BY <1>3, <2>2
    <3>3. PieceLimit <= calls[id].length
      BY <1>2, <1>3, <1>15
    <3>4. current'[t] = id /\ calls'[id] = calls[id]
      BY <1>1, <2>1
    <3> QED BY <2>2, <3>1, <3>2, <3>3, <3>4 DEF Progress
  <2>10. ProgressOK'
    <3>1. \A u \in Threads : Progress(u)'
      BY <1>11, <2>1, <2>2, <2>9
    <3>2. \A i \in DOMAIN calls : Returned(i)' => Done(i)'
      <4> TAKE i \in DOMAIN calls
      <4>1. Returned(i)' => Returned(i) /\ i # id
        BY <2>1 DEF Returned
      <4> QED BY <1>10, <4>1 DEF IInv, ProgressOK
    <3> QED BY <1>1, <1>10, <3>1, <3>2 DEF ProgressOK
  <2> QED BY <1>12, <1>13, <2>3, <2>5, <2>6, <2>7, <2>8, <2>10 DEF IInv
<1> QED BY <1>14, <1>15

\* A call is made.
LEMMA CallStep ==
  ASSUME IInv, NEW t \in Threads, NEW length \in Lengths,
         PostDirectly(t, length) \/ \E origin \in {"Bot", "Discord"} : SendMessage(t, origin, length)
  PROVE  IInv'
<1> PICK new : new = Len(calls) + 1
  OBVIOUS
<1>1. /\ pc[t] = "idle" /\ new \in CallIds /\ new \in Nat /\ new # 0
      /\ UNCHANGED <<holder, throttle, age, left, index, joined, enabled, room, discord>>
  <2>1. Len(calls) < MaxCalls /\ Len(calls) \in Nat /\ MaxCalls \in Nat
    BY SeqType, SenderAssumption DEF PostDirectly, SendMessage, IInv
  <2> QED BY <2>1 DEF PostDirectly, SendMessage, CallIds
<1>2. PICK origin \in Origins :
        /\ calls' = Append(calls, [origin |-> origin, length |-> length])
        /\ \/ /\ current' = [current EXCEPT ![t] = Len(calls')] /\ failed' = failed
              /\ pc' = [pc EXCEPT ![t] = IF origin = "Direct" THEN "posting" ELSE "entering"]
           \/ /\ UNCHANGED <<current, pc>>
              /\ \/ length = 0 /\ failed' = failed
                 \/ failed' = failed \cup {Len(calls')}
  <2>1. CASE PostDirectly(t, length)
    <3>1. "Direct" \in Origins
      BY DEF Origins
    <3> QED BY <2>1, <3>1 DEF PostDirectly
  <2>2. CASE \E origin \in {"Bot", "Discord"} : SendMessage(t, origin, length)
    <3>1. PICK origin \in {"Bot", "Discord"} : SendMessage(t, origin, length)
      BY <2>2
    <3>2. origin \in Origins /\ origin # "Direct"
      BY DEF Origins
    <3> QED BY <3>1, <3>2 DEF SendMessage
  <2> QED BY <2>1, <2>2
<1>3. /\ calls' \in Seq(Calls) /\ Len(calls') = new /\ Len(calls) \in Nat /\ DOMAIN calls = 1..Len(calls)
      /\ DOMAIN calls' = DOMAIN calls \cup {new} /\ new \notin DOMAIN calls
      /\ calls'[new].origin = origin /\ calls'[new].length = length
      /\ \A id \in DOMAIN calls : calls'[id] = calls[id] /\ id # 0
  <2>1. [origin |-> origin, length |-> length] \in Calls
    BY RecordType
  <2>2. Len(calls) \in Nat /\ DOMAIN calls = 1..Len(calls)
    BY SeqType DEF IInv
  <2>3. /\ calls' \in Seq(Calls) /\ Len(calls') = Len(calls) + 1
        /\ calls'[Len(calls) + 1] = [origin |-> origin, length |-> length]
        /\ \A k \in 1..Len(calls) : calls'[k] = calls[k]
    BY <1>2, <2>1, AppendProperties DEF IInv, TypeOK
  <2>4. DOMAIN calls' = 1..(Len(calls) + 1)
    BY <2>3, LenProperties
  <2>5. DOMAIN calls' = DOMAIN calls \cup {new} /\ new \notin DOMAIN calls
    BY <2>2, <2>4
  <2> QED BY <2>2, <2>3, <2>5
<1>4. /\ failed \subseteq failed' /\ failed' \subseteq CallIds
      /\ current' \in [Threads -> 0..MaxCalls]
      /\ pc' \in [Threads -> {"idle", "entering", "throttled", "sending", "posting", "pausing", "stamping"}]
      /\ \A u \in Threads \ {t} : pc'[u] = pc[u] /\ current'[u] = current[u]
      /\ \/ current'[t] = new /\ pc'[t] = IF origin = "Direct" THEN "posting" ELSE "entering"
         \/ current'[t] = current[t] /\ pc'[t] = pc[t]
  <2>1. new \in 0..MaxCalls
    BY <1>1, SenderAssumption DEF CallIds
  <2>2. /\ current \in [Threads -> 0..MaxCalls]
        /\ pc \in [Threads -> {"idle", "entering", "throttled", "sending", "posting", "pausing", "stamping"}]
        /\ failed \subseteq CallIds
    BY DEF IInv, TypeOK
  <2>3. failed \subseteq failed' /\ failed' \subseteq CallIds
    BY <1>1, <1>2, <1>3, <2>2
  <2>4. CASE UNCHANGED <<current, pc>>
    BY <2>2, <2>3, <2>4
  <2>5. CASE /\ current' = [current EXCEPT ![t] = new]
             /\ pc' = [pc EXCEPT ![t] = IF origin = "Direct" THEN "posting" ELSE "entering"]
    <3>1. current' \in [Threads -> 0..MaxCalls]
      BY <2>1, <2>2, <2>5
    <3> QED BY <2>2, <2>3, <2>5, <3>1
  <2> QED BY <1>2, <1>3, <2>4, <2>5
<1>5. TypeOK'
  <2>1. Len(calls') <= MaxCalls
    BY <1>1, <1>3, SenderAssumption DEF CallIds
  <2> QED BY <1>1, <1>3, <1>4, <2>1 DEF IInv, TypeOK
<1>6. \A u \in Threads : Holds(u)' <=> Holds(u)
  <2>1. ~Holds(t) /\ ~Holds(t)'
    BY <1>1, <1>3, <1>4 DEF Holds
  <2> QED BY <1>3, <1>4, <2>1, SameHolds
<1>7. MutexOK'
  BY <1>1, <1>6 DEF IInv, MutexOK
<1>8. \A u \in Threads : current[u] \in Nat /\ current[u] <= Len(calls) /\ current[u] # new
  BY <1>1, <1>3, SenderAssumption DEF IInv, CallsOK, TypeOK
<1>9. \A u \in Threads : pc[u] # "idle" => current[u] \in DOMAIN calls
  BY CurrentType
<1>10. CallsOK'
  <2>1. \A u \in Threads : current'[u] <= Len(calls') /\ (current'[u] = 0 <=> pc'[u] = "idle")
    <3> TAKE u \in Threads
    <3>1. CASE current'[u] = current[u] /\ pc'[u] = pc[u]
      BY <1>1, <1>3, <1>8, <3>1 DEF IInv, CallsOK
    <3>2. CASE ~(current'[u] = current[u] /\ pc'[u] = pc[u])
      BY <1>1, <1>3, <1>4, <3>2
    <3> QED BY <3>1, <3>2
  <2>2. \A u, v \in Threads : u # v /\ current'[u] # 0 => current'[u] # current'[v]
    BY <1>4, <1>8 DEF IInv, CallsOK
  <2>3. ASSUME NEW u \in Threads
        PROVE  /\ pc'[u] \in {"entering", "throttled", "sending", "stamping"} =>
                    calls'[current'[u]].origin # "Direct"
               /\ pc'[u] \in {"posting", "pausing"} => calls'[current'[u]].origin # "Discord"
    <3>1. CASE current'[u] = current[u] /\ pc'[u] = pc[u]
      BY <1>3, <1>9, <3>1 DEF IInv, CallsOK
    <3>2. CASE ~(current'[u] = current[u] /\ pc'[u] = pc[u])
      BY <1>3, <1>4, <3>2
    <3> QED BY <3>1, <3>2
  <2> QED BY <2>1, <2>2, <2>3 DEF CallsOK
<1>11. \A k \in DOMAIN room : room[k].call \in DOMAIN calls
  BY <1>3, SeqType DEF IInv, RoomOK, CallIds
<1>12. RoomOK'
  <2>1. \A k \in DOMAIN room : room[k].call <= Len(calls') /\ calls'[room[k].call].origin # "Direct"
    BY <1>1, <1>3, <1>11 DEF IInv, RoomOK
  <2>2. ASSUME NEW u \in Threads, pc'[u] \in {"entering", "throttled", "sending"}, NEW k \in DOMAIN room
        PROVE  room[k].call # current'[u]
    BY <1>3, <1>4, <1>11, <2>2 DEF IInv, RoomOK
  <2>3. ASSUME NEW u \in Threads, Holds(u)', pc'[u] \in {"posting", "pausing", "stamping"}
        PROVE  Len(room) > 0 /\ room[Len(room)].call = current'[u]
    <3>1. Holds(u) /\ u # t
      BY <1>1, <1>6, <2>3 DEF Holds
    <3> QED BY <1>4, <2>3, <3>1 DEF IInv, RoomOK
  <2> QED BY <1>1, <2>1, <2>2, <2>3 DEF IInv, RoomOK
<1>13. \A k \in DOMAIN discord : discord[k].call \in DOMAIN calls
  BY <1>3, SeqType DEF IInv, DiscordOK, CallIds
<1>14. DiscordOK'
  BY <1>1, <1>3, <1>13 DEF IInv, DiscordOK
<1>15. SameOrder'
  BY <1>1 DEF IInv, SameOrder, Pieces
<1>16. ThrottleOK'
  <2>1. (\A u \in Threads : pc'[u] \notin {"throttled", "sending"}) =>
          \A u \in Threads : pc[u] \notin {"throttled", "sending"}
    BY <1>1, <1>4
  <2> QED BY <1>1, <2>1 DEF IInv, ThrottleOK
<1>17. SpacingOK'
  BY <1>1, <1>4 DEF IInv, SpacingOK
<1>18. Pieces(new)' = {} /\ Pieces(new) = {}
  BY <1>1, <1>3, <1>13 DEF Pieces
<1>19. Progress(t)'
  <2>1. index'[t] = 0
    BY <1>1 DEF IInv, ProgressOK, Progress
  <2>2. CASE pc'[t] = "idle"
    BY <2>1, <2>2 DEF Progress
  <2>3. CASE pc'[t] # "idle"
    <3>1. current'[t] = new /\ pc'[t] \in {"entering", "posting"}
      BY <1>1, <1>4, <2>3
    <3>2. SentUpTo(new, 0 * PieceLimit)'
      <4>1. 0 * PieceLimit = 0
        BY SenderAssumption
      <4>2. \A letter \in 0..(length - 1) : ~(letter < 0)
        BY SenderAssumption
      <4> QED BY <1>3, <1>18, <4>1, <4>2 DEF SentUpTo
    <3> QED BY <1>18, <2>1, <3>1, <3>2 DEF Progress
  <2> QED BY <2>2, <2>3
<1>20. \A u \in Threads : Progress(u)'
  <2> TAKE u \in Threads
  <2>1. CASE u = t
    BY <1>19, <2>1
  <2>2. CASE u # t
    BY <1>1, <1>3, <1>4, <2>2, SameProgress
  <2> QED BY <2>1, <2>2
<1>21. \A id \in DOMAIN calls' : Tiled(id)' /\ (Returned(id)' => Done(id)')
  <2> TAKE id \in DOMAIN calls'
  <2>1. CASE id = new
    <3>1. Tiled(new)'
      BY <1>18 DEF Tiled
    <3>2. Returned(new)' => Done(new)'
      <4> SUFFICES ASSUME Returned(new)', new \notin failed' PROVE Done(new)'
        BY DEF Done
      <4>1. length = 0
        <5>1. current'[t] # new
          BY DEF Returned
        <5> QED BY <1>2, <1>3, <5>1 DEF IInv, TypeOK
      <4>2. Whole(new)'
        BY <1>3, <4>1 DEF Whole
      <4> QED BY <1>18, <4>2 DEF Done
    <3> QED BY <2>1, <3>1, <3>2
  <2>2. CASE id # new
    <3>1. id \in DOMAIN calls
      BY <1>3, <2>2
    <3>2. Tiled(id) /\ (Returned(id) => Done(id))
      BY <3>1 DEF IInv, ProgressOK
    <3>3. (Tiled(id) => Tiled(id)') /\ (Done(id) => Done(id)')
      BY <1>1, <1>3, <1>4, <3>1, SameDiscord
    <3>4. Returned(id)' => Returned(id)
      <4>1. current[t] # id
        BY <1>1, <1>3, <3>1 DEF IInv, CallsOK
      <4> QED BY <1>4, <4>1 DEF Returned
    <3> QED BY <3>2, <3>3, <3>4
  <2> QED BY <2>1, <2>2
<1>22. ProgressOK'
  BY <1>20, <1>21 DEF ProgressOK
<1> QED BY <1>5, <1>7, <1>10, <1>12, <1>14, <1>15, <1>16, <1>17, <1>22 DEF IInv

LEMMA NextStep ==
  ASSUME IInv, [Next]_vars
  PROVE  IInv'
<1>1. ASSUME NEW t \in Threads, Call(t) PROVE IInv'
  BY <1>1, CallStep DEF Call
<1>2. ASSUME NEW t \in Threads, Step(t) PROVE IInv'
  BY <1>2, EnterStep, WakeStep, PostStep, StampStep, PostPieceStep, NextPieceStep DEF Step
<1>3. CASE EnableDiscord \/ JoinRoom \/ Tick \/ UNCHANGED vars
  BY <1>3, SettingStep
<1> QED BY <1>1, <1>2, <1>3 DEF Next

-----------------------------------------------------------------------------
(* The broadcast                                                           *)

LEMMA PostedType ==
  ASSUME NEW texts \in Seq(Texts)
  PROVE  /\ [k \in DOMAIN texts |-> texts[k].call] \in Seq(CallIds)
         /\ Len([k \in DOMAIN texts |-> texts[k].call]) = Len(texts)
<1> DEFINE ids == [k \in DOMAIN texts |-> texts[k].call]
<1>1. /\ Len(texts) \in Nat /\ DOMAIN texts = 1..Len(texts)
      /\ \A k \in DOMAIN texts : texts[k].call \in CallIds
  BY LenProperties, ElementOfSeq, RecordType
<1>2. ids \in [1..Len(texts) -> CallIds]
  BY <1>1
<1>3. ids \in Seq(CallIds)
  BY <1>1, <1>2
<1> QED BY <1>1, <1>2, <1>3, LenProperties

LEMMA SilentStep ==
  ASSUME IInv, room' = room, discord' = discord,
         \A id \in DOMAIN calls : id \in DOMAIN calls' /\ calls'[id] = calls[id]
  PROVE  UNCHANGED <<Posted, Echoed>>
<1>1. \A id : Pieces(id)' = Pieces(id)
  BY DEF Pieces
<1>2. \A k \in DOMAIN discord : discord[k].call \in DOMAIN calls
  BY SeqType DEF IInv, DiscordOK, CallIds
<1>3. \A id : Pieces(id) # {} => id \in DOMAIN calls
  BY <1>2 DEF Pieces
<1> QED BY <1>1, <1>3 DEF Posted, Echoed

LEMMA PostRefines ==
  ASSUME IInv, IInv', NEW t \in Threads, Post(t)
  PROVE  Implemented!Post(current[t])
<1> PICK id : id = current[t]
  OBVIOUS
<1>1. /\ pc[t] = "sending" /\ room' = Append(room, [call |-> id, shown |-> joined])
      /\ UNCHANGED <<calls, discord>>
  BY DEF Post
<1>2. id \in CallIds
  BY <1>1, CurrentType
<1>3. /\ room' \in Seq(Texts) /\ Len(room') = Len(room) + 1 /\ room'[Len(room) + 1].call = id
      /\ Len(room) \in Nat /\ DOMAIN room = 1..Len(room)
      /\ DOMAIN room' = 1..(Len(room) + 1)
      /\ \A k \in DOMAIN room : room'[k] = room[k]
  <2>1. [call |-> id, shown |-> joined] \in Texts
    BY <1>2, RecordType DEF IInv, TypeOK
  <2>2. /\ room' \in Seq(Texts) /\ Len(room') = Len(room) + 1
        /\ room'[Len(room) + 1] = [call |-> id, shown |-> joined]
        /\ \A k \in 1..Len(room) : room'[k] = room[k]
    BY <1>1, <2>1, AppendProperties DEF IInv, TypeOK
  <2> QED BY <2>2, SeqType, LenProperties DEF IInv
<1>4. \A k \in DOMAIN Posted : Posted[k] # id
  BY <1>1 DEF Posted, IInv, RoomOK
<1>5. Posted' = Append(Posted, id)
  <2>1. Posted \in Seq(CallIds) /\ Len(Posted) = Len(room) /\ Posted' \in Seq(CallIds) /\ Len(Posted') = Len(room')
    BY <1>3, PostedType DEF Posted, IInv, TypeOK
  <2>2. /\ Append(Posted, id) \in Seq(CallIds) /\ Len(Append(Posted, id)) = Len(room) + 1
        /\ \A k \in 1..Len(room) : Append(Posted, id)[k] = Posted[k]
        /\ Append(Posted, id)[Len(room) + 1] = id
    BY <1>2, <2>1, AppendProperties
  <2>3. \A k \in 1..(Len(room) + 1) : Posted'[k] = Append(Posted, id)[k]
    <3> TAKE k \in 1..(Len(room) + 1)
    <3>1. Posted'[k] = room'[k].call
      BY <1>3 DEF Posted
    <3>2. CASE k = Len(room) + 1
      BY <1>3, <2>2, <3>1, <3>2
    <3>3. CASE k # Len(room) + 1
      <4>1. k \in 1..Len(room) /\ Posted[k] = room[k].call
        BY <1>3, <3>3 DEF Posted
      <4> QED BY <1>3, <2>2, <3>1, <4>1
    <3> QED BY <3>2, <3>3
  <2> QED BY <1>3, <2>1, <2>2, <2>3, SeqEqual
<1>6. Echoed' = Echoed
  BY <1>1 DEF Echoed, Pieces
<1> QED BY <1>4, <1>5, <1>6 DEF Implemented!Post

LEMMA PieceRefines ==
  ASSUME IInv, NEW t \in Threads, PostPiece(t)
  PROVE  Implemented!Echo(current[t]) \/ UNCHANGED <<Posted, Echoed>>
<1> PICK id : id = current[t]
  OBVIOUS
<1> PICK p : /\ p = [call |-> id, from |-> index[t] * PieceLimit,
                     size |-> PieceSize(calls[id].length, index[t])]
  OBVIOUS
<1>1. /\ pc[t] = "posting" /\ p.size > 0 /\ discord' = Append(discord, p)
      /\ UNCHANGED <<calls, room>> /\ p.call = id
  BY DEF PostPiece
<1>2. id \in DOMAIN calls /\ id \in CallIds /\ calls[id].length \in Nat
  BY <1>1, CurrentType
<1>3. p \in Parts
  <2>1. index[t] * PieceLimit \in Nat /\ PieceLimit \in Nat \ {0}
    BY PieceBounds, SenderAssumption DEF IInv, TypeOK
  <2> DEFINE n == index[t] * PieceLimit
  <2> HIDE DEF n
  <2>2. PieceSize(calls[id].length, index[t]) \in Nat
    <3>1. n \in Nat
      BY <2>1 DEF n
    <3>2. PieceSize(calls[id].length, index[t]) =
            IF calls[id].length - n < PieceLimit THEN calls[id].length - n ELSE PieceLimit
      BY DEF PieceSize, n
    <3>3. PieceSize(calls[id].length, index[t]) > 0
      BY <1>1
    <3> QED BY <1>2, <2>1, <3>1, <3>2, <3>3
  <2> QED BY <1>2, <2>1, <2>2, RecordType
<1>4. \A i : Pieces(i)' = IF i = id THEN Pieces(i) \cup {Len(discord) + 1} ELSE Pieces(i)
  BY <1>1, <1>3, NewPiece
<1>5. Posted' = Posted
  BY <1>1 DEF Posted
<1>6. CASE calls[id].origin = "Direct" \/ Pieces(id) # {}
  BY <1>1, <1>2, <1>4, <1>5, <1>6 DEF Echoed
<1>7. CASE calls[id].origin # "Direct" /\ Pieces(id) = {}
  <2>1. Len(room) > 0 /\ room[Len(room)].call = id
    BY <1>1, <1>7 DEF IInv, RoomOK, Holds
  <2>2. Posted # <<>> /\ id = Posted[Len(Posted)]
    <3>1. Len(room) \in DOMAIN room /\ Len(Posted) = Len(room)
      BY <2>1, SeqType, PostedType DEF IInv, TypeOK, Posted
    <3>2. Posted[Len(room)] = id
      BY <2>1, <3>1 DEF Posted
    <3>3. Posted # <<>>
      BY <2>1, <3>1
    <3> QED BY <3>1, <3>2, <3>3
  <2>3. id \notin Echoed
    BY <1>7 DEF Echoed
  <2>4. Echoed' = Echoed \cup {id}
    BY <1>1, <1>2, <1>4, <1>7 DEF Echoed
  <2> QED BY <1>5, <2>2, <2>3, <2>4 DEF Implemented!Echo
<1> QED BY <1>6, <1>7

LEMMA StepRefines ==
  ASSUME IInv, IInv', [Next]_vars
  PROVE  [Implemented!Next]_<<Posted, Echoed>>
<1>1. ASSUME NEW t \in Threads, Post(t) PROVE Implemented!Next
  <2>1. current[t] \in CallIds
    BY <1>1, CurrentType DEF Post
  <2> QED BY <1>1, <2>1, PostRefines DEF Implemented!Next
<1>2. ASSUME NEW t \in Threads, PostPiece(t)
      PROVE  [Implemented!Next]_<<Posted, Echoed>>
  <2>1. current[t] \in CallIds
    BY <1>2, CurrentType DEF PostPiece
  <2> QED BY <1>2, <2>1, PieceRefines DEF Implemented!Next
<1>3. ASSUME NEW t \in Threads, Call(t) PROVE UNCHANGED <<Posted, Echoed>>
  <2>1. room' = room /\ discord' = discord
    BY <1>3 DEF Call, SendMessage, PostDirectly
  <2>2. PICK length \in Lengths, origin \in Origins :
          calls' = Append(calls, [origin |-> origin, length |-> length])
    BY <1>3 DEF Call, SendMessage, PostDirectly, Origins
  <2>3. [origin |-> origin, length |-> length] \in Calls /\ calls \in Seq(Calls)
    BY RecordType DEF IInv, TypeOK
  <2>4. \A id \in DOMAIN calls : id \in DOMAIN calls' /\ calls'[id] = calls[id]
    <3>1. /\ calls' \in Seq(Calls) /\ Len(calls') = Len(calls) + 1
          /\ \A k \in 1..Len(calls) : calls'[k] = calls[k]
      BY <2>2, <2>3, AppendProperties
    <3>2. Len(calls) \in Nat /\ DOMAIN calls = 1..Len(calls) /\ DOMAIN calls' = 1..(Len(calls) + 1)
      BY <2>3, <3>1, LenProperties
    <3> QED BY <3>1, <3>2
  <2> QED BY <2>1, <2>4, SilentStep
<1>4. ASSUME NEW t \in Threads,
             Prompt(t) \/ Delayed(t) \/ Wake(t) \/ Stamp(t) \/ PieceFails(t) \/ NextPiece(t)
      PROVE  UNCHANGED <<Posted, Echoed>>
  <2>1. UNCHANGED <<room, discord, calls>>
    BY <1>4 DEF Prompt, Delayed, Wake, Stamp, PieceFails, NextPiece
  <2> QED BY <2>1, SilentStep
<1>5. CASE EnableDiscord \/ JoinRoom \/ Tick \/ UNCHANGED vars
  <2>1. UNCHANGED <<room, discord, calls>>
    BY <1>5 DEF EnableDiscord, JoinRoom, Tick, vars
  <2> QED BY <2>1, SilentStep
<1> QED BY <1>1, <1>2, <1>3, <1>4, <1>5 DEF Next, Step

LEMMA InitRefines == Init => Implemented!Init
BY DEF Init, Implemented!Init, Posted, Echoed

\* Only the holder of the mutex posts, after it has waited.
LEMMA PostIsSpaced ==
  ASSUME IInv, [Next]_vars, room' # room
  PROVE  age >= throttle
<1>1. PICK t \in Threads : Post(t)
  BY DEF Next, vars, Call, Step, SendMessage, PostDirectly, EnableDiscord, JoinRoom, Tick,
         Prompt, Delayed, Wake, Stamp, PostPiece, PieceFails, NextPiece
<1> QED BY <1>1 DEF Post, IInv, SpacingOK

LEMMA IInvDelivered == IInv => Delivered
<1> SUFFICES ASSUME IInv, NEW id \in DOMAIN calls
             PROVE  /\ Tiled(id)
                    /\ Returned(id) /\ id \notin failed =>
                         IF calls[id].origin = "Discord" THEN Pieces(id) = {} ELSE Whole(id)
  BY DEF Delivered, Tiled
<1> QED BY DEF IInv, ProgressOK, Done

-----------------------------------------------------------------------------
(* How far the holder of the mutex is from giving it back                  *)

\* The pieces of the text a thread is sending.
Count(t) == PieceCount(calls[current[t]].length)

\* A thread sleeps between its throttle and its text, or behind a piece, and
\* the loop does not go beyond its last piece.
WaitOK ==
  \A t \in Threads :
    /\ left[t] > 0 => pc[t] \in {"throttled", "pausing"}
    /\ pc[t] = "pausing" => index[t] <= Count(t)

\* The steps and seconds that a thread has before it, at most: for each piece
\* its post, the second behind it, and the way back into the loop.
Work(t) ==
  CASE pc[t] = "throttled" -> 3 * Count(t) + left[t] + 3
    [] pc[t] = "sending"   -> 3 * Count(t) + 2
    [] pc[t] = "posting"   -> 3 * (Count(t) - index[t]) + 1
    [] pc[t] = "pausing"   -> 3 * (Count(t) - index[t]) + left[t] + 2
    [] pc[t] = "stamping"  -> 1
    [] OTHER -> 0

\* Every step of the thread that has the mutex, and every second that it sleeps,
\* brings it nearer to giving the mutex back, and nothing anybody else does puts
\* it off: no exception, no setting, no call of another thread.
NearerToRelease ==
  \A t \in Threads : holder = t =>
    /\ Work(t) \in Nat
    /\ IF Step(t) \/ (Tick /\ left[t] > 0) THEN Work(t)' < Work(t) ELSE Work(t)' = Work(t)

\* A call that has been made stays what it was.
LEMMA CallsKept ==
  ASSUME IInv, [Next]_vars
  PROVE  \A id \in DOMAIN calls : calls'[id] = calls[id]
<1>1. \A c : calls' = Append(calls, c) => \A id \in DOMAIN calls : calls'[id] = calls[id]
  <2>1. calls \in Seq(Calls) /\ Len(calls) \in Nat /\ DOMAIN calls = 1..Len(calls)
    BY SeqType DEF IInv, TypeOK
  <2> QED BY <2>1
<1>2. calls' = calls \/ \E c : calls' = Append(calls, c)
  BY DEF Next, vars, Call, Step, SendMessage, PostDirectly, EnableDiscord, JoinRoom, Tick,
         Prompt, Delayed, Wake, Post, Stamp, PostPiece, PieceFails, NextPiece
<1> QED BY <1>1, <1>2

\* A thread takes no step of another.
LEMMA OthersWait ==
  ASSUME IInv, NEW t \in Threads, NEW u \in Threads, u # t, Call(u) \/ Step(u)
  PROVE  pc'[t] = pc[t] /\ current'[t] = current[t] /\ index'[t] = index[t] /\ left'[t] = left[t]
<1>1. /\ pc \in [Threads -> {"idle", "entering", "throttled", "sending", "posting", "pausing", "stamping"}]
      /\ current \in [Threads -> 0..MaxCalls] /\ left \in [Threads -> 0..(MaxCalls + 1)]
      /\ index \in [Threads -> Nat]
  BY DEF IInv, TypeOK
<1>2. CASE Call(u)
  BY <1>1, <1>2 DEF Call, SendMessage, PostDirectly
<1>3. CASE Prompt(u) \/ Delayed(u) \/ Wake(u) \/ Post(u) \/ Stamp(u)
  BY <1>1, <1>3 DEF Prompt, Delayed, Wake, Post, Stamp
<1>4. CASE PostPiece(u)
  <2>1. /\ \E s : pc' = [pc EXCEPT ![u] = s]
        /\ current' = current \/ \E s : current' = [current EXCEPT ![u] = s]
        /\ \E s : index' = [index EXCEPT ![u] = s]
        /\ left' = left \/ left' = [left EXCEPT ![u] = 1]
    BY <1>4 DEF PostPiece, PostingEnds
  <2> QED BY <1>1, <2>1
<1>5. CASE PieceFails(u) \/ NextPiece(u)
  BY <1>1, <1>5 DEF PieceFails, NextPiece, PostingEnds
<1> QED BY <1>2, <1>3, <1>4, <1>5 DEF Step

\* As long as nothing happens to a thread, it has as much to do.
LEMMA SameWork ==
  ASSUME IInv, [Next]_vars, NEW t \in Threads,
         pc'[t] = pc[t], current'[t] = current[t], index'[t] = index[t]
  PROVE  /\ pc[t] # "idle" => Count(t)' = Count(t)
         /\ left'[t] = left[t] => Work(t)' = Work(t)
<1>1. pc[t] # "idle" => Count(t)' = Count(t)
  BY CallsKept, CurrentType DEF Count, PieceCount
<1>2. CASE pc[t] = "idle"
  BY <1>1, <1>2 DEF Work
<1>3. CASE pc[t] # "idle"
  BY <1>1, <1>3 DEF Work
<1> QED BY <1>1, <1>2, <1>3

\* The pieces a text still has.
LEMMA CountBounds ==
  ASSUME IInv, WaitOK, NEW t \in Threads, pc[t] # "idle"
  PROVE  /\ Count(t) \in Nat \ {0} /\ index[t] \in Nat /\ left[t] \in Nat
         /\ pc[t] = "posting" => index[t] < Count(t)
         /\ pc[t] = "pausing" => index[t] <= Count(t)
<1>1. Count(t) \in Nat \ {0}
  BY CurrentType, PieceBounds DEF Count
<1>2. index[t] \in Nat /\ left[t] \in Nat
  BY SenderAssumption DEF IInv, TypeOK
<1>3. pc[t] = "posting" => index[t] < Count(t)
  BY <1>1, <1>2 DEF IInv, ProgressOK, Progress, Count
<1> QED BY <1>1, <1>2, <1>3 DEF WaitOK

\* rclientSafeSend returns.
LEMMA ReturnWork ==
  ASSUME IInv, NEW t \in Threads, calls[current[t]].origin # "Direct", PostingEnds(t)
  PROVE  pc'[t] = "stamping" /\ Work(t)' = 1
<1>1. pc'[t] = "stamping"
  BY DEF IInv, TypeOK, PostingEnds
<1> QED BY <1>1 DEF Work

LEMMA StepWork ==
  ASSUME IInv, WaitOK, [Next]_vars, NEW t \in Threads, holder = t, Step(t)
  PROVE  Work(t)' < Work(t)
<1>1. Holds(t) /\ pc[t] \notin {"idle", "entering"} /\ holder # NoThread
  BY SenderAssumption DEF IInv, MutexOK, Holds
<1>2. /\ Count(t) \in Nat \ {0} /\ index[t] \in Nat /\ left[t] \in Nat
      /\ pc[t] = "posting" => index[t] < Count(t)
      /\ pc[t] = "pausing" => index[t] <= Count(t)
  BY <1>1, CountBounds
<1>3. /\ current'[t] = current[t] => Count(t)' = Count(t)
      /\ pc[t] \in {"posting", "pausing"} => calls[current[t]].origin # "Direct"
  BY <1>1, CallsKept, CurrentType DEF Holds, Count, PieceCount
<1>4. CASE Wake(t)
  <2>1. pc[t] = "throttled" /\ left[t] = 0 /\ pc'[t] = "sending" /\ current'[t] = current[t]
    BY <1>4 DEF Wake, IInv, TypeOK
  <2>2. Work(t) = 3 * Count(t) + 3 /\ Work(t)' = 3 * Count(t) + 2
    BY <1>2, <1>3, <2>1 DEF Work
  <2> QED BY <1>2, <2>2
<1>5. CASE Post(t)
  <2>1. pc[t] = "sending" /\ pc'[t] \in {"posting", "stamping"}
        /\ current'[t] = current[t] /\ index'[t] = index[t]
    BY <1>5 DEF Post, IInv, TypeOK
  <2>2. index[t] = 0
    BY <2>1 DEF IInv, ProgressOK, Progress
  <2>3. Work(t) = 3 * Count(t) + 2 /\ Work(t)' \in {3 * Count(t) + 1, 1}
    BY <1>2, <1>3, <2>1, <2>2 DEF Work
  <2> QED BY <1>2, <2>3
<1>6. CASE Stamp(t)
  <2>1. pc[t] = "stamping" /\ pc'[t] = "idle"
    BY <1>6 DEF Stamp, IInv, TypeOK
  <2> QED BY <2>1 DEF Work
<1>7. CASE PieceFails(t)
  <2>1. pc[t] = "posting" /\ Work(t)' = 1
    BY <1>3, <1>7, ReturnWork DEF PieceFails
  <2>2. Work(t) = 3 * (Count(t) - index[t]) + 1
    BY <2>1 DEF Work
  <2> QED BY <1>2, <2>1, <2>2
<1>8. CASE PostPiece(t)
  <2>1. pc[t] = "posting" /\ Work(t) = 3 * (Count(t) - index[t]) + 1
    BY <1>8 DEF PostPiece, Work
  <2>2. CASE PostingEnds(t)
    BY <1>2, <1>3, <2>1, <2>2, ReturnWork
  <2>3. CASE ~PostingEnds(t)
    <3>1. /\ index' = [index EXCEPT ![t] = index[t] + 1]
          /\ pc' = [pc EXCEPT ![t] = "pausing"]
          /\ left' = [left EXCEPT ![t] = 1]
          /\ current' = current
      BY <1>8, <2>3 DEF PostPiece
    <3>2. index'[t] = index[t] + 1 /\ pc'[t] = "pausing" /\ left'[t] = 1 /\ current'[t] = current[t]
      BY <3>1 DEF IInv, TypeOK
    <3>3. Work(t)' = 3 * (Count(t) - (index[t] + 1)) + 1 + 2
      BY <1>3, <3>2 DEF Work
    <3> QED BY <1>2, <2>1, <3>3
  <2> QED BY <2>2, <2>3
<1>9. CASE NextPiece(t)
  <2>1. pc[t] = "pausing" /\ left[t] = 0 /\ Work(t) = 3 * (Count(t) - index[t]) + left[t] + 2
    BY <1>9 DEF NextPiece, Work
  <2>2. CASE PostingEnds(t)
    BY <1>2, <1>3, <2>1, <2>2, ReturnWork
  <2>3. CASE ~PostingEnds(t)
    <3>1. pc'[t] = "posting" /\ current'[t] = current[t] /\ index'[t] = index[t]
      BY <1>9, <2>3 DEF NextPiece, IInv, TypeOK
    <3>2. Work(t)' = 3 * (Count(t) - index[t]) + 1
      BY <1>3, <3>1 DEF Work
    <3> QED BY <1>2, <2>1, <3>2
  <2> QED BY <2>2, <2>3
<1> QED BY <1>1, <1>4, <1>5, <1>6, <1>7, <1>8, <1>9 DEF Step, Prompt, Delayed

\* A second that a thread sleeps.
LEMMA TickWork ==
  ASSUME IInv, WaitOK, [Next]_vars, Tick, NEW t \in Threads
  PROVE  /\ pc'[t] = pc[t] /\ current'[t] = current[t] /\ index'[t] = index[t]
         /\ left'[t] = IF left[t] > 0 THEN left[t] - 1 ELSE left[t]
         /\ left[t] > 0 => Work(t)' < Work(t)
<1>1. left[t] \in Nat
  BY SenderAssumption DEF IInv, TypeOK
<1>2. /\ pc'[t] = pc[t] /\ current'[t] = current[t] /\ index'[t] = index[t]
      /\ left'[t] = IF left[t] > 0 THEN left[t] - 1 ELSE left[t]
  BY <1>1 DEF Tick
<1>3. ASSUME left[t] > 0 PROVE Work(t)' < Work(t)
  <2>1. pc[t] \in {"throttled", "pausing"} /\ left'[t] = left[t] - 1
    BY <1>2, <1>3 DEF WaitOK
  <2>2. Count(t)' = Count(t)
    BY <1>2, <2>1, SameWork
  <2>3. Count(t) \in Nat /\ index[t] \in Nat
    BY <2>1, CountBounds
  <2>4. CASE pc[t] = "throttled"
    <3>1. Work(t) = 3 * Count(t) + left[t] + 3 /\ Work(t)' = 3 * Count(t) + (left[t] - 1) + 3
      BY <1>2, <2>1, <2>2, <2>4 DEF Work
    <3> QED BY <1>1, <2>3, <3>1
  <2>5. CASE pc[t] = "pausing"
    <3>1. /\ Work(t) = 3 * (Count(t) - index[t]) + left[t] + 2
          /\ Work(t)' = 3 * (Count(t) - index[t]) + (left[t] - 1) + 2
      BY <1>2, <2>1, <2>2, <2>5 DEF Work
    <3> QED BY <1>1, <2>3, <3>1
  <2> QED BY <2>1, <2>4, <2>5
<1> QED BY <1>2, <1>3

LEMMA WaitStep ==
  ASSUME IInv, WaitOK, [Next]_vars
  PROVE  WaitOK'
<1> SUFFICES ASSUME NEW t \in Threads
             PROVE  /\ left'[t] > 0 => pc'[t] \in {"throttled", "pausing"}
                    /\ pc'[t] = "pausing" => index'[t] <= Count(t)'
  BY DEF WaitOK
<1> DEFINE Here == /\ left'[t] > 0 => pc'[t] \in {"throttled", "pausing"}
                   /\ pc'[t] = "pausing" => index'[t] <= Count(t)'
<1>1. /\ left[t] > 0 => pc[t] \in {"throttled", "pausing"}
      /\ pc[t] = "pausing" => index[t] <= Count(t)
      /\ left[t] \in Nat
  BY SenderAssumption DEF WaitOK, IInv, TypeOK
<1>2. ASSUME pc'[t] = pc[t], current'[t] = current[t], index'[t] = index[t],
             left'[t] > 0 => left[t] > 0
      PROVE  Here
  BY <1>1, <1>2, SameWork
<1>3. ASSUME NEW u \in Threads, u # t, Call(u) \/ Step(u) PROVE Here
  BY <1>2, <1>3, OthersWait
<1>4. CASE Tick
  <2>1. left'[t] > 0 => left[t] > 0
    BY <1>1, <1>4, TickWork
  <2> QED BY <1>2, <1>4, <2>1, TickWork
<1>5. CASE EnableDiscord \/ JoinRoom \/ UNCHANGED vars
  BY <1>2, <1>5 DEF EnableDiscord, JoinRoom, vars
<1>6. CASE Call(t)
  <2>1. pc[t] = "idle" /\ left'[t] = left[t] /\ pc'[t] # "pausing"
    BY <1>6 DEF Call, SendMessage, PostDirectly, IInv, TypeOK
  <2> QED BY <1>1, <2>1
<1>7. CASE Prompt(t) \/ Delayed(t) \/ Wake(t) \/ Post(t) \/ Stamp(t)
  <2>1. /\ pc'[t] # "pausing"
        /\ \/ left'[t] = left[t] /\ (pc[t] # "throttled" \/ left[t] = 0) /\ pc[t] # "pausing"
           \/ pc'[t] = "throttled"
    BY <1>7 DEF Prompt, Delayed, Wake, Post, Stamp, IInv, TypeOK
  <2> QED BY <1>1, <2>1
<1>8. CASE PieceFails(t) \/ NextPiece(t)
  <2>1. left' = left /\ (pc[t] = "posting" \/ left[t] = 0) /\ pc'[t] # "pausing"
    BY <1>8 DEF PieceFails, NextPiece, PostingEnds, IInv, TypeOK
  <2> QED BY <1>1, <2>1
<1>9. CASE PostPiece(t)
  <2>1. pc[t] = "posting"
    BY <1>9 DEF PostPiece
  <2>2. CASE PostingEnds(t) /\ left' = left
    <3>1. pc'[t] # "pausing"
      BY <2>2 DEF PostingEnds, IInv, TypeOK
    <3> QED BY <1>1, <2>1, <2>2, <3>1
  <2>3. CASE ~(PostingEnds(t) /\ left' = left)
    <3>1. /\ index' = [index EXCEPT ![t] = index[t] + 1]
          /\ pc' = [pc EXCEPT ![t] = "pausing"]
          /\ current' = current
      BY <1>9, <2>3 DEF PostPiece
    <3>2. index'[t] = index[t] + 1 /\ pc'[t] = "pausing" /\ current'[t] = current[t]
      BY <3>1 DEF IInv, TypeOK
    <3>3. Count(t)' = Count(t)
      BY <2>1, <3>2, CallsKept, CurrentType DEF Count, PieceCount
    <3>4. index[t] < Count(t) /\ index[t] \in Nat /\ Count(t) \in Nat
      BY <2>1, CountBounds
    <3> QED BY <3>2, <3>3, <3>4
  <2> QED BY <2>2, <2>3
<1> QED BY <1>3, <1>4, <1>5, <1>6, <1>7, <1>8, <1>9 DEF Next, Step

LEMMA NearerStep ==
  ASSUME IInv, WaitOK, [Next]_vars
  PROVE  NearerToRelease
<1> SUFFICES ASSUME NEW t \in Threads, holder = t
             PROVE  /\ Work(t) \in Nat
                    /\ IF Step(t) \/ (Tick /\ left[t] > 0) THEN Work(t)' < Work(t)
                                                           ELSE Work(t)' = Work(t)
  BY DEF NearerToRelease
<1>1. pc[t] # "idle"
  BY DEF IInv, MutexOK, Holds
<1>2. Work(t) \in Nat
  <2>1. /\ Count(t) \in Nat \ {0} /\ index[t] \in Nat /\ left[t] \in Nat
        /\ pc[t] = "posting" => index[t] < Count(t)
        /\ pc[t] = "pausing" => index[t] <= Count(t)
    BY <1>1, CountBounds
  <2>2. /\ pc[t] = "posting" => 3 * (Count(t) - index[t]) + 1 \in Nat
        /\ pc[t] = "pausing" => 3 * (Count(t) - index[t]) + left[t] + 2 \in Nat
        /\ 3 * Count(t) + left[t] + 3 \in Nat /\ 3 * Count(t) + 2 \in Nat
    BY <2>1
  <2> QED BY <2>2 DEF Work
<1>3. Step(t) => Work(t)' < Work(t)
  BY StepWork
<1>4. Tick /\ left[t] > 0 => Work(t)' < Work(t)
  BY TickWork
<1>5. ASSUME ~Step(t), ~(Tick /\ left[t] > 0) PROVE Work(t)' = Work(t)
  <2>1. CASE Tick
    <3>1. left'[t] = left[t] /\ pc'[t] = pc[t] /\ current'[t] = current[t] /\ index'[t] = index[t]
      BY <1>5, <2>1, TickWork
    <3> QED BY <3>1, SameWork
  <2>2. CASE EnableDiscord \/ JoinRoom \/ UNCHANGED vars
    <3>1. left'[t] = left[t] /\ pc'[t] = pc[t] /\ current'[t] = current[t] /\ index'[t] = index[t]
      BY <2>2 DEF EnableDiscord, JoinRoom, vars
    <3> QED BY <3>1, SameWork
  <2>3. ~Call(t)
    BY <1>1 DEF Call, SendMessage, PostDirectly
  <2>4. ASSUME NEW u \in Threads, u # t, Call(u) \/ Step(u) PROVE Work(t)' = Work(t)
    BY <2>4, OthersWait, SameWork
  <2> QED BY <1>5, <2>1, <2>2, <2>3, <2>4 DEF Next
<1> QED BY <1>2, <1>3, <1>4, <1>5

-----------------------------------------------------------------------------
\* The inductive invariant holds always.
THEOREM Invariance == Spec => []IInv
<1>1. IInv /\ [Next]_vars => IInv'
  BY NextStep
<1> QED BY InitIInv, <1>1, PTL DEF Spec

\* Types; the throttle and the sleeps are bounded by the number of calls.
THEOREM TypeCorrect == Spec => []TypeOK
<1>1. IInv => TypeOK
  BY DEF IInv
<1> QED BY Invariance, <1>1, PTL

\* Both sides of the bridge get the texts of Bot::SendMessage in one order, and
\* the pieces of one are not torn apart by another.
THEOREM SameOrderCorrect == Spec => []SameOrder
<1>1. IInv => SameOrder
  BY DEF IInv
<1> QED BY Invariance, <1>1, PTL

\* Discord::rclientSafeSend posts a text whole, once and in order, whatever its
\* length and that of the pieces, and a beginning of it if a piece is refused.
THEOREM DeliveredCorrect == Spec => []Delivered
BY Invariance, IInvDelivered, PTL

\* A text is posted when the throttle has passed since the last stamp.
THEOREM SpacingCorrect == Spec => Spacing
<1>1. IInv /\ [Next]_vars => [room' # room => age >= throttle]_vars
  BY PostIsSpaced
<1> QED BY Invariance, <1>1, PTL DEF Spec, Spacing

\* Bot::SendMessage implements the broadcast.
THEOREM BroadcastCorrect == Spec => BroadcastSpec
<1>1. IInv /\ IInv' /\ [Next]_vars => [Implemented!Next]_<<Posted, Echoed>>
  BY StepRefines
<1> QED BY Invariance, InitRefines, <1>1, PTL DEF Spec, BroadcastSpec, Implemented!Spec

\* The argument behind LockReleased, which itself is about fairness: the work the
\* holder of _sendMessageMutex has before it is a number that no step of the bot
\* makes larger, and each of its own steps and seconds of sleep smaller.
THEOREM HolderProgresses == Spec => [][NearerToRelease]_vars
<1>1. Init => WaitOK
  BY DEF Init, WaitOK
<1>2. IInv /\ WaitOK /\ [Next]_vars => WaitOK' /\ NearerToRelease
  BY WaitStep, NearerStep
<1> QED BY Invariance, <1>1, <1>2, PTL DEF Spec
=============================================================================
