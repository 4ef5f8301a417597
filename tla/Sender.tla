------------------------------- MODULE Sender -------------------------------
(***************************************************************************)
(* Bot::SendMessage and the way to Discord below it, Discord::SendToDiscord *)
(* and rclientSafeSend, called from the XMPP thread, the gateway thread of *)
(* Discord, the feed updater and the webhook servers at the same time.     *)
(*                                                                         *)
(* Time is counted in seconds, the unit of the throttle, and relative to   *)
(* the stamp _lastMessage: "age" is how long ago that was.  Ages of        *)
(* Horizon or more are not told apart.                                     *)
(***************************************************************************)
EXTENDS Integers, Sequences, FiniteSets

CONSTANTS
  Threads,     \* threads that call SendMessage
  Lengths,     \* lengths of the texts they send
  PieceLimit,  \* 200 in the code: longer texts go to Discord in pieces
  MaxCalls,    \* bound: calls of one behaviour
  Horizon,     \* bound: ages of this many seconds and more are the same
  NoThread

ASSUME SenderAssumption ==
  /\ Lengths \subseteq Nat
  /\ PieceLimit \in Nat \ {0}
  /\ MaxCalls \in Nat
  /\ Horizon \in Nat /\ Horizon > MaxCalls + 1
  /\ NoThread \notin Threads

VARIABLES
  pc,        \* where each thread is in its call
  current,   \* the call of each thread that is under way
  calls,     \* the calls so far: where the text comes from, and its length
  holder,    \* who holds _sendMessageMutex
  throttle,  \* _sendMessageThrottle
  age,       \* now - _lastMessage
  left,      \* what is left of each thread's sleep_for
  index,     \* the piece each thread is at in the loop of rclientSafeSend
  joined,    \* GlooxClient::_room is set
  enabled,   \* Discord::_isEnabled
  room,      \* the texts handed to XMPPClient::SendMessage, in order
  discord,   \* the pieces Discord took, in order
  failed     \* calls whose delivery to Discord was skipped or ended in an exception

vars == <<pc, current, calls, holder, throttle, age, left, index,
          joined, enabled, room, discord, failed>>

\* "Direct" calls go to rclientSafeSend without SendMessage: the mirrored
\* messages of XMPP users, and the replies to !jabber and !discord.
Origins == {"Bot", "Discord", "Direct"}
CallIds == 1..MaxCalls
Calls == [origin : Origins, length : Lengths]
Texts == [call : CallIds, shown : BOOLEAN]
Parts == [call : CallIds, from : Nat, size : Nat]

TypeOK ==
  /\ pc \in [Threads -> {"idle", "entering", "throttled", "sending", "posting", "pausing", "stamping"}]
  /\ current \in [Threads -> 0..MaxCalls]
  /\ calls \in Seq(Calls) /\ Len(calls) <= MaxCalls
  /\ holder \in Threads \cup {NoThread}
  /\ throttle \in 1..(MaxCalls + 1)
  /\ age \in 0..Horizon
  /\ left \in [Threads -> 0..(MaxCalls + 1)]
  /\ index \in [Threads -> Nat]
  /\ joined \in BOOLEAN /\ enabled \in BOOLEAN
  /\ room \in Seq(Texts)
  /\ discord \in Seq(Parts)
  /\ failed \subseteq CallIds

Init ==
  /\ pc = [t \in Threads |-> "idle"]
  /\ current = [t \in Threads |-> 0]
  /\ calls = <<>>
  /\ holder = NoThread
  /\ throttle = 1
  /\ age = 0
  /\ left = [t \in Threads |-> 0]
  /\ index = [t \in Threads |-> 0]
  /\ joined = FALSE
  /\ enabled = FALSE
  /\ room = <<>>
  /\ discord = <<>>
  /\ failed = {}

-----------------------------------------------------------------------------
(* Start-up: Discord::Init enables the bridge, then OnConnect joins.       *)

EnableDiscord ==
  /\ ~enabled /\ ~joined
  /\ enabled' = TRUE
  /\ UNCHANGED <<pc, current, calls, holder, throttle, age, left, index, joined, room, discord, failed>>

JoinRoom ==
  /\ ~joined
  /\ joined' = TRUE
  /\ UNCHANGED <<pc, current, calls, holder, throttle, age, left, index, enabled, room, discord, failed>>

-----------------------------------------------------------------------------
(* Bot::SendMessage                                                        *)

SendMessage(t, origin, length) ==
  /\ pc[t] = "idle"
  /\ Len(calls) < MaxCalls
  /\ calls' = Append(calls, [origin |-> origin, length |-> length])
  /\ IF length = 0
       THEN UNCHANGED <<current, pc>>
       ELSE /\ current' = [current EXCEPT ![t] = Len(calls')]
            /\ pc' = [pc EXCEPT ![t] = "entering"]
  /\ UNCHANGED <<holder, throttle, age, left, index, joined, enabled, room, discord, failed>>

\* A direct call, which takes no lock.
PostDirectly(t, length) ==
  /\ pc[t] = "idle"
  /\ Len(calls) < MaxCalls
  /\ calls' = Append(calls, [origin |-> "Direct", length |-> length])
  /\ IF enabled
       THEN /\ current' = [current EXCEPT ![t] = Len(calls')]
            /\ pc' = [pc EXCEPT ![t] = "posting"]
            /\ UNCHANGED failed
       ELSE /\ failed' = failed \cup {Len(calls')}
            /\ UNCHANGED <<current, pc>>
  /\ UNCHANGED <<holder, throttle, age, left, index, joined, enabled, room, discord>>

\* Faulty variants: no lock; the sleep is computed before the throttle grows.
Prompt_NoLock(t) ==
  /\ pc[t] = "entering"
  /\ age >= throttle
  /\ throttle' = 1
  /\ pc' = [pc EXCEPT ![t] = "sending"]
  /\ UNCHANGED <<current, calls, holder, age, left, index, joined, enabled, room, discord, failed>>

Delayed_SleepsOldThrottle(t) ==
  /\ pc[t] = "entering"
  /\ holder = NoThread
  /\ age < throttle
  /\ holder' = t
  /\ throttle' = throttle + 1
  /\ left' = [left EXCEPT ![t] = throttle - 1]
  /\ pc' = [pc EXCEPT ![t] = "throttled"]
  /\ UNCHANGED <<current, calls, age, index, joined, enabled, room, discord, failed>>

\* The last message is at least throttle seconds old.
Prompt(t) ==
  /\ pc[t] = "entering"
  /\ holder = NoThread
  /\ age >= throttle
  /\ holder' = t
  /\ throttle' = 1
  /\ pc' = [pc EXCEPT ![t] = "sending"]
  /\ UNCHANGED <<current, calls, age, left, index, joined, enabled, room, discord, failed>>

\* It is not: wait, with the lock held, one second longer than the last time.
Delayed(t) ==
  /\ pc[t] = "entering"
  /\ holder = NoThread
  /\ age < throttle
  /\ holder' = t
  /\ throttle' = throttle + 1
  /\ left' = [left EXCEPT ![t] = throttle']
  /\ pc' = [pc EXCEPT ![t] = "throttled"]
  /\ UNCHANGED <<current, calls, age, index, joined, enabled, room, discord, failed>>

Wake(t) ==
  /\ pc[t] = "throttled"
  /\ left[t] = 0
  /\ pc' = [pc EXCEPT ![t] = "sending"]
  /\ UNCHANGED <<current, calls, holder, throttle, age, left, index, joined, enabled, room, discord, failed>>

\* XMPPClient::SendMessage drops the text if there is no room yet; then
\* SendToDiscord is called, unless the text came from there.
Post(t) ==
  LET id == current[t]
      bridged == calls[id].origin # "Discord"
  IN /\ pc[t] = "sending"
     /\ room' = Append(room, [call |-> id, shown |-> joined])
     /\ pc' = [pc EXCEPT ![t] = IF bridged /\ enabled THEN "posting" ELSE "stamping"]
     /\ failed' = IF bridged /\ ~enabled THEN failed \cup {id} ELSE failed
     /\ UNCHANGED <<current, calls, holder, throttle, age, left, index, joined, enabled, discord>>

Stamp(t) ==
  /\ pc[t] = "stamping"
  /\ age' = 0
  /\ holder' = NoThread
  /\ pc' = [pc EXCEPT ![t] = "idle"]
  /\ current' = [current EXCEPT ![t] = 0]
  /\ UNCHANGED <<calls, throttle, left, index, joined, enabled, room, discord, failed>>

-----------------------------------------------------------------------------
(* Discord::rclientSafeSend                                                *)

\* Faulty variant: the loop stops before the rest that fills no whole piece.
PieceCount_DropsRest(length) ==
  IF length < PieceLimit THEN 1 ELSE length \div PieceLimit

\* The loop "for (i = 0; i <= length; i += 200)": a text whose length is a
\* multiple of 200 is followed by an empty piece.
PieceCount(length) ==
  IF length < PieceLimit THEN 1 ELSE length \div PieceLimit + 1

\* text.substr(i, 200)
PieceSize(length, k) ==
  IF length - k * PieceLimit < PieceLimit THEN length - k * PieceLimit ELSE PieceLimit

\* rclientSafeSend returns: to SendMessage, or to the end of a direct call.
PostingEnds(t) ==
  LET direct == calls[current[t]].origin = "Direct"
  IN /\ pc' = [pc EXCEPT ![t] = IF direct THEN "idle" ELSE "stamping"]
     /\ current' = [current EXCEPT ![t] = IF direct THEN 0 ELSE @]
     /\ index' = [index EXCEPT ![t] = 0]

\* sendTextMessage: Discord refuses an empty text.
PostPiece(t) ==
  LET length == calls[current[t]].length
      size == PieceSize(length, index[t])
  IN /\ pc[t] = "posting"
     /\ size > 0
     /\ discord' = Append(discord, [call |-> current[t], from |-> index[t] * PieceLimit, size |-> size])
     /\ IF length < PieceLimit
          THEN PostingEnds(t) /\ UNCHANGED left
          ELSE /\ index' = [index EXCEPT ![t] = @ + 1]
               /\ pc' = [pc EXCEPT ![t] = "pausing"]
               /\ left' = [left EXCEPT ![t] = 1]
               /\ UNCHANGED current
     /\ UNCHANGED <<calls, holder, throttle, age, joined, enabled, room, failed>>

\* Faulty variant: a piece that fails is tried again.
PieceFails_Retries(t) ==
  /\ pc[t] = "posting"
  /\ failed' = failed \cup {current[t]}
  /\ UNCHANGED <<pc, current, calls, holder, throttle, age, left, index, joined, enabled, room, discord>>

\* It throws: the exception is logged and the rest is given up.
PieceFails(t) ==
  /\ pc[t] = "posting"
  /\ failed' = failed \cup {current[t]}
  /\ PostingEnds(t)
  /\ UNCHANGED <<calls, holder, throttle, age, left, joined, enabled, room, discord>>

\* The pause of one second after every piece, the last one included.
NextPiece(t) ==
  /\ pc[t] = "pausing"
  /\ left[t] = 0
  /\ IF index[t] < PieceCount(calls[current[t]].length)
       THEN pc' = [pc EXCEPT ![t] = "posting"] /\ UNCHANGED <<current, index>>
       ELSE PostingEnds(t)
  /\ UNCHANGED <<calls, holder, throttle, age, left, joined, enabled, room, discord, failed>>

-----------------------------------------------------------------------------
Tick ==
  /\ age' = IF age < Horizon THEN age + 1 ELSE Horizon
  /\ left' = [t \in Threads |-> IF left[t] > 0 THEN left[t] - 1 ELSE 0]
  /\ UNCHANGED <<pc, current, calls, holder, throttle, index, joined, enabled, room, discord, failed>>

Step(t) ==
  \/ Prompt(t) \/ Delayed(t) \/ Wake(t) \/ Post(t) \/ Stamp(t)
  \/ PostPiece(t) \/ PieceFails(t) \/ NextPiece(t)

Call(t) ==
  \E length \in Lengths :
    \/ PostDirectly(t, length)
    \/ \E origin \in {"Bot", "Discord"} : SendMessage(t, origin, length)

Next ==
  \/ EnableDiscord \/ JoinRoom \/ Tick
  \/ \E t \in Threads : Call(t) \/ Step(t)

Spec == Init /\ [][Next]_vars

\* Time passes, and a thread that can go on does.  Nothing is assumed of who
\* gets the mutex next: std::mutex promises no fairness.
Fairness == WF_vars(Tick) /\ \A t \in Threads : WF_vars(holder = t /\ Step(t))

FairSpec == Spec /\ Fairness

-----------------------------------------------------------------------------
(* Properties                                                              *)

\* Messages to the room keep the distance the throttle asks for: when one is
\* posted, _sendMessageThrottle seconds have passed since the one before was
\* stamped, whichever threads the two came from.
Spacing == [][room' # room => age >= throttle]_vars

\* The positions of a call's pieces in Discord.
Pieces(id) == {k \in DOMAIN discord : discord[k].call = id}
Returned(id) == \A t \in Threads : current[t] # id

\* Both sides of the bridge see the bot's messages in the same order, and no
\* piece of one falls between two pieces of another.
SameOrder ==
  \A i, j \in DOMAIN room : i < j =>
    \A k \in Pieces(room[i].call), l \in Pieces(room[j].call) : k < l

\* Where a piece ends in the text of its call, and the letters it has of it.
End(k) == discord[k].from + discord[k].size
Covers(k, letter) == discord[k].from <= letter /\ letter < End(k)

\* Every letter of the text is in Discord.
Whole(id) == \A letter \in 0..(calls[id].length - 1) : \E k \in Pieces(id) : Covers(k, letter)

\* A text that comes back from SendMessage has reached Discord whole and once,
\* piece by piece in order, unless it came from there or the failure was
\* logged; whatever happens, what is there is a beginning of it.
Delivered ==
  \A id \in DOMAIN calls :
    /\ \A k \in Pieces(id) : End(k) <= calls[id].length
    /\ \A k, l \in Pieces(id) : k < l => End(k) <= discord[l].from
    /\ \A k \in Pieces(id) : \A letter \in 0..(discord[k].from - 1) :
         \E l \in Pieces(id) : l < k /\ Covers(l, letter)
    /\ Returned(id) /\ id \notin failed =>
         IF calls[id].origin = "Discord" THEN Pieces(id) = {} ELSE Whole(id)

\* The mutex is always given back: no sequence of sleeps, pieces and failed
\* REST calls keeps it for ever.
LockReleased == \A t \in Threads : (holder = t) ~> (holder # t)

\* Bot::SendMessage is a broadcast: see Broadcast.
Posted == [k \in DOMAIN room |-> room[k].call]
Echoed == {id \in DOMAIN calls : calls[id].origin # "Direct" /\ Pieces(id) # {}}
Implemented == INSTANCE Broadcast WITH Messages <- CallIds, posted <- Posted, echoed <- Echoed
BroadcastSpec == Implemented!Spec
=============================================================================
