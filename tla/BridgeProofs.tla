---------------------------- MODULE BridgeProofs ----------------------------
(***************************************************************************)
(* The safety properties of Bridge, for any list of handlers with at most  *)
(* one for Discord, and any number of messages and restarts: proofs that   *)
(* TLAPS checks.                                                           *)
(*                                                                         *)
(* Whether a post is new cannot be told from the two logs.  IInv says how  *)
(* the queues and the jobs lie between them: the messages of a side are    *)
(* handled in the order in which they were written, nothing that still     *)
(* waits has been mirrored or answered, and the message that is being      *)
(* handled has not been answered, and not been mirrored before the place   *)
(* in the list of handlers where that is done.                             *)
(*                                                                         *)
(* And the bot comes nearer to rest with each of its steps (NearerToRest), *)
(* which is what ComesToRest takes besides fairness.                       *)
(***************************************************************************)
EXTENDS Bridge, TLAPS, FiniteSetTheorems

\* Who writes what on which side.
RoomPost(post) ==
  /\ post.id \in DOMAIN said
  /\ post.by # "bot" => post.kind = "said"
  /\ post.kind = "said" => said[post.id].side = "room"
  /\ post.kind = "mirror" => said[post.id].side = "discord"

DiscordPost(post) ==
  /\ post.id \in DOMAIN said
  /\ IsUsers(post) => post.kind = "said"
  /\ post.kind = "said" => said[post.id].side = "discord"
  /\ post.kind = "mirror" => said[post.id].side = "room"

StanzaPosts == {stanzas[k].post : k \in DOMAIN stanzas}

PostsOK ==
  /\ \A post \in Range(room) \cup StanzaPosts : RoomPost(post)
  /\ \A post \in Range(discord) \cup Range(events) : DiscordPost(post)

\* The messages that wait to be handled, oldest first.
Awaiting(side) ==
  IF side = "room" THEN {stanzas[k].post.id : k \in {l \in DOMAIN stanzas : IsNews(stanzas[l])}}
                   ELSE {events[k].id : k \in {l \in DOMAIN events : IsUsers(events[l])}}

RoomQueueInOrder ==
  \A k, l \in DOMAIN stanzas :
    k < l /\ IsNews(stanzas[k]) /\ IsNews(stanzas[l]) => stanzas[k].post.id < stanzas[l].post.id

DiscordQueueInOrder ==
  \A k, l \in DOMAIN events :
    k < l /\ IsUsers(events[k]) /\ IsUsers(events[l]) => events[k].id < events[l].id

\* A message is handled by the thread of its side, before those that wait.
JobsOK ==
  \A s \in Sides : job[s] # Idle =>
    /\ job[s].id \in DOMAIN said /\ said[job[s].id].side = s
    /\ s = "room" => job[s].at # 0
    /\ \A id \in Awaiting(s) : job[s].id < id

\* The place where the message is mirrored is still to come.
Unmirrored(s, task) ==
  IF s = "discord" THEN task.at = 0
  ELSE IF said[task.id].kind = "own" THEN task.at = 1
  ELSE \E k \in DOMAIN Handlers : Handlers[k] = "discord" /\ task.at <= k

\* Of the messages of a side, what was mirrored or answered comes before what
\* waits or is being handled.
DoneInTurn(post) ==
  LET s == said[post.id].side
  IN /\ \A id \in Awaiting(s) : post.id < id
     /\ job[s] # Idle =>
          /\ post.id <= job[s].id
          /\ post.id = job[s].id => post.kind = "mirror" /\ ~Unmirrored(s, job[s])

NotYetDone ==
  \A post \in Range(room) \cup Range(discord) : post.kind # "said" => DoneInTurn(post)

\* InOrder of one log, and that nothing is answered twice there.
LogInOrder(log) ==
  \A i, j \in DOMAIN log : i < j =>
    /\ ~(log[i].kind = "reply" /\ log[i].id = log[j].id)
    /\ log[i].kind = "mirror" /\ log[j].kind = "mirror" => log[i].id < log[j].id

LogsInOrder == LogInOrder(room) /\ LogInOrder(discord)

IInv ==
  /\ TypeOK
  /\ PostsOK
  /\ RoomQueueInOrder
  /\ DiscordQueueInOrder
  /\ JobsOK
  /\ NotYetDone
  /\ LogsInOrder

\* If Discord comes first among the handlers, whatever is answered has passed it.
DiscordFirst == Handlers # <<>> /\ Handlers[1] = "discord"


Shown(id) == id \in lost \/ \E post \in Range(discord) : post.id = id /\ post.kind = "mirror"

Followed == job["room"] # Idle /\ job["room"].at >= 2 => Shown(job["room"].id)

AnswersFollow ==
  \A post \in Range(discord) :
    post.kind = "reply" /\ said[post.id].side = "room" => Shown(post.id)

-----------------------------------------------------------------------------
(* Types, logs and queues                                                  *)

LEMMA PostType ==
  /\ \A p \in Post : /\ p.id \in Nat /\ p.id \in Ids
                     /\ p.kind \in {"said", "mirror", "reply"}
                     /\ p.by \in {"user", "bot", "webhook"}
  /\ \A st \in Stanza : st.post \in Post /\ st.history \in BOOLEAN
BY BridgeAssumption DEF Post, Stanza, Ids

LEMMA JobType ==
  \A task \in Jobs : task.id \in Nat /\ task.at \in Nat /\ task # Idle
BY BridgeAssumption DEF Jobs, Ids, Idle

LEMMA Appended ==
  ASSUME NEW S, NEW log \in Seq(S), NEW e \in S
  PROVE  /\ Append(log, e) \in Seq(S)
         /\ Len(log) \in Nat /\ DOMAIN log = 1..Len(log)
         /\ DOMAIN Append(log, e) = DOMAIN log \cup {Len(log) + 1}
         /\ Append(log, e)[Len(log) + 1] = e
         /\ \A k \in DOMAIN log : Append(log, e)[k] = log[k] /\ k < Len(log) + 1 /\ k \in Nat
         /\ Range(Append(log, e)) = Range(log) \cup {e}
<1>1. /\ Append(log, e) \in Seq(S)
      /\ Len(log) \in Nat /\ DOMAIN log = 1..Len(log)
      /\ Len(Append(log, e)) = Len(log) + 1
      /\ Append(log, e)[Len(log) + 1] = e
      /\ \A k \in 1..Len(log) : Append(log, e)[k] = log[k]
  OBVIOUS
<1>2. DOMAIN Append(log, e) = 1..(Len(log) + 1)
  BY <1>1
<1>3. 1..(Len(log) + 1) = 1..Len(log) \cup {Len(log) + 1} /\ \A k \in 1..Len(log) : k < Len(log) + 1
  BY <1>1
<1>4. Range(Append(log, e)) = Range(log) \cup {e}
  BY <1>1, <1>2, <1>3 DEF Range
<1> QED BY <1>1, <1>2, <1>3, <1>4

LEMMA TailOf ==
  ASSUME NEW S, NEW log \in Seq(S), log # <<>>
  PROVE  /\ Tail(log) \in Seq(S) /\ Head(log) \in S /\ 1 \in DOMAIN log /\ Head(log) = log[1]
         /\ \A k \in DOMAIN Tail(log) :
              k \in Nat /\ k + 1 \in DOMAIN log /\ Tail(log)[k] = log[k + 1] /\ 1 < k + 1
<1>1. /\ Len(log) \in Nat \ {0} /\ DOMAIN log = 1..Len(log) /\ Head(log) = log[1]
      /\ Tail(log) \in Seq(S) /\ DOMAIN Tail(log) = 1..(Len(log) - 1)
      /\ \A k \in 1..(Len(log) - 1) : Tail(log)[k] = log[k + 1]
  OBVIOUS
<1>2. \A k \in 1..(Len(log) - 1) : k + 1 \in 1..Len(log) /\ 1 < k + 1
  BY <1>1
<1> QED BY <1>1, <1>2

\* A log stays in order when a post comes that was not answered before, and, if
\* it is a mirrored one, follows those mirrored before.
LEMMA LogAppend ==
  ASSUME NEW log \in Seq(Post), NEW post \in Post, LogInOrder(log),
         \A p \in Range(log) :
           /\ p.kind = "reply" => p.id # post.id
           /\ p.kind = "mirror" /\ post.kind = "mirror" => p.id < post.id
  PROVE  LogInOrder(Append(log, post))
<1> DEFINE new == Append(log, post)
<1>1. /\ DOMAIN new = DOMAIN log \cup {Len(log) + 1} /\ new[Len(log) + 1] = post
      /\ \A k \in DOMAIN log : new[k] = log[k] /\ k < Len(log) + 1 /\ k \in Nat
      /\ Len(log) \in Nat
  BY Appended
<1>2. \A k \in DOMAIN log : log[k] \in Range(log)
  BY DEF Range
<1> HIDE DEF new
<1> SUFFICES ASSUME NEW i \in DOMAIN new, NEW j \in DOMAIN new, i < j
             PROVE  /\ ~(new[i].kind = "reply" /\ new[i].id = new[j].id)
                    /\ new[i].kind = "mirror" /\ new[j].kind = "mirror" => new[i].id < new[j].id
  BY DEF LogInOrder, new
<1>3. i \in DOMAIN log
  BY <1>1
<1>4. CASE j \in DOMAIN log
  BY <1>1, <1>3, <1>4 DEF LogInOrder
<1>5. CASE j = Len(log) + 1
  BY <1>1, <1>2, <1>3, <1>5
<1> QED BY <1>1, <1>4, <1>5

\* What a post in the room does to the log and to the queue of stanzas.
LEMMA RoomAppend ==
  ASSUME TypeOK, RoomQueueInOrder, LogInOrder(room),
         NEW post \in Post, PostInRoom(post),
         post.by = "bot" \/ \A id \in Awaiting("room") : id < post.id,
         \A p \in Range(room) :
           /\ p.kind = "reply" => p.id # post.id
           /\ p.kind = "mirror" /\ post.kind = "mirror" => p.id < post.id
  PROVE  /\ room' \in Seq(Post) /\ stanzas' \in Seq(Stanza)
         /\ Range(room') = Range(room) \cup {post}
         /\ StanzaPosts' \subseteq StanzaPosts \cup {post}
         /\ LogInOrder(room') /\ RoomQueueInOrder'
         /\ Awaiting("room")' \subseteq
              Awaiting("room") \cup (IF post.by = "bot" THEN {} ELSE {post.id})
<1>1. /\ room \in Seq(Post) /\ stanzas \in Seq(Stanza)
      /\ room' = Append(room, post)
  BY DEF TypeOK, PostInRoom
<1>2. room' \in Seq(Post) /\ Range(room') = Range(room) \cup {post} /\ LogInOrder(room')
  BY <1>1, Appended, LogAppend
<1>3. CASE phase # "joined"
  <2>1. stanzas' = stanzas
    BY <1>3 DEF PostInRoom
  <2> QED BY <1>1, <1>2, <2>1 DEF StanzaPosts, RoomQueueInOrder, Awaiting, IsNews
<1>4. CASE phase = "joined"
  <2>1. PICK st : st = [post |-> post, history |-> FALSE]
    OBVIOUS
  <2>2. st \in Stanza /\ st.post = post
    BY <2>1 DEF Stanza
  <2>3. stanzas' = Append(stanzas, st)
    BY <1>4, <2>1 DEF PostInRoom
  <2>4. /\ stanzas' \in Seq(Stanza) /\ DOMAIN stanzas' = DOMAIN stanzas \cup {Len(stanzas) + 1}
        /\ stanzas'[Len(stanzas) + 1] = st /\ Len(stanzas) \in Nat
        /\ \A k \in DOMAIN stanzas : stanzas'[k] = stanzas[k] /\ k < Len(stanzas) + 1 /\ k \in Nat
    BY <1>1, <2>2, <2>3, Appended
  <2>5. StanzaPosts' \subseteq StanzaPosts \cup {post}
    BY <2>2, <2>4 DEF StanzaPosts
  <2>6. IsNews(st) => post.by # "bot"
    BY <2>2 DEF IsNews
  <2>7. \A k \in DOMAIN stanzas : IsNews(stanzas[k]) => stanzas[k].post.id \in Awaiting("room")
    BY DEF Awaiting
  <2>8. RoomQueueInOrder'
    <3> SUFFICES ASSUME NEW k \in DOMAIN stanzas', NEW l \in DOMAIN stanzas', k < l,
                        IsNews(stanzas'[k]), IsNews(stanzas'[l])
                 PROVE  stanzas'[k].post.id < stanzas'[l].post.id
      BY DEF RoomQueueInOrder, IsNews
    <3>1. k \in DOMAIN stanzas
      BY <2>4
    <3>2. CASE l \in DOMAIN stanzas
      BY <2>4, <3>1, <3>2 DEF RoomQueueInOrder
    <3>3. CASE l = Len(stanzas) + 1
      BY <2>2, <2>4, <2>6, <2>7, <3>1, <3>3
    <3> QED BY <2>4, <3>2, <3>3
  <2>9. \A id \in Awaiting("room")' : \E k \in DOMAIN stanzas' :
          IsNews(stanzas'[k]) /\ id = stanzas'[k].post.id
    BY DEF Awaiting, IsNews
  <2>10. ASSUME NEW id \in Awaiting("room")'
         PROVE  id \in Awaiting("room") \/ (id = post.id /\ post.by # "bot")
    <3>1. PICK k \in DOMAIN stanzas' : IsNews(stanzas'[k]) /\ id = stanzas'[k].post.id
      BY <2>9
    <3> QED BY <2>2, <2>4, <2>6, <2>7, <3>1
  <2> QED BY <1>2, <2>4, <2>5, <2>8, <2>10
<1> QED BY <1>3, <1>4

\* The same of a post on Discord and the events.
LEMMA DiscordAppend ==
  ASSUME TypeOK, DiscordQueueInOrder, LogInOrder(discord),
         NEW post \in Post, PostOnDiscord(post),
         ~IsUsers(post) \/ \A id \in Awaiting("discord") : id < post.id,
         \A p \in Range(discord) :
           /\ p.kind = "reply" => p.id # post.id
           /\ p.kind = "mirror" /\ post.kind = "mirror" => p.id < post.id
  PROVE  /\ discord' \in Seq(Post) /\ events' \in Seq(Post)
         /\ Range(discord') = Range(discord) \cup {post}
         /\ Range(events') \subseteq Range(events) \cup {post}
         /\ LogInOrder(discord') /\ DiscordQueueInOrder'
         /\ Awaiting("discord")' \subseteq
              Awaiting("discord") \cup (IF IsUsers(post) THEN {post.id} ELSE {})
<1>1. /\ discord \in Seq(Post) /\ events \in Seq(Post)
      /\ discord' = Append(discord, post)
  BY DEF TypeOK, PostOnDiscord
<1>2. discord' \in Seq(Post) /\ Range(discord') = Range(discord) \cup {post} /\ LogInOrder(discord')
  BY <1>1, Appended, LogAppend
<1>3. CASE phase = "down"
  <2>1. events' = events
    BY <1>3 DEF PostOnDiscord
  <2> QED BY <1>1, <1>2, <2>1 DEF DiscordQueueInOrder, Awaiting, IsUsers
<1>4. CASE phase # "down"
  <2>1. events' = Append(events, post)
    BY <1>4 DEF PostOnDiscord
  <2>2. /\ events' \in Seq(Post) /\ DOMAIN events' = DOMAIN events \cup {Len(events) + 1}
        /\ events'[Len(events) + 1] = post /\ Len(events) \in Nat
        /\ \A k \in DOMAIN events : events'[k] = events[k] /\ k < Len(events) + 1 /\ k \in Nat
        /\ Range(events') = Range(events) \cup {post}
    BY <1>1, <2>1, Appended
  <2>3. \A k \in DOMAIN events : IsUsers(events[k]) => events[k].id \in Awaiting("discord")
    BY DEF Awaiting
  <2>4. DiscordQueueInOrder'
    <3> SUFFICES ASSUME NEW k \in DOMAIN events', NEW l \in DOMAIN events', k < l,
                        IsUsers(events'[k]), IsUsers(events'[l])
                 PROVE  events'[k].id < events'[l].id
      BY DEF DiscordQueueInOrder, IsUsers
    <3>1. k \in DOMAIN events
      BY <2>2
    <3>2. CASE l \in DOMAIN events
      BY <2>2, <3>1, <3>2 DEF DiscordQueueInOrder
    <3>3. CASE l = Len(events) + 1
      BY <2>2, <2>3, <3>1, <3>3
    <3> QED BY <2>2, <3>2, <3>3
  <2>5. \A id \in Awaiting("discord")' : \E k \in DOMAIN events' :
          IsUsers(events'[k]) /\ id = events'[k].id
    BY DEF Awaiting, IsUsers
  <2>6. ASSUME NEW id \in Awaiting("discord")'
        PROVE  id \in Awaiting("discord") \/ (id = post.id /\ IsUsers(post))
    <3>1. PICK k \in DOMAIN events' : IsUsers(events'[k]) /\ id = events'[k].id
      BY <2>5
    <3> QED BY <2>2, <2>3, <3>1
  <2> QED BY <1>2, <2>2, <2>4, <2>6
<1> QED BY <1>3, <1>4

LEMMA SameStanzas ==
  ASSUME UNCHANGED stanzas
  PROVE  /\ Awaiting("room")' = Awaiting("room") /\ StanzaPosts' = StanzaPosts
         /\ RoomQueueInOrder' <=> RoomQueueInOrder
BY DEF Awaiting, IsNews, StanzaPosts, RoomQueueInOrder

LEMMA SameEvents ==
  ASSUME UNCHANGED events
  PROVE  /\ Awaiting("discord")' = Awaiting("discord")
         /\ DiscordQueueInOrder' <=> DiscordQueueInOrder
BY DEF Awaiting, IsUsers, DiscordQueueInOrder

-----------------------------------------------------------------------------
(* What IInv says of the messages on their way                             *)

LEMMA AwaitingIsSaid ==
  ASSUME IInv, NEW s \in Sides, NEW id \in Awaiting(s)
  PROVE  id \in DOMAIN said /\ said[id].side = s
<1>1. CASE s = "room"
  <2>1. PICK k \in DOMAIN stanzas : IsNews(stanzas[k]) /\ id = stanzas[k].post.id
    BY <1>1 DEF Awaiting
  <2>2. stanzas[k].post \in StanzaPosts /\ stanzas[k].post.by # "bot"
    BY <2>1 DEF StanzaPosts, IsNews
  <2> QED BY <1>1, <2>1, <2>2 DEF IInv, PostsOK, RoomPost
<1>2. CASE s = "discord"
  <2>1. PICK k \in DOMAIN events : IsUsers(events[k]) /\ id = events[k].id
    BY <1>2 DEF Awaiting
  <2>2. events[k] \in Range(events)
    BY <2>1 DEF Range
  <2> QED BY <1>2, <2>1, <2>2 DEF IInv, PostsOK, DiscordPost
<1> QED BY <1>1, <1>2 DEF Sides

LEMMA PostedIsSaid ==
  ASSUME IInv, NEW p \in Range(room) \cup Range(discord)
  PROVE  /\ p.id \in DOMAIN said /\ p.id \in Nat /\ said[p.id].side \in Sides
         /\ p \in Range(room) /\ p.kind = "mirror" => said[p.id].side = "discord"
         /\ p \in Range(discord) /\ p.kind = "mirror" => said[p.id].side = "room"
<1>1. p.id \in DOMAIN said
  BY DEF IInv, PostsOK, RoomPost, DiscordPost
<1>2. said \in Seq(Message)
  BY DEF IInv, TypeOK
<1>3. DOMAIN said = 1..Len(said) /\ Len(said) \in Nat /\ said[p.id] \in Message
  BY <1>1, <1>2
<1>4. p.id \in Nat /\ said[p.id].side \in Sides
  BY <1>1, <1>3 DEF Message
<1> QED BY <1>1, <1>4 DEF IInv, PostsOK, RoomPost, DiscordPost

\* Nothing was made of a message before its turn.
LEMMA Untouched ==
  ASSUME IInv, NEW s \in Sides, job[s] # Idle, NEW p \in Range(room) \cup Range(discord),
         p.kind # "said", p.id = job[s].id
  PROVE  p.kind = "mirror" /\ ~Unmirrored(s, job[s])
BY DEF IInv, JobsOK, NotYetDone, DoneInTurn

LEMMA EarlierPosts ==
  ASSUME IInv, NEW s \in Sides, job[s] # Idle, NEW p \in Range(room) \cup Range(discord),
         p.kind # "said", said[p.id].side = s
  PROVE  p.id <= job[s].id
BY DEF IInv, NotYetDone, DoneInTurn

LEMMA JobFacts ==
  ASSUME IInv, NEW s \in Sides, job[s] # Idle
  PROVE  /\ job[s] \in Jobs /\ job[s].id \in Nat /\ job[s].at \in Nat
         /\ job[s].id \in DOMAIN said /\ said[job[s].id].side = s
         /\ job[s].id \in Ids
BY JobType DEF IInv, TypeOK, JobsOK, Jobs

-----------------------------------------------------------------------------
\* Somebody writes: the message is newer than everything else.
LEMMA SayStep ==
  ASSUME IInv, NEW message \in Message, Say(message)
  PROVE  IInv'
<1>1. /\ said \in Seq(Message) /\ Len(said) < MaxSaid /\ said' = Append(said, message)
      /\ UNCHANGED <<webhook, phase, job, lost, stops>>
  BY DEF Say, IInv, TypeOK
<1>2. PICK n : n = Len(said) + 1
  OBVIOUS
<1>3. /\ said' \in Seq(Message) /\ n \in Ids /\ n \in Nat /\ Len(said') <= MaxSaid
      /\ DOMAIN said' = DOMAIN said \cup {n} /\ said'[n] = message
      /\ \A id \in DOMAIN said : said'[id] = said[id] /\ id < n /\ id \in Nat
  <2>1. Len(said) \in Nat /\ Len(said') = Len(said) + 1
    BY <1>1
  <2> QED BY <1>1, <1>2, <2>1, Appended, BridgeAssumption DEF Ids
<1>4. PICK post : post = [id |-> Len(said) + 1, kind |-> "said", by |-> "user"]
  OBVIOUS
<1>5. post \in Post /\ post.id = n /\ post.kind = "said" /\ post.by = "user" /\ IsUsers(post)
  BY <1>2, <1>3, <1>4 DEF Post, IsUsers
<1>6. \A p \in Range(room) \cup Range(discord) : p.id \in DOMAIN said /\ p.id < n /\ p.id # n
  BY <1>3, PostedIsSaid
<1>7. \A s \in Sides : \A id \in Awaiting(s) : id < n
  BY <1>3, AwaitingIsSaid
<1>8. /\ room' \in Seq(Post) /\ discord' \in Seq(Post)
      /\ stanzas' \in Seq(Stanza) /\ events' \in Seq(Post)
      /\ LogsInOrder' /\ RoomQueueInOrder' /\ DiscordQueueInOrder'
      /\ \A p \in Range(room') \cup StanzaPosts' :
           p \in Range(room) \cup StanzaPosts \/ (p = post /\ message.side = "room")
      /\ \A p \in Range(discord') \cup Range(events') :
           p \in Range(discord) \cup Range(events) \/ (p = post /\ message.side = "discord")
      /\ Range(room') \subseteq Range(room) \cup {post}
      /\ Range(discord') \subseteq Range(discord) \cup {post}
      /\ \A s \in Sides : Awaiting(s)' \subseteq Awaiting(s) \cup {n}
  <2>1. CASE message.side = "room"
    <3>1. PostInRoom(post) /\ UNCHANGED <<discord, events>>
      BY <1>4, <2>1 DEF Say
    <3>2. /\ room' \in Seq(Post) /\ stanzas' \in Seq(Stanza)
          /\ Range(room') = Range(room) \cup {post}
          /\ StanzaPosts' \subseteq StanzaPosts \cup {post}
          /\ LogInOrder(room') /\ RoomQueueInOrder'
          /\ Awaiting("room")' \subseteq Awaiting("room") \cup {n}
      BY <1>5, <1>6, <1>7, <3>1, RoomAppend DEF IInv, LogsInOrder, Sides
    <3>3. Awaiting("discord")' = Awaiting("discord") /\ DiscordQueueInOrder'
      BY <3>1, SameEvents DEF IInv
    <3>4. discord' \in Seq(Post) /\ events' \in Seq(Post) /\ LogsInOrder'
      BY <3>1, <3>2 DEF IInv, TypeOK, LogsInOrder, LogInOrder
    <3>5. \A s \in Sides : Awaiting(s)' \subseteq Awaiting(s) \cup {n}
      BY <3>2, <3>3 DEF Sides
    <3> QED BY <2>1, <3>1, <3>2, <3>3, <3>4, <3>5
  <2>2. CASE message.side = "discord"
    <3>1. PostOnDiscord(post) /\ UNCHANGED <<room, stanzas>>
      BY <1>4, <2>2 DEF Say
    <3>2. /\ discord' \in Seq(Post) /\ events' \in Seq(Post)
          /\ Range(discord') = Range(discord) \cup {post}
          /\ Range(events') \subseteq Range(events) \cup {post}
          /\ LogInOrder(discord') /\ DiscordQueueInOrder'
          /\ Awaiting("discord")' \subseteq Awaiting("discord") \cup {n}
      BY <1>5, <1>6, <1>7, <3>1, DiscordAppend DEF IInv, LogsInOrder, Sides
    <3>3. Awaiting("room")' = Awaiting("room") /\ RoomQueueInOrder' /\ StanzaPosts' = StanzaPosts
      BY <3>1, SameStanzas DEF IInv
    <3>4. room' \in Seq(Post) /\ stanzas' \in Seq(Stanza) /\ LogsInOrder'
      BY <3>1, <3>2 DEF IInv, TypeOK, LogsInOrder, LogInOrder
    <3>5. \A s \in Sides : Awaiting(s)' \subseteq Awaiting(s) \cup {n}
      BY <3>2, <3>3 DEF Sides
    <3> QED BY <2>2, <3>1, <3>2, <3>3, <3>4, <3>5
  <2>3. message.side \in Sides
    BY DEF Message
  <2> QED BY <2>1, <2>2, <2>3 DEF Sides
<1>9. TypeOK'
  BY <1>1, <1>3, <1>8 DEF IInv, TypeOK
<1>10. PostsOK'
  <2>1. ASSUME NEW p \in Range(room') \cup StanzaPosts'
        PROVE  RoomPost(p)'
    BY <1>3, <1>5, <1>8, <2>1 DEF IInv, PostsOK, RoomPost
  <2>2. ASSUME NEW p \in Range(discord') \cup Range(events')
        PROVE  DiscordPost(p)'
    BY <1>3, <1>5, <1>8, <2>2 DEF IInv, PostsOK, DiscordPost, IsUsers
  <2> QED BY <2>1, <2>2 DEF PostsOK
<1>11. JobsOK'
  <2> SUFFICES ASSUME NEW s \in Sides, job[s] # Idle
               PROVE  /\ job[s].id \in DOMAIN said' /\ said'[job[s].id].side = s
                      /\ s = "room" => job[s].at # 0
                      /\ \A id \in Awaiting(s)' : job[s].id < id
    BY <1>1 DEF JobsOK
  <2>1. /\ job[s].id \in DOMAIN said /\ said[job[s].id].side = s
        /\ s = "room" => job[s].at # 0
        /\ \A id \in Awaiting(s) : job[s].id < id
    BY DEF IInv, JobsOK
  <2> QED BY <1>3, <1>8, <2>1
<1>12. NotYetDone'
  <2> SUFFICES ASSUME NEW p \in Range(room') \cup Range(discord'), p.kind # "said"
               PROVE  DoneInTurn(p)'
    BY DEF NotYetDone
  <2>1. p \in Range(room) \cup Range(discord)
    BY <1>5, <1>8
  <2>2. p.id \in DOMAIN said /\ said[p.id].side \in Sides /\ said'[p.id] = said[p.id] /\ p.id < n
    BY <1>3, <1>6, <2>1, PostedIsSaid
  <2>3. PICK s \in Sides : s = said[p.id].side
    BY <2>2
  <2>4. /\ \A id \in Awaiting(s) : p.id < id
        /\ job[s] # Idle =>
             /\ p.id <= job[s].id
             /\ p.id = job[s].id => p.kind = "mirror" /\ ~Unmirrored(s, job[s])
    BY <2>1, <2>3 DEF IInv, NotYetDone, DoneInTurn
  <2>5. \A id \in Awaiting(s)' : p.id < id
    BY <1>8, <2>2, <2>4
  <2>6. job[s] # Idle => (Unmirrored(s, job[s])' <=> Unmirrored(s, job[s]))
    BY <1>1, <1>3, JobFacts DEF Unmirrored
  <2> QED BY <1>1, <2>2, <2>3, <2>4, <2>5, <2>6 DEF DoneInTurn
<1> QED BY <1>8, <1>9, <1>10, <1>11, <1>12 DEF IInv

\* The bot posts the message of a job, mirrored or answered: the job is done, or
\* goes on behind the place where messages are mirrored.
LEMMA BotPosts ==
  ASSUME IInv, NEW s \in Sides, job[s] # Idle,
         NEW post \in Post, post.id = job[s].id, ~IsUsers(post),
         post.kind = "reply" \/ (post.kind = "mirror" /\ Unmirrored(s, job[s])),
         \/ UNCHANGED <<room, stanzas>>
         \/ PostInRoom(post) /\ post.by = "bot" /\ (post.kind = "mirror" => s = "discord"),
         \/ UNCHANGED <<discord, events>>
         \/ PostOnDiscord(post) /\ (post.kind = "mirror" => s = "room"),
         job' \in [Sides -> {Idle} \cup Jobs], \A u \in Sides \ {s} : job'[u] = job[u],
         \/ job'[s] = Idle
         \/ /\ post.kind = "mirror" /\ job'[s].id = job[s].id /\ job'[s].at # 0
            /\ ~Unmirrored(s, job'[s]),
         lost' \subseteq Ids, UNCHANGED <<webhook, phase, said, stops>>
  PROVE  IInv'
<1>1. \A p \in Range(room) \cup Range(discord) :
        /\ p.kind = "reply" => p.id # post.id
        /\ p.kind = "mirror" /\ post.kind = "mirror" /\ said[p.id].side = s => p.id < post.id
  <2> SUFFICES ASSUME NEW p \in Range(room) \cup Range(discord), p.kind # "said"
               PROVE  /\ p.kind = "reply" => p.id # post.id
                      /\ p.kind = "mirror" /\ post.kind = "mirror" /\ said[p.id].side = s => p.id < post.id
    OBVIOUS
  <2>1. p.id = post.id => p.kind = "mirror" /\ ~Unmirrored(s, job[s])
    BY Untouched
  <2>2. said[p.id].side = s => p.id <= post.id
    BY EarlierPosts
  <2>3. p.id \in Nat /\ post.id \in Nat
    BY PostedIsSaid, PostType
  <2> QED BY <2>1, <2>2, <2>3
<1>2. \A u \in Sides : Awaiting(u)' \subseteq Awaiting(u)
  <2>1. Awaiting("room")' \subseteq Awaiting("room")
    <3>1. CASE UNCHANGED <<room, stanzas>>
      BY <3>1, SameStanzas
    <3>2. CASE PostInRoom(post) /\ post.by = "bot" /\ (post.kind = "mirror" => s = "discord")
      BY <1>1, <3>2, RoomAppend, PostedIsSaid DEF IInv, LogsInOrder
    <3> QED BY <3>1, <3>2
  <2>2. Awaiting("discord")' \subseteq Awaiting("discord")
    <3>1. CASE UNCHANGED <<discord, events>>
      BY <3>1, SameEvents
    <3>2. CASE PostOnDiscord(post) /\ (post.kind = "mirror" => s = "room")
      BY <1>1, <3>2, DiscordAppend, PostedIsSaid DEF IInv, LogsInOrder
    <3> QED BY <3>1, <3>2
  <2> QED BY <2>1, <2>2 DEF Sides
<1>3. /\ room' \in Seq(Post) /\ stanzas' \in Seq(Stanza)
      /\ Range(room') \subseteq Range(room) \cup {post}
      /\ LogInOrder(room)' /\ RoomQueueInOrder'
      /\ \A p \in Range(room') \cup StanzaPosts' :
           \/ p \in Range(room) \cup StanzaPosts
           \/ p = post /\ post.by = "bot" /\ (post.kind = "mirror" => s = "discord")
  <2>1. CASE UNCHANGED <<room, stanzas>>
    BY <2>1, SameStanzas DEF IInv, TypeOK, LogsInOrder, LogInOrder
  <2>2. CASE PostInRoom(post) /\ post.by = "bot" /\ (post.kind = "mirror" => s = "discord")
    BY <1>1, <2>2, RoomAppend, PostedIsSaid DEF IInv, LogsInOrder
  <2> QED BY <2>1, <2>2
<1>4. /\ discord' \in Seq(Post) /\ events' \in Seq(Post)
      /\ Range(discord') \subseteq Range(discord) \cup {post}
      /\ LogInOrder(discord)' /\ DiscordQueueInOrder'
      /\ \A p \in Range(discord') \cup Range(events') :
           \/ p \in Range(discord) \cup Range(events)
           \/ p = post /\ (post.kind = "mirror" => s = "room")
  <2>1. CASE UNCHANGED <<discord, events>>
    BY <2>1, SameEvents DEF IInv, TypeOK, LogsInOrder, LogInOrder
  <2>2. CASE PostOnDiscord(post) /\ (post.kind = "mirror" => s = "room")
    BY <1>1, <2>2, DiscordAppend, PostedIsSaid DEF IInv, LogsInOrder
  <2> QED BY <2>1, <2>2
<1>5. /\ post.id \in DOMAIN said /\ said[post.id].side = s /\ post.kind # "said"
      /\ post.id \in Nat
  BY JobFacts, PostType
<1>6. TypeOK'
  BY <1>3, <1>4 DEF IInv, TypeOK
<1>7. PostsOK'
  <2>1. ASSUME NEW p \in Range(room') \cup StanzaPosts'
        PROVE  RoomPost(p)'
    BY <1>3, <1>5, <2>1 DEF IInv, PostsOK, RoomPost
  <2>2. ASSUME NEW p \in Range(discord') \cup Range(events')
        PROVE  DiscordPost(p)'
    BY <1>4, <1>5, <2>2 DEF IInv, PostsOK, DiscordPost, IsUsers
  <2> QED BY <2>1, <2>2 DEF PostsOK
<1>8. JobsOK'
  <2> SUFFICES ASSUME NEW u \in Sides, job'[u] # Idle
               PROVE  /\ job'[u].id \in DOMAIN said /\ said[job'[u].id].side = u
                      /\ u = "room" => job'[u].at # 0
                      /\ \A id \in Awaiting(u)' : job'[u].id < id
    BY DEF JobsOK
  <2>1. CASE u = s
    BY <1>2, <2>1 DEF IInv, JobsOK
  <2>2. CASE u # s
    BY <1>2, <2>2 DEF IInv, JobsOK
  <2> QED BY <2>1, <2>2
<1>9. NotYetDone'
  <2> SUFFICES ASSUME NEW p \in Range(room') \cup Range(discord'), p.kind # "said"
               PROVE  DoneInTurn(p)'
    BY DEF NotYetDone
  <2>1. PICK u : u = said[p.id].side
    OBVIOUS
  <2>2. u \in Sides
    BY <1>3, <1>4, <1>5, <2>1, PostedIsSaid
  <2>3. \A id \in Awaiting(u)' : p.id < id
    <3>1. CASE p = post
      BY <1>2, <1>5, <2>1, <3>1 DEF IInv, JobsOK
    <3>2. CASE p # post
      BY <1>2, <1>3, <1>4, <2>1, <2>2, <3>2 DEF IInv, NotYetDone, DoneInTurn
    <3> QED BY <3>1, <3>2
  <2>4. ASSUME job'[u] # Idle
        PROVE  /\ p.id <= job'[u].id
               /\ p.id = job'[u].id => p.kind = "mirror" /\ ~Unmirrored(u, job'[u])
    <3>1. CASE p = post
      BY <1>5, <2>1, <2>4, <3>1
    <3>2. CASE p # post /\ u = s
      <4>1. p.id <= job[s].id /\ (p.id = job[s].id => p.kind = "mirror")
        BY <1>3, <1>4, <2>1, <3>2 DEF IInv, NotYetDone, DoneInTurn
      <4> QED BY <2>4, <3>2, <4>1
    <3>3. CASE p # post /\ u # s
      BY <1>3, <1>4, <2>1, <2>2, <2>4, <3>3 DEF IInv, NotYetDone, DoneInTurn
    <3> QED BY <3>1, <3>2, <3>3
  <2>5. Unmirrored(u, job[u])' <=> Unmirrored(u, job'[u])
    BY DEF Unmirrored
  <2> QED BY <2>1, <2>3, <2>4, <2>5 DEF DoneInTurn
<1> QED BY <1>3, <1>4, <1>6, <1>7, <1>8, <1>9 DEF IInv, LogsInOrder

\* A step that posts nothing and takes nothing up: jobs go on or are dropped.
LEMMA JobsGoOn ==
  ASSUME IInv, TypeOK', UNCHANGED <<said, room, discord>>,
         StanzaPosts' \subseteq Range(room) \cup StanzaPosts, Range(events') \subseteq Range(events),
         RoomQueueInOrder', DiscordQueueInOrder',
         \A s \in Sides :
           /\ Awaiting(s)' \subseteq Awaiting(s)
           /\ job'[s] # Idle =>
                /\ job[s] # Idle /\ job'[s].id = job[s].id
                /\ s = "room" => job'[s].at # 0
                /\ Unmirrored(s, job'[s]) => Unmirrored(s, job[s])
  PROVE  IInv'
<1>1. PostsOK'
  <2>1. ASSUME NEW p, RoomPost(p)
        PROVE  RoomPost(p)'
    BY <2>1 DEF RoomPost
  <2>2. ASSUME NEW p, DiscordPost(p)
        PROVE  DiscordPost(p)'
    BY <2>2 DEF DiscordPost, IsUsers
  <2> QED BY <2>1, <2>2 DEF IInv, PostsOK
<1>2. JobsOK'
  BY DEF IInv, JobsOK
<1>3. NotYetDone'
  <2> SUFFICES ASSUME NEW p \in Range(room) \cup Range(discord), p.kind # "said"
               PROVE  DoneInTurn(p)'
    BY DEF NotYetDone
  <2>1. PICK s \in Sides : s = said[p.id].side
    BY PostedIsSaid
  <2>2. /\ \A id \in Awaiting(s) : p.id < id
        /\ job[s] # Idle =>
             /\ p.id <= job[s].id
             /\ p.id = job[s].id => p.kind = "mirror" /\ ~Unmirrored(s, job[s])
    BY <2>1 DEF IInv, NotYetDone, DoneInTurn
  <2>3. Unmirrored(s, job[s])' <=> Unmirrored(s, job'[s])
    BY DEF Unmirrored
  <2> QED BY <2>1, <2>2, <2>3 DEF DoneInTurn
<1>4. LogsInOrder'
  BY DEF IInv, LogsInOrder, LogInOrder
<1> QED BY <1>1, <1>2, <1>3, <1>4 DEF IInv

\* The first message that waits is taken up.
LEMMA JobTaken ==
  ASSUME IInv, TypeOK', NEW s \in Sides, job[s] = Idle,
         NEW task \in Jobs, task.id \in Awaiting(s), s = "room" => task.at # 0,
         job' = [job EXCEPT ![s] = task],
         UNCHANGED <<said, room, discord>>,
         StanzaPosts' \subseteq StanzaPosts, Range(events') \subseteq Range(events),
         RoomQueueInOrder', DiscordQueueInOrder',
         \A id \in Awaiting(s)' : task.id < id,
         \A u \in Sides : Awaiting(u)' \subseteq Awaiting(u)
  PROVE  IInv'
<1>1. \A u \in Sides : job'[u] = IF u = s THEN task ELSE job[u]
  BY DEF IInv, TypeOK
<1>2. PostsOK'
  <2>1. ASSUME NEW p, RoomPost(p)
        PROVE  RoomPost(p)'
    BY <2>1 DEF RoomPost
  <2>2. ASSUME NEW p, DiscordPost(p)
        PROVE  DiscordPost(p)'
    BY <2>2 DEF DiscordPost, IsUsers
  <2> QED BY <2>1, <2>2 DEF IInv, PostsOK
<1>3. JobsOK'
  <2>1. task.id \in DOMAIN said /\ said[task.id].side = s
    BY AwaitingIsSaid
  <2>2. ASSUME NEW u \in Sides, job'[u] # Idle
        PROVE  /\ job'[u].id \in DOMAIN said /\ said[job'[u].id].side = u
               /\ u = "room" => job'[u].at # 0
               /\ \A id \in Awaiting(u)' : job'[u].id < id
    <3>1. CASE u = s
      BY <1>1, <2>1, <3>1
    <3>2. CASE u # s
      BY <1>1, <2>2, <3>2 DEF IInv, JobsOK
    <3> QED BY <3>1, <3>2
  <2> QED BY <2>2 DEF JobsOK
<1>4. NotYetDone'
  <2> SUFFICES ASSUME NEW p \in Range(room) \cup Range(discord), p.kind # "said"
               PROVE  DoneInTurn(p)'
    BY DEF NotYetDone
  <2>1. PICK u \in Sides : u = said[p.id].side
    BY PostedIsSaid
  <2>2. /\ \A id \in Awaiting(u) : p.id < id
        /\ job[u] # Idle =>
             /\ p.id <= job[u].id
             /\ p.id = job[u].id => p.kind = "mirror" /\ ~Unmirrored(u, job[u])
    BY <2>1 DEF IInv, NotYetDone, DoneInTurn
  <2>3. Unmirrored(u, job[u])' <=> Unmirrored(u, job'[u])
    BY DEF Unmirrored
  <2>4. CASE u = s
    <3>1. p.id < task.id /\ p.id \in Nat /\ task.id \in Nat
      BY <2>2, <2>4, PostedIsSaid, JobType
    <3>2. p.id <= task.id /\ p.id # task.id
      BY <3>1
    <3> QED BY <1>1, <2>1, <2>2, <2>4, <3>2 DEF DoneInTurn
  <2>5. CASE u # s
    BY <1>1, <2>1, <2>2, <2>3, <2>5 DEF DoneInTurn
  <2> QED BY <2>4, <2>5
<1>5. LogsInOrder'
  BY DEF IInv, LogsInOrder, LogInOrder
<1> QED BY <1>2, <1>3, <1>4, <1>5 DEF IInv

-----------------------------------------------------------------------------
(* The actions                                                             *)

LEMMA StanzaTaken ==
  ASSUME IInv, stanzas # <<>>, stanzas' = Tail(stanzas)
  PROVE  /\ stanzas' \in Seq(Stanza) /\ Head(stanzas) \in Stanza
         /\ StanzaPosts' \subseteq StanzaPosts /\ RoomQueueInOrder'
         /\ Awaiting("room")' \subseteq Awaiting("room")
         /\ IsNews(Head(stanzas)) =>
              /\ Head(stanzas).post.id \in Awaiting("room")
              /\ \A id \in Awaiting("room")' : Head(stanzas).post.id < id
<1>1. stanzas \in Seq(Stanza)
  BY DEF IInv, TypeOK
<1>2. /\ stanzas' \in Seq(Stanza) /\ Head(stanzas) \in Stanza
      /\ 1 \in DOMAIN stanzas /\ Head(stanzas) = stanzas[1]
      /\ \A k \in DOMAIN stanzas' :
           k \in Nat /\ k + 1 \in DOMAIN stanzas /\ stanzas'[k] = stanzas[k + 1] /\ 1 < k + 1
  BY <1>1, TailOf
<1>3. StanzaPosts' \subseteq StanzaPosts
  BY <1>2 DEF StanzaPosts
<1>4. \A k, l \in DOMAIN stanzas' : k < l => k + 1 < l + 1
  BY <1>2
<1>5. RoomQueueInOrder'
  BY <1>2, <1>4 DEF IInv, RoomQueueInOrder, IsNews
<1>6. \A id \in Awaiting("room")' : \E k \in DOMAIN stanzas' :
        IsNews(stanzas'[k]) /\ id = stanzas'[k].post.id
  BY DEF Awaiting, IsNews
<1>7. \A k \in DOMAIN stanzas : IsNews(stanzas[k]) => stanzas[k].post.id \in Awaiting("room")
  BY DEF Awaiting
<1>8. \A id \in Awaiting("room")' :
        id \in Awaiting("room") /\ (IsNews(Head(stanzas)) => Head(stanzas).post.id < id)
  BY <1>2, <1>6, <1>7 DEF IInv, RoomQueueInOrder
<1> QED BY <1>2, <1>3, <1>5, <1>7, <1>8

LEMMA EventTaken ==
  ASSUME IInv, events # <<>>, events' = Tail(events)
  PROVE  /\ events' \in Seq(Post) /\ Head(events) \in Post
         /\ Range(events') \subseteq Range(events) /\ DiscordQueueInOrder'
         /\ Awaiting("discord")' \subseteq Awaiting("discord")
         /\ IsUsers(Head(events)) =>
              /\ Head(events).id \in Awaiting("discord")
              /\ \A id \in Awaiting("discord")' : Head(events).id < id
<1>1. events \in Seq(Post)
  BY DEF IInv, TypeOK
<1>2. /\ events' \in Seq(Post) /\ Head(events) \in Post
      /\ 1 \in DOMAIN events /\ Head(events) = events[1]
      /\ \A k \in DOMAIN events' :
           k \in Nat /\ k + 1 \in DOMAIN events /\ events'[k] = events[k + 1] /\ 1 < k + 1
  BY <1>1, TailOf
<1>3. Range(events') \subseteq Range(events)
  BY <1>2 DEF Range
<1>4. \A k, l \in DOMAIN events' : k < l => k + 1 < l + 1
  BY <1>2
<1>5. DiscordQueueInOrder'
  BY <1>2, <1>4 DEF IInv, DiscordQueueInOrder, IsUsers
<1>6. \A id \in Awaiting("discord")' : \E k \in DOMAIN events' :
        IsUsers(events'[k]) /\ id = events'[k].id
  BY DEF Awaiting, IsUsers
<1>7. \A k \in DOMAIN events : IsUsers(events[k]) => events[k].id \in Awaiting("discord")
  BY DEF Awaiting
<1>8. \A id \in Awaiting("discord")' :
        id \in Awaiting("discord") /\ (IsUsers(Head(events)) => Head(events).id < id)
  BY <1>2, <1>6, <1>7 DEF IInv, DiscordQueueInOrder
<1> QED BY <1>2, <1>3, <1>5, <1>7, <1>8

LEMMA HandlersType ==
  Len(Handlers) \in Nat /\ DOMAIN Handlers = 1..Len(Handlers)
BY BridgeAssumption

LEMMA HandleStanzaStep ==
  ASSUME IInv, HandleStanza
  PROVE  IInv'
<1>1. /\ stanzas # <<>> /\ job["room"] = Idle /\ stanzas' = Tail(stanzas)
      /\ UNCHANGED <<webhook, phase, said, room, discord, events, lost, stops>>
  BY DEF HandleStanza
<1>2. /\ stanzas' \in Seq(Stanza) /\ Head(stanzas) \in Stanza
      /\ StanzaPosts' \subseteq StanzaPosts /\ RoomQueueInOrder'
      /\ Awaiting("room")' \subseteq Awaiting("room")
      /\ IsNews(Head(stanzas)) =>
           /\ Head(stanzas).post.id \in Awaiting("room")
           /\ \A id \in Awaiting("room")' : Head(stanzas).post.id < id
  BY <1>1, StanzaTaken
<1>3. Awaiting("discord")' = Awaiting("discord") /\ DiscordQueueInOrder'
  BY <1>1, SameEvents DEF IInv
<1>4. \A u \in Sides : Awaiting(u)' \subseteq Awaiting(u)
  BY <1>2, <1>3 DEF Sides
<1>5. job \in [Sides -> {Idle} \cup Jobs] /\ "room" \in Sides
  BY DEF IInv, TypeOK, Sides
<1>6. CASE IsNews(Head(stanzas))
  <2>1. PICK task : task = [id |-> Head(stanzas).post.id, at |-> 1]
    OBVIOUS
  <2>2. task \in Jobs /\ task.id = Head(stanzas).post.id /\ task.at = 1
    BY <1>2, <2>1, PostType, HandlersType DEF Jobs
  <2>3. job' = [job EXCEPT !["room"] = task]
    BY <1>6, <2>1 DEF HandleStanza
  <2>4. TypeOK'
    BY <1>1, <1>2, <1>5, <2>2, <2>3 DEF IInv, TypeOK
  <2>5. task.id \in Awaiting("room") /\ \A id \in Awaiting("room")' : task.id < id
    BY <1>2, <1>6, <2>2
  <2>6. task.at # 0
    BY <2>2
  <2>7. UNCHANGED <<said, room, discord>> /\ Range(events') \subseteq Range(events)
    BY <1>1
  <2>8. "room" \in Sides /\ job["room"] = Idle
    BY <1>1, <1>5
  <2> QED BY <1>2, <1>3, <1>4, <2>2, <2>3, <2>4, <2>5, <2>6, <2>7, <2>8, JobTaken
<1>7. CASE ~IsNews(Head(stanzas))
  <2>1. job' = job
    BY <1>7 DEF HandleStanza
  <2>2. TypeOK'
    BY <1>1, <1>2, <2>1 DEF IInv, TypeOK
  <2>3. \A s \in Sides : job[s] # Idle => (s = "room" => job[s].at # 0)
    BY DEF IInv, JobsOK
  <2> QED BY <1>1, <1>2, <1>3, <1>4, <2>1, <2>2, <2>3, JobsGoOn
<1> QED BY <1>6, <1>7

LEMMA HandleEventStep ==
  ASSUME IInv, HandleEvent
  PROVE  IInv'
<1>1. /\ events # <<>> /\ job["discord"] = Idle /\ events' = Tail(events)
      /\ UNCHANGED <<webhook, phase, said, room, discord, stanzas, lost, stops>>
  BY DEF HandleEvent
<1>2. /\ events' \in Seq(Post) /\ Head(events) \in Post
      /\ Range(events') \subseteq Range(events) /\ DiscordQueueInOrder'
      /\ Awaiting("discord")' \subseteq Awaiting("discord")
      /\ IsUsers(Head(events)) =>
           /\ Head(events).id \in Awaiting("discord")
           /\ \A id \in Awaiting("discord")' : Head(events).id < id
  BY <1>1, EventTaken
<1>3. Awaiting("room")' = Awaiting("room") /\ RoomQueueInOrder' /\ StanzaPosts' = StanzaPosts
  BY <1>1, SameStanzas DEF IInv
<1>4. \A u \in Sides : Awaiting(u)' \subseteq Awaiting(u)
  BY <1>2, <1>3 DEF Sides
<1>5. job \in [Sides -> {Idle} \cup Jobs] /\ "discord" \in Sides /\ "discord" # "room"
  BY DEF IInv, TypeOK, Sides
<1>6. CASE IsUsers(Head(events))
  <2>1. PICK task : task = [id |-> Head(events).id, at |-> IF said[Head(events).id].main THEN 0 ELSE 1]
    OBVIOUS
  <2>2. task \in Jobs /\ task.id = Head(events).id
    BY <1>2, <2>1, PostType, HandlersType DEF Jobs
  <2>3. job' = [job EXCEPT !["discord"] = task]
    BY <1>6, <2>1 DEF HandleEvent
  <2>4. TypeOK'
    BY <1>1, <1>2, <1>5, <2>2, <2>3 DEF IInv, TypeOK
  <2> QED BY <1>1, <1>2, <1>3, <1>4, <1>5, <1>6, <2>2, <2>3, <2>4, JobTaken
<1>7. CASE ~IsUsers(Head(events))
  <2>1. job' = job
    BY <1>7 DEF HandleEvent
  <2>2. TypeOK'
    BY <1>1, <1>2, <2>1 DEF IInv, TypeOK
  <2>3. \A s \in Sides : job[s] # Idle => (s = "room" => job[s].at # 0)
    BY DEF IInv, JobsOK
  <2> QED BY <1>1, <1>2, <1>3, <1>4, <2>1, <2>2, <2>3, JobsGoOn
<1> QED BY <1>6, <1>7

\* A job goes on to the next place.
LEMMA NextPlace ==
  ASSUME IInv, NEW s \in Sides, job[s] # Idle, job[s].at <= Len(Handlers) + 1, GoOn(s)
  PROVE  /\ job' \in [Sides -> {Idle} \cup Jobs]
         /\ job'[s] \in Jobs /\ job'[s] # Idle
         /\ job'[s].id = job[s].id /\ job'[s].at = job[s].at + 1 /\ job'[s].at # 0
         /\ \A u \in Sides \ {s} : job'[u] = job[u]
<1>1. job \in [Sides -> {Idle} \cup Jobs] /\ job[s] \in Jobs /\ job[s].at \in Nat
  BY JobFacts DEF IInv, TypeOK
<1>2. PICK task : task = [job[s] EXCEPT !.at = @ + 1]
  OBVIOUS
<1>3. /\ task \in Jobs /\ task.id = job[s].id /\ task.at = job[s].at + 1 /\ task.at # 0
  BY <1>1, <1>2, HandlersType DEF Jobs
<1>4. job' = [job EXCEPT ![s] = task]
  BY <1>2 DEF GoOn
<1> QED BY <1>1, <1>3, <1>4, JobType

\* A step of a job that posts nothing and is not the one that mirrors.
LEMMA QuietStep ==
  ASSUME IInv, NEW s \in Sides, job[s] # Idle,
         job' \in [Sides -> {Idle} \cup Jobs], \A u \in Sides \ {s} : job'[u] = job[u],
         job'[s] # Idle => job'[s].id = job[s].id /\ job'[s].at # 0
                             /\ (Unmirrored(s, job'[s]) => Unmirrored(s, job[s])),
         lost' \subseteq Ids,
         UNCHANGED <<webhook, phase, said, room, discord, stanzas, events, stops>>
  PROVE  IInv'
<1>1. TypeOK'
  BY DEF IInv, TypeOK
<1>2. /\ Awaiting("room")' = Awaiting("room") /\ StanzaPosts' = StanzaPosts /\ RoomQueueInOrder'
      /\ Awaiting("discord")' = Awaiting("discord") /\ DiscordQueueInOrder'
  BY SameStanzas, SameEvents DEF IInv
<1>3. \A u \in Sides : Awaiting(u)' \subseteq Awaiting(u)
  BY <1>2 DEF Sides
<1>4. \A u \in Sides : job[u] # Idle => (u = "room" => job[u].at # 0)
  BY DEF IInv, JobsOK
<1> QED BY <1>1, <1>2, <1>3, <1>4, JobsGoOn

LEMMA MirrorInRoomStep ==
  ASSUME IInv, MirrorInRoom
  PROVE  IInv'
<1>1. /\ job["discord"] # Idle /\ job["discord"].at = 0
      /\ job' = [job EXCEPT !["discord"].at = 1]
      /\ UNCHANGED <<webhook, phase, said, discord, events, stops>>
      /\ "discord" \in Sides /\ "discord" # "room"
  BY DEF MirrorInRoom, Sides
<1>2. /\ job["discord"] \in Jobs /\ job["discord"].id \in Ids
      /\ job \in [Sides -> {Idle} \cup Jobs]
  BY <1>1, JobFacts DEF IInv, TypeOK
<1>3. PICK task : task = [job["discord"] EXCEPT !.at = 1]
  OBVIOUS
<1>4. task \in Jobs /\ task.id = job["discord"].id /\ task.at = 1
  BY <1>2, <1>3, HandlersType DEF Jobs
<1>5. job' = [job EXCEPT !["discord"] = task]
  BY <1>1, <1>3
<1>6. /\ job' \in [Sides -> {Idle} \cup Jobs] /\ job'["discord"] = task
      /\ \A u \in Sides \ {"discord"} : job'[u] = job[u]
  BY <1>1, <1>2, <1>4, <1>5
<1>7. Unmirrored("discord", job["discord"]) /\ ~Unmirrored("discord", job'["discord"])
  BY <1>1, <1>4, <1>6 DEF Unmirrored
<1>8. CASE phase = "joined"
  <2>1. PICK post : post = [id |-> job["discord"].id, kind |-> "mirror", by |-> "bot"]
    OBVIOUS
  <2>2. /\ post \in Post /\ post.id = job["discord"].id /\ post.kind = "mirror" /\ post.by = "bot"
        /\ ~IsUsers(post)
    BY <1>2, <2>1 DEF Post, IsUsers
  <2>3. PostInRoom(post) /\ lost' = lost
    BY <1>8, <2>1 DEF MirrorInRoom
  <2>4. lost' \subseteq Ids
    BY <2>3 DEF IInv, TypeOK
  <2> QED BY <1>1, <1>4, <1>6, <1>7, <2>2, <2>3, <2>4, BotPosts
<1>9. CASE phase # "joined"
  <2>1. lost' = lost \cup {job["discord"].id} /\ UNCHANGED <<room, stanzas>>
    BY <1>9 DEF MirrorInRoom
  <2>2. lost' \subseteq Ids
    BY <1>2, <2>1 DEF IInv, TypeOK
  <2> QED BY <1>1, <1>4, <1>6, <1>7, <2>1, <2>2, QuietStep
<1> QED BY <1>8, <1>9

\* The handler of Discord, or Bot itself for one of its own commands, mirrors
\* the message and has then passed the place where that is done.
LEMMA CopyStep ==
  ASSUME IInv, job["room"] # Idle, job["room"].at <= Len(Handlers) + 1, GoOn("room"),
         Unmirrored("room", job["room"]), ~Unmirrored("room", job'["room"]),
         Copy(job["room"].id), UNCHANGED <<webhook, phase, said, room, stanzas, stops>>
  PROVE  IInv'
<1>1. "room" \in Sides
  BY DEF Sides
<1>2. /\ job' \in [Sides -> {Idle} \cup Jobs] /\ job'["room"] # Idle
      /\ job'["room"].id = job["room"].id /\ job'["room"].at # 0
      /\ \A u \in Sides \ {"room"} : job'[u] = job[u]
  BY <1>1, NextPlace
<1>3. job["room"].id \in Ids /\ lost \subseteq Ids
  BY <1>1, JobFacts DEF IInv, TypeOK
<1>4. CASE lost' = lost \cup {job["room"].id} /\ UNCHANGED <<discord, events>>
  <2>1. lost' \subseteq Ids
    BY <1>3, <1>4
  <2> QED BY <1>1, <1>2, <1>4, <2>1, QuietStep
<1>5. CASE lost' = lost /\ PostOnDiscord([id |-> job["room"].id, kind |-> "mirror",
                                           by |-> IF webhook THEN "webhook" ELSE "bot"])
  <2>1. PICK post : post = [id |-> job["room"].id, kind |-> "mirror",
                            by |-> IF webhook THEN "webhook" ELSE "bot"]
    OBVIOUS
  <2>2. post \in Post /\ post.id = job["room"].id /\ post.kind = "mirror" /\ ~IsUsers(post)
    BY <1>3, <2>1 DEF Post, IsUsers
  <2>3. PostOnDiscord(post)
    BY <1>5, <2>1
  <2> QED BY <1>1, <1>2, <1>3, <1>5, <2>2, <2>3, BotPosts
<1> QED BY <1>4, <1>5 DEF Copy

LEMMA MirrorStep ==
  ASSUME IInv, NEW s \in Sides, Mirror(s)
  PROVE  IInv'
<1>1. /\ job[s].at \in DOMAIN Handlers /\ said[job[s].id].kind # "own"
      /\ Handlers[job[s].at] = "discord" /\ GoOn(s)
      /\ UNCHANGED <<webhook, phase, said, room, stanzas, stops>>
  BY DEF Mirror, Offered
<1>2. job[s] # Idle /\ job[s].at <= Len(Handlers) + 1 /\ job[s].at \in Nat \ {0}
  BY <1>1, HandlersType DEF Idle
<1>3. /\ job' \in [Sides -> {Idle} \cup Jobs] /\ job'[s] # Idle
      /\ job'[s].id = job[s].id /\ job'[s].at = job[s].at + 1 /\ job'[s].at # 0
      /\ \A u \in Sides \ {s} : job'[u] = job[u]
  BY <1>1, <1>2, NextPlace
<1>4. CASE s = "room"
  <2>1. Unmirrored(s, job[s])
    BY <1>1, <1>2, <1>4, HandlersType DEF Unmirrored
  <2>2. ~Unmirrored(s, job'[s])
    <3>1. ASSUME NEW k \in DOMAIN Handlers, Handlers[k] = "discord"
          PROVE  ~(job'[s].at <= k)
      <4>1. k = job[s].at
        BY <1>1, <3>1, BridgeAssumption
      <4> QED BY <1>2, <1>3, <4>1
    <3> QED BY <1>1, <1>3, <1>4, <3>1 DEF Unmirrored
  <2>3. Copy(job["room"].id)
    BY <1>4 DEF Mirror
  <2> QED BY <1>1, <1>2, <1>4, <2>1, <2>2, <2>3, CopyStep
<1>5. CASE s = "discord"
  <2>1. UNCHANGED <<discord, events, lost>>
    BY <1>5 DEF Mirror
  <2>2. ~Unmirrored(s, job'[s])
    BY <1>3, <1>5 DEF Unmirrored
  <2>3. lost' \subseteq Ids
    BY <2>1 DEF IInv, TypeOK
  <2> QED BY <1>1, <1>2, <1>3, <2>1, <2>2, <2>3, QuietStep
<1> QED BY <1>4, <1>5 DEF Sides

LEMMA MirrorOwnStep ==
  ASSUME IInv, MirrorOwn
  PROVE  IInv'
<1>1. /\ job["room"].at = 1 /\ said[job["room"].id].kind = "own" /\ GoOn("room")
      /\ Copy(job["room"].id)
      /\ UNCHANGED <<webhook, phase, said, room, stanzas, stops>> /\ "room" \in Sides
  BY DEF MirrorOwn, Own, Sides
<1>2. job["room"] # Idle /\ job["room"].at <= Len(Handlers) + 1
  BY <1>1, HandlersType DEF Idle
<1>3. job'["room"].id = job["room"].id /\ job'["room"].at = 2
  BY <1>1, <1>2, NextPlace
<1>4. Unmirrored("room", job["room"]) /\ ~Unmirrored("room", job'["room"])
  BY <1>1, <1>3 DEF Unmirrored
<1> QED BY <1>1, <1>2, <1>4, CopyStep

LEMMA ReplyStep ==
  ASSUME IInv, NEW s \in Sides, job[s] # Idle, Reply(s)
  PROVE  IInv'
<1>1. PICK post : post = [id |-> job[s].id, kind |-> "reply", by |-> "bot"]
  OBVIOUS
<1>2. /\ post \in Post /\ post.id = job[s].id /\ post.kind = "reply" /\ post.by = "bot"
      /\ ~IsUsers(post)
  BY <1>1, JobFacts DEF Post, IsUsers
<1>3. /\ PostInRoom(post) \/ UNCHANGED <<room, stanzas>>
      /\ PostOnDiscord(post)
      /\ job' = [job EXCEPT ![s] = Idle]
      /\ UNCHANGED <<webhook, phase, said, lost, stops>>
  BY <1>1 DEF Reply
<1>4. /\ job' \in [Sides -> {Idle} \cup Jobs] /\ job'[s] = Idle
      /\ \A u \in Sides \ {s} : job'[u] = job[u]
  BY <1>3 DEF IInv, TypeOK
<1>5. lost' \subseteq Ids
  BY <1>3 DEF IInv, TypeOK
<1> QED BY <1>2, <1>3, <1>4, <1>5, BotPosts

LEMMA IgnoreStep ==
  ASSUME IInv, NEW s \in Sides, Ignore(s)
  PROVE  IInv'
<1>1. /\ job[s].at \in DOMAIN Handlers /\ said[job[s].id].kind = "talk" /\ GoOn(s)
      /\ UNCHANGED <<webhook, phase, said, room, discord, stanzas, events, lost, stops>>
  BY DEF Ignore, Offered
<1>2. job[s] # Idle /\ job[s].at <= Len(Handlers) + 1 /\ job[s].at \in Nat \ {0}
  BY <1>1, HandlersType DEF Idle
<1>3. /\ job' \in [Sides -> {Idle} \cup Jobs] /\ job'[s] # Idle
      /\ job'[s].id = job[s].id /\ job'[s].at = job[s].at + 1 /\ job'[s].at # 0
      /\ \A u \in Sides \ {s} : job'[u] = job[u]
  BY <1>1, <1>2, NextPlace
<1>4. Unmirrored(s, job'[s]) => Unmirrored(s, job[s])
  <2>1. \A k \in DOMAIN Handlers : job'[s].at <= k => job[s].at <= k
    BY <1>2, <1>3, HandlersType
  <2> QED BY <1>1, <1>3, <2>1 DEF Unmirrored
<1>5. lost' \subseteq Ids
  BY <1>1 DEF IInv, TypeOK
<1> QED BY <1>1, <1>2, <1>3, <1>4, <1>5, QuietStep

LEMMA HandlersDoneStep ==
  ASSUME IInv, NEW s \in Sides, HandlersDone(s)
  PROVE  IInv'
<1>1. /\ job[s].at > Len(Handlers) /\ job' = [job EXCEPT ![s] = Idle]
      /\ UNCHANGED <<webhook, phase, said, room, discord, stanzas, events, lost, stops>>
  BY DEF HandlersDone
<1>2. job[s] # Idle
  BY <1>1, HandlersType DEF Idle
<1>3. /\ job' \in [Sides -> {Idle} \cup Jobs] /\ job'[s] = Idle
      /\ \A u \in Sides \ {s} : job'[u] = job[u]
  BY <1>1 DEF IInv, TypeOK
<1>4. lost' \subseteq Ids
  BY <1>1 DEF IInv, TypeOK
<1> QED BY <1>1, <1>2, <1>3, <1>4, QuietStep

\* The process: what waited is forgotten, and the history is no news.
LEMMA ProcessStep ==
  ASSUME IInv, Join \/ Stop \/ Start \/ UNCHANGED vars
  PROVE  IInv'
<1>1. \A u \in Sides : job[u] # Idle => (u = "room" => job[u].at # 0)
  BY DEF IInv, JobsOK
<1>2. CASE Join
  <2>1. /\ phase' = "joined"
        /\ stanzas' = [k \in DOMAIN room |-> [post |-> room[k], history |-> TRUE]]
        /\ UNCHANGED <<webhook, said, room, discord, events, job, lost, stops>>
    BY <1>2 DEF Join
  <2>2. room \in Seq(Post)
    BY DEF IInv, TypeOK
  <2>3. \A k \in DOMAIN room : room[k] \in Post /\ room[k] \in Range(room)
    BY <2>2 DEF Range
  <2>4. stanzas' \in Seq(Stanza)
    <3>1. DOMAIN room = 1..Len(room) /\ Len(room) \in Nat
      BY <2>2
    <3>2. \A k \in DOMAIN room : [post |-> room[k], history |-> TRUE] \in Stanza
      BY <2>3 DEF Stanza
    <3>3. stanzas' \in [1..Len(room) -> Stanza]
      BY <2>1, <3>1, <3>2
    <3> QED BY <3>1, <3>3
  <2>5. DOMAIN stanzas' = DOMAIN room
    BY <2>1
  <2>6. \A k \in DOMAIN stanzas' : ~IsNews(stanzas'[k]) /\ stanzas'[k].post = room[k]
    BY <2>1, <2>5 DEF IsNews
  <2>7. StanzaPosts' \subseteq Range(room)
    BY <2>3, <2>5, <2>6 DEF StanzaPosts
  <2>8. RoomQueueInOrder' /\ Awaiting("room")' = {}
    BY <2>6 DEF RoomQueueInOrder, Awaiting, IsNews
  <2>9. Awaiting("discord")' = Awaiting("discord") /\ DiscordQueueInOrder'
    BY <2>1, SameEvents DEF IInv
  <2>10. \A u \in Sides : Awaiting(u)' \subseteq Awaiting(u)
    BY <2>8, <2>9 DEF Sides
  <2>11. TypeOK'
    BY <2>1, <2>4 DEF IInv, TypeOK
  <2> QED BY <1>1, <2>1, <2>7, <2>8, <2>9, <2>10, <2>11, JobsGoOn
<1>3. CASE Stop
  <2>1. /\ stops < MaxStops /\ stops' = stops + 1 /\ phase' = "down"
        /\ stanzas' = <<>> /\ events' = <<>> /\ job' = [s \in Sides |-> Idle]
        /\ UNCHANGED <<webhook, said, room, discord, lost>>
    BY <1>3 DEF Stop
  <2>2. stops' \in 0..MaxStops
    BY <2>1, BridgeAssumption DEF IInv, TypeOK
  <2>3. <<>> \in Seq(Stanza) /\ <<>> \in Seq(Post) /\ DOMAIN <<>> = {}
    OBVIOUS
  <2>4. TypeOK'
    BY <2>1, <2>2, <2>3 DEF IInv, TypeOK
  <2>5. /\ StanzaPosts' = {} /\ Range(events') = {} /\ RoomQueueInOrder' /\ DiscordQueueInOrder'
        /\ Awaiting("room")' = {} /\ Awaiting("discord")' = {}
    BY <2>1, <2>3 DEF StanzaPosts, Range, RoomQueueInOrder, DiscordQueueInOrder, Awaiting
  <2>6. \A u \in Sides : Awaiting(u)' \subseteq Awaiting(u) /\ job'[u] = Idle
    BY <2>1, <2>5 DEF Sides
  <2> QED BY <2>1, <2>4, <2>5, <2>6, JobsGoOn
<1>4. CASE Start \/ UNCHANGED vars
  <2>1. /\ phase' \in {"starting", phase}
        /\ UNCHANGED <<webhook, said, room, discord, stanzas, events, job, lost, stops>>
    BY <1>4 DEF Start, vars
  <2>2. TypeOK'
    BY <2>1 DEF IInv, TypeOK
  <2>3. /\ Awaiting("room")' = Awaiting("room") /\ StanzaPosts' = StanzaPosts /\ RoomQueueInOrder'
        /\ Awaiting("discord")' = Awaiting("discord") /\ DiscordQueueInOrder'
    BY <2>1, SameStanzas, SameEvents DEF IInv
  <2>4. \A u \in Sides : Awaiting(u)' \subseteq Awaiting(u)
    BY <2>3 DEF Sides
  <2> QED BY <1>1, <2>1, <2>2, <2>3, <2>4, JobsGoOn
<1> QED BY <1>2, <1>3, <1>4

-----------------------------------------------------------------------------
LEMMA InitIInv == Init => IInv
<1> SUFFICES ASSUME Init PROVE IInv OBVIOUS
<1>1. /\ said = <<>> /\ room = <<>> /\ discord = <<>> /\ stanzas = <<>> /\ events = <<>>
      /\ \A s \in Sides : job[s] = Idle
  BY DEF Init
<1>2. /\ <<>> \in Seq(Message) /\ Len(<<>>) = 0 /\ DOMAIN <<>> = {}
      /\ <<>> \in Seq(Post) /\ <<>> \in Seq(Stanza)
  OBVIOUS
<1>3. TypeOK
  <2>1. stops \in 0..MaxStops /\ Len(said) <= MaxSaid
    BY <1>1, <1>2, BridgeAssumption DEF Init
  <2> QED BY <1>1, <1>2, <2>1 DEF Init, TypeOK
<1>4. Range(room) = {} /\ Range(discord) = {} /\ StanzaPosts = {} /\ Range(events) = {}
  BY <1>1, <1>2 DEF Range, StanzaPosts
<1>5. PostsOK /\ NotYetDone
  BY <1>4 DEF PostsOK, NotYetDone
<1>6. RoomQueueInOrder /\ DiscordQueueInOrder /\ LogsInOrder
  BY <1>1, <1>2 DEF RoomQueueInOrder, DiscordQueueInOrder, LogsInOrder, LogInOrder
<1>7. JobsOK
  BY <1>1 DEF JobsOK
<1> QED BY <1>3, <1>5, <1>6, <1>7 DEF IInv

LEMMA NextStep ==
  ASSUME IInv, [Next]_vars
  PROVE  IInv'
<1>1. ASSUME NEW message \in Message, Say(message)
      PROVE  IInv'
  BY <1>1, SayStep
<1>2. ASSUME NEW s \in Sides, Answer(s) \/ AnswerOwn(s)
      PROVE  IInv'
  <2>1. Reply(s) /\ job[s] # Idle
    BY <1>2, HandlersType DEF Answer, AnswerOwn, Own, Offered, Idle
  <2> QED BY <2>1, ReplyStep
<1>3. ASSUME NEW s \in Sides, Mirror(s) \/ Ignore(s) \/ HandlersDone(s)
      PROVE  IInv'
  BY <1>3, MirrorStep, IgnoreStep, HandlersDoneStep
<1>4. "room" \in Sides /\ "discord" \in Sides
  BY DEF Sides
<1>5. CASE Stream
  BY <1>2, <1>3, <1>4, <1>5, HandleStanzaStep, MirrorOwnStep DEF Stream
<1>6. CASE Gateway
  BY <1>2, <1>3, <1>4, <1>6, HandleEventStep, MirrorInRoomStep DEF Gateway
<1>7. CASE Join \/ Stop \/ Start \/ UNCHANGED vars
  BY <1>7, ProcessStep
<1> QED BY <1>1, <1>5, <1>6, <1>7 DEF Next

\* The inductive invariant holds in every reachable state.
THEOREM Invariance == Spec => []IInv
<1>1. IInv /\ [Next]_vars => IInv'
  BY NextStep
<1> QED BY InitIInv, <1>1, PTL DEF Spec

\* The logs, the queues and the jobs keep their types.
THEOREM TypeCorrect == Spec => []TypeOK
<1>1. IInv => TypeOK
  BY DEF IInv
<1> QED BY Invariance, <1>1, PTL

\* On each side, Bot::SendMessage and Discord::HandleMessage put a command
\* before its answer, and what is mirrored in the order of the other side.
THEOREM InOrderCorrect == Spec => []InOrder
<1>1. IInv => InOrder
  BY DEF IInv, LogsInOrder, LogInOrder, InOrder
<1> QED BY Invariance, <1>1, PTL

\* Nothing is mirrored back or twice, and nothing is answered twice, although
\* handleMUCMessage and MessageCreate get to see what the bot has posted.
THEOREM NoEchoCorrect == Spec => []NoEcho
<1>1. ASSUME IInv, NEW log \in {room, discord}, NEW id \in DOMAIN said,
             NEW kind \in {"mirror", "reply"}
      PROVE  Cardinality(Places(log, id, kind)) <= 1
  <2>1. LogInOrder(log) /\ log \in Seq(Post)
    BY <1>1 DEF IInv, LogsInOrder, TypeOK
  <2>2. \A i, j \in DOMAIN log : i \in Nat /\ j \in Nat /\ (i = j \/ i < j \/ j < i)
    <3>1. DOMAIN log = 1..Len(log) /\ Len(log) \in Nat
      BY <2>1
    <3> QED BY <3>1
  <2>3. id \in Nat /\ ~(id < id)
    <3>1. said \in Seq(Message)
      BY <1>1 DEF IInv, TypeOK
    <3> QED BY <3>1
  <2>4. \A i, j \in Places(log, id, kind) : i = j
    BY <2>1, <2>2, <2>3 DEF Places, LogInOrder
  <2>5. CASE Places(log, id, kind) = {}
    BY <2>5, FS_EmptySet
  <2>6. CASE Places(log, id, kind) # {}
    <3>1. PICK k \in Places(log, id, kind) : TRUE
      BY <2>6
    <3>2. Places(log, id, kind) = {k}
      BY <2>4, <3>1
    <3> QED BY <3>2, FS_Singleton
  <2> QED BY <2>5, <2>6
<1>2. ASSUME IInv, NEW id \in DOMAIN said
      PROVE  /\ said[id].side = "room" => Places(room, id, "mirror") = {}
             /\ said[id].side = "discord" => Places(discord, id, "mirror") = {}
  <2>1. /\ \A k \in DOMAIN room : room[k] \in Range(room)
        /\ \A k \in DOMAIN discord : discord[k] \in Range(discord)
    BY DEF Range
  <2> QED BY <1>2, <2>1, PostedIsSaid DEF Places
<1>3. IInv => NoEcho
  BY <1>1, <1>2 DEF NoEcho
<1> QED BY Invariance, <1>3, PTL

-----------------------------------------------------------------------------
(* Answers that Discord can follow                                         *)

\* What has been shown stays shown, and so do the answers that rest on it.
LEMMA ShownStays ==
  ASSUME IInv, AnswersFollow,
         Range(discord) \subseteq Range(discord'), lost \subseteq lost',
         \A id \in DOMAIN said : said'[id] = said[id],
         \A p \in Range(discord') : p \in Range(discord) \/ p.kind # "reply"
  PROVE  AnswersFollow' /\ \A id : Shown(id) => Shown(id)'
<1>1. \A id : Shown(id) => Shown(id)'
  BY DEF Shown
<1>2. AnswersFollow'
  BY <1>1, PostedIsSaid DEF AnswersFollow
<1> QED BY <1>1, <1>2

LEMMA OnDiscord ==
  ASSUME IInv, NEW post \in Post, PostOnDiscord(post)
  PROVE  Range(discord') = Range(discord) \cup {post}
BY Appended DEF IInv, TypeOK, PostOnDiscord

\* A post is copied to Discord, or counted as lost.
LEMMA CopyShows ==
  ASSUME IInv, AnswersFollow, NEW id \in Ids, Copy(id), UNCHANGED said
  PROVE  AnswersFollow' /\ Shown(id)'
<1>1. CASE lost' = lost \cup {id} /\ UNCHANGED <<discord, events>>
  BY <1>1, ShownStays DEF Shown
<1>2. CASE lost' = lost /\ PostOnDiscord([id |-> id, kind |-> "mirror",
                                           by |-> IF webhook THEN "webhook" ELSE "bot"])
  <2>1. PICK post : post = [id |-> id, kind |-> "mirror", by |-> IF webhook THEN "webhook" ELSE "bot"]
    OBVIOUS
  <2>2. post \in Post /\ post.id = id /\ post.kind = "mirror"
    BY <2>1 DEF Post
  <2>3. Range(discord') = Range(discord) \cup {post}
    BY <1>2, <2>1, <2>2, OnDiscord
  <2> QED BY <1>2, <2>2, <2>3, ShownStays DEF Shown
<1> QED BY <1>1, <1>2 DEF Copy

\* An answer to a message that Discord has been shown, or that comes from there.
LEMMA AnswerFollows ==
  ASSUME IInv, AnswersFollow, NEW s \in Sides, job[s] # Idle, Reply(s),
         s = "room" => Shown(job[s].id)
  PROVE  AnswersFollow'
<1>1. PICK post : post = [id |-> job[s].id, kind |-> "reply", by |-> "bot"]
  OBVIOUS
<1>2. post \in Post /\ post.id = job[s].id /\ said[post.id].side = s
  BY <1>1, JobFacts DEF Post
<1>3. PostOnDiscord(post) /\ UNCHANGED <<said, lost>>
  BY <1>1 DEF Reply
<1>4. Range(discord') = Range(discord) \cup {post}
  BY <1>2, <1>3, OnDiscord
<1>5. \A id : Shown(id) => Shown(id)'
  BY <1>3, <1>4 DEF Shown
<1> QED BY <1>2, <1>3, <1>4, <1>5 DEF AnswersFollow

LEMMA FollowedStep ==
  ASSUME DiscordFirst, IInv, Followed, AnswersFollow, [Next]_vars
  PROVE  Followed' /\ AnswersFollow'
<1>1. \A k \in DOMAIN Handlers : Handlers[k] = "discord" <=> k = 1
  <2>1. Handlers[1] = "discord" /\ 1 \in DOMAIN Handlers
    BY BridgeAssumption DEF DiscordFirst
  <2> QED BY <2>1, BridgeAssumption
<1>2. ASSUME UNCHANGED <<discord, said>>, lost \subseteq lost',
             job'["room"] # Idle /\ job'["room"].at >= 2 =>
               job["room"] # Idle /\ job["room"].at >= 2 /\ job'["room"].id = job["room"].id
      PROVE  Followed' /\ AnswersFollow'
  BY <1>2, ShownStays DEF Followed
<1>3. job \in [Sides -> {Idle} \cup Jobs] /\ "room" \in Sides /\ "discord" \in Sides
      /\ "room" # "discord" /\ lost \subseteq lost
  BY DEF IInv, TypeOK, Sides
<1>4. ASSUME NEW message \in Message, Say(message)
      PROVE  Followed' /\ AnswersFollow'
  <2>1. said \in Seq(Message) /\ said' = Append(said, message) /\ UNCHANGED <<job, lost>>
    BY <1>4 DEF Say, IInv, TypeOK
  <2>2. \A id \in DOMAIN said : said'[id] = said[id]
    BY <2>1, Appended
  <2>3. PICK post : post = [id |-> Len(said) + 1, kind |-> "said", by |-> "user"]
    OBVIOUS
  <2>4. post \in Post /\ post.kind = "said"
    <3>1. Len(said) + 1 \in Ids
      BY <1>4, <2>1, BridgeAssumption DEF Say, Ids
    <3> QED BY <2>3, <3>1 DEF Post
  <2>5. discord' = discord \/ PostOnDiscord(post)
    BY <1>4, <2>3 DEF Say
  <2>6. discord' = discord \/ Range(discord') = Range(discord) \cup {post}
    BY <2>4, <2>5, OnDiscord
  <2> QED BY <2>1, <2>2, <2>4, <2>6, ShownStays DEF Followed
<1>5. CASE HandleStanza \/ HandleEvent \/ MirrorInRoom
  <2>1. CASE HandleStanza
    BY <1>2, <1>3, <2>1 DEF HandleStanza
  <2>2. CASE HandleEvent
    BY <1>2, <1>3, <2>2 DEF HandleEvent
  <2>3. CASE MirrorInRoom
    <3>1. job'["room"] = job["room"] /\ UNCHANGED <<discord, said>> /\ lost \subseteq lost'
      BY <1>3, <2>3 DEF MirrorInRoom
    <3> QED BY <1>2, <3>1
  <2> QED BY <1>5, <2>1, <2>2, <2>3
<1>6. ASSUME NEW s \in Sides, Mirror(s)
      PROVE  Followed' /\ AnswersFollow'
  <2>1. /\ job[s].at = 1 /\ GoOn(s) /\ UNCHANGED said
        /\ IF s = "room" THEN Copy(job[s].id) ELSE UNCHANGED <<discord, events, lost>>
    BY <1>1, <1>6 DEF Mirror, Offered
  <2>2. job[s] # Idle /\ job[s].at <= Len(Handlers) + 1
    BY <2>1, HandlersType DEF Idle
  <2>3. /\ job'[s].id = job[s].id /\ \A u \in Sides \ {s} : job'[u] = job[u]
        /\ job[s].id \in Ids
    BY <2>1, <2>2, NextPlace, JobFacts
  <2>4. CASE s = "room"
    BY <2>1, <2>3, <2>4, CopyShows DEF Followed
  <2>5. CASE s # "room"
    BY <1>2, <1>3, <2>1, <2>3, <2>5
  <2> QED BY <2>4, <2>5
<1>7. CASE MirrorOwn
  <2>1. job["room"].at = 1 /\ GoOn("room") /\ Copy(job["room"].id) /\ UNCHANGED said
    BY <1>7 DEF MirrorOwn
  <2>2. job["room"] # Idle /\ job["room"].at <= Len(Handlers) + 1
    BY <2>1, HandlersType DEF Idle
  <2>3. job'["room"].id = job["room"].id /\ job["room"].id \in Ids
    BY <1>3, <2>1, <2>2, NextPlace, JobFacts
  <2> QED BY <2>1, <2>3, CopyShows DEF Followed
<1>8. ASSUME NEW s \in Sides, Answer(s) \/ AnswerOwn(s)
      PROVE  Followed' /\ AnswersFollow'
  <2>1. Reply(s) /\ job[s] # Idle
    BY <1>8, HandlersType DEF Answer, AnswerOwn, Own, Offered, Idle
  <2>2. s = "room" => job[s].at >= 2
    <3>1. CASE Answer(s)
      <4>1. job[s].at \in DOMAIN Handlers /\ job[s].at # 1
        BY <1>1, <3>1 DEF Answer, Offered
      <4> QED BY <4>1, HandlersType
    <3>2. CASE AnswerOwn(s)
      BY <3>2 DEF AnswerOwn
    <3> QED BY <1>8, <3>1, <3>2
  <2>3. AnswersFollow'
    BY <2>1, <2>2, AnswerFollows DEF Followed
  <2>4. job' = [job EXCEPT ![s] = Idle] /\ lost' = lost
    BY <2>1 DEF Reply
  <2>5. Range(discord) \subseteq Range(discord')
    <3>1. PICK post : post = [id |-> job[s].id, kind |-> "reply", by |-> "bot"]
      OBVIOUS
    <3>2. post \in Post
      BY <2>1, <3>1, JobFacts DEF Post
    <3>3. PostOnDiscord(post)
      BY <2>1, <3>1 DEF Reply
    <3> QED BY <3>2, <3>3, OnDiscord
  <2>6. job'["room"] = Idle \/ job'["room"] = job["room"]
    BY <1>3, <2>4
  <2>7. Followed'
    BY <2>4, <2>5, <2>6 DEF Followed, Shown
  <2> QED BY <2>3, <2>7
<1>9. ASSUME NEW s \in Sides, Ignore(s)
      PROVE  Followed' /\ AnswersFollow'
  <2>1. /\ job[s].at \in DOMAIN Handlers /\ job[s].at # 1 /\ GoOn(s)
        /\ UNCHANGED <<said, discord, lost>>
    BY <1>1, <1>9 DEF Ignore, Offered
  <2>2. job[s] # Idle /\ job[s].at <= Len(Handlers) + 1 /\ job[s].at >= 2
    BY <2>1, HandlersType DEF Idle
  <2>3. job'[s].id = job[s].id /\ \A u \in Sides \ {s} : job'[u] = job[u]
    BY <2>1, <2>2, NextPlace
  <2> QED BY <1>2, <1>3, <2>1, <2>2, <2>3
<1>10. ASSUME NEW s \in Sides, HandlersDone(s)
       PROVE  Followed' /\ AnswersFollow'
  <2>1. job' = [job EXCEPT ![s] = Idle] /\ UNCHANGED <<said, discord, lost>>
    BY <1>10 DEF HandlersDone
  <2> QED BY <1>2, <1>3, <2>1
<1>11. CASE Join \/ Stop \/ Start \/ UNCHANGED vars
  <2>1. (job' = job \/ job'["room"] = Idle) /\ UNCHANGED <<said, discord, lost>>
    BY <1>3, <1>11 DEF Join, Stop, Start, vars
  <2> QED BY <1>2, <2>1
<1> QED BY <1>3, <1>4, <1>5, <1>6, <1>7, <1>8, <1>9, <1>10, <1>11 DEF Next, Stream, Gateway

\* If Discord is the first handler, as it is built, then nothing is answered on
\* Discord that was not shown there, unless mirroring has failed.
THEOREM AnswersMakeSenseCorrect ==
  ASSUME DiscordFirst
  PROVE  Spec => []AnswersMakeSense
<1>1. Init => Followed /\ AnswersFollow
  <2>1. DOMAIN <<>> = {}
    OBVIOUS
  <2> QED BY <2>1 DEF Init, Followed, AnswersFollow, Sides, Range
<1>2. IInv /\ Followed /\ AnswersFollow /\ [Next]_vars => Followed' /\ AnswersFollow'
  BY FollowedStep
<1>3. IInv /\ AnswersFollow => AnswersMakeSense
  <2> SUFFICES ASSUME IInv, AnswersFollow, NEW id \in DOMAIN said,
                      Places(discord, id, "reply") # {}, said[id].side = "room", id \notin lost
               PROVE  Places(discord, id, "mirror") # {}
    BY DEF AnswersMakeSense
  <2>1. PICK k \in DOMAIN discord : discord[k].id = id /\ discord[k].kind = "reply"
    BY DEF Places
  <2>2. discord[k] \in Range(discord)
    BY DEF Range
  <2>3. PICK post \in Range(discord) : post.id = id /\ post.kind = "mirror"
    BY <2>1, <2>2 DEF AnswersFollow, Shown
  <2>4. PICK l \in DOMAIN discord : discord[l] = post
    BY DEF Range
  <2> QED BY <2>3, <2>4 DEF Places
<1> QED BY Invariance, <1>1, <1>2, <1>3, PTL DEF Spec

-----------------------------------------------------------------------------
(* How far the bot is from rest                                            *)

\* The steps a message takes through the handlers, and the two posts that may
\* come of one, of which the bot hears.
Trip == 3 * (Len(Handlers) + 3)
JobWork(s) == IF job[s] = Idle THEN 0 ELSE 3 * (Len(Handlers) + 3 - job[s].at)

\* What is still to be done about what people have said so far.
InHand == Len(stanzas) + Len(events) + JobWork("room") + JobWork("discord")
Waiting == Cardinality(Awaiting("room")) + Cardinality(Awaiting("discord"))
Unfinished == InHand + Trip * Waiting

AtRest == stanzas = <<>> /\ events = <<>> /\ \A s \in Sides : job[s] = Idle

\* Every step of the bot brings it nearer to rest, whatever it posts on either
\* side: of its own posts, all of which come back to it, nothing comes.
NearerToRest ==
  /\ Unfinished \in Nat /\ (Unfinished = 0 <=> AtRest)
  /\ Stream \/ Gateway => Unfinished' < Unfinished

LEMMA ToDoType ==
  ASSUME IInv
  PROVE  /\ Trip \in Nat
         /\ Len(stanzas) \in Nat /\ (Len(stanzas) = 0 <=> stanzas = <<>>)
         /\ Len(events) \in Nat /\ (Len(events) = 0 <=> events = <<>>)
         /\ \A s \in Sides : /\ IsFiniteSet(Awaiting(s)) /\ Cardinality(Awaiting(s)) \in Nat
                             /\ JobWork(s) \in Nat /\ (JobWork(s) = 0 <=> job[s] = Idle)
<1>1. stanzas \in Seq(Stanza) /\ events \in Seq(Post) /\ said \in Seq(Message)
  BY DEF IInv, TypeOK
<1>2. /\ Len(stanzas) \in Nat /\ (Len(stanzas) = 0 <=> stanzas = <<>>)
      /\ Len(events) \in Nat /\ (Len(events) = 0 <=> events = <<>>)
      /\ Len(said) \in Nat /\ DOMAIN said = 1..Len(said)
  BY <1>1
<1>3. ASSUME NEW s \in Sides
      PROVE  IsFiniteSet(Awaiting(s)) /\ Cardinality(Awaiting(s)) \in Nat
  <2>1. IsFiniteSet(DOMAIN said)
    BY <1>2, FS_Interval
  <2>2. Awaiting(s) \subseteq DOMAIN said
    BY AwaitingIsSaid
  <2> QED BY <2>1, <2>2, FS_Subset, FS_CardinalityType
<1>4. ASSUME NEW s \in Sides
      PROVE  JobWork(s) \in Nat /\ (JobWork(s) = 0 <=> job[s] = Idle)
  <2>1. CASE job[s] = Idle
    BY <2>1 DEF JobWork
  <2>2. CASE job[s] # Idle
    <3>1. job[s] \in Jobs
      BY <2>2, JobFacts
    <3>2. job[s].at \in 0..(Len(Handlers) + 2)
      BY <3>1 DEF Jobs
    <3>3. JobWork(s) = 3 * (Len(Handlers) + 3 - job[s].at)
      BY <2>2 DEF JobWork
    <3> QED BY <2>2, <3>2, <3>3, HandlersType
  <2> QED BY <2>1, <2>2
<1> QED BY <1>2, <1>3, <1>4, HandlersType DEF Trip

\* There is less to do if no message is new, and the queues grow by less than a
\* job has become shorter; or if a message is taken up, whatever its job is.
LEMMA LessToDo ==
  ASSUME NEW trip \in Nat, NEW m \in Nat, NEW n \in Nat, NEW c \in Nat, NEW d \in Nat,
         (d <= c /\ n < m) \/ (d + 1 <= c /\ n < m + trip)
  PROVE  n + trip * d < m + trip * c
<1>1. ASSUME NEW a \in Nat, NEW b \in Nat, a <= b PROVE trip * a <= trip * b
  <2>1. PICK e \in Nat : b = a + e
    BY <1>1, b - a \in Nat
  <2>2. trip * b = trip * a + trip * e /\ trip * e \in Nat /\ trip * a \in Nat
    BY <2>1
  <2> QED BY <2>2
<1>2. trip * c \in Nat /\ trip * d \in Nat /\ trip * (d + 1) = trip * d + trip /\ d + 1 \in Nat
  OBVIOUS
<1>3. CASE d <= c /\ n < m
  <2>1. trip * d <= trip * c
    BY <1>1, <1>3
  <2> QED BY <1>2, <1>3, <2>1
<1>4. CASE d + 1 <= c /\ n < m + trip
  <2>1. trip * (d + 1) <= trip * c
    BY <1>1, <1>2, <1>4
  <2> QED BY <1>2, <1>4, <2>1
<1> QED BY <1>3, <1>4

\* What waits is not more if nothing new does.
LEMMA FewerWait ==
  ASSUME NEW S, NEW T \in SUBSET S, IsFiniteSet(S)
  PROVE  /\ Cardinality(T) \in Nat /\ Cardinality(S) \in Nat /\ Cardinality(T) <= Cardinality(S)
         /\ \A x \in S \ T : Cardinality(T) + 1 <= Cardinality(S)
<1>1. IsFiniteSet(T) /\ Cardinality(T) \in Nat /\ Cardinality(S) \in Nat /\ Cardinality(T) <= Cardinality(S)
  BY FS_Subset, FS_CardinalityType
<1>2. ASSUME NEW x \in S \ T PROVE Cardinality(T) + 1 <= Cardinality(S)
  <2>1. IsFiniteSet(S \ {x}) /\ Cardinality(S \ {x}) = Cardinality(S) - 1
    BY <1>2, FS_RemoveElement
  <2>2. Cardinality(T) <= Cardinality(S \ {x})
    BY <1>2, <2>1, FS_Subset
  <2> QED BY <1>1, <2>1, <2>2
<1> QED BY <1>1, <1>2

\* What the bot posts itself makes a queue longer by one, and is no message.
LEMMA OwnPosts ==
  ASSUME IInv, NEW post \in Post, ~IsUsers(post)
  PROVE  /\ PostOnDiscord(post) =>
              /\ Len(events') \in Nat /\ Len(events') <= Len(events) + 1
              /\ Awaiting("discord")' \subseteq Awaiting("discord")
         /\ PostInRoom(post) /\ post.by = "bot" =>
              /\ Len(stanzas') \in Nat /\ Len(stanzas') <= Len(stanzas) + 1
              /\ Awaiting("room")' \subseteq Awaiting("room")
<1>1. stanzas \in Seq(Stanza) /\ events \in Seq(Post) /\ Len(stanzas) \in Nat /\ Len(events) \in Nat
  BY ToDoType DEF IInv, TypeOK
<1>2. ASSUME PostOnDiscord(post)
      PROVE  /\ Len(events') \in Nat /\ Len(events') <= Len(events) + 1
             /\ Awaiting("discord")' \subseteq Awaiting("discord")
  <2>1. CASE events' = events
    BY <1>1, <2>1, SameEvents
  <2>2. CASE events' = Append(events, post)
    <3>1. Len(events') = Len(events) + 1
      BY <1>1, <2>2
    <3>2. /\ DOMAIN events' = DOMAIN events \cup {Len(events) + 1} /\ events'[Len(events) + 1] = post
          /\ \A k \in DOMAIN events : events'[k] = events[k]
      BY <1>1, <2>2, Appended
    <3>3. Awaiting("discord")' \subseteq Awaiting("discord")
      BY <3>2 DEF Awaiting, IsUsers
    <3> QED BY <1>1, <3>1, <3>3
  <2> QED BY <1>2, <2>1, <2>2 DEF PostOnDiscord
<1>3. ASSUME PostInRoom(post), post.by = "bot"
      PROVE  /\ Len(stanzas') \in Nat /\ Len(stanzas') <= Len(stanzas) + 1
             /\ Awaiting("room")' \subseteq Awaiting("room")
  <2>1. CASE stanzas' = stanzas
    BY <1>1, <2>1, SameStanzas
  <2>2. CASE stanzas' = Append(stanzas, [post |-> post, history |-> FALSE])
    <3>1. PICK st \in Stanza : st = [post |-> post, history |-> FALSE]
      BY DEF Stanza
    <3>2. st.post.by = "bot"
      BY <1>3, <3>1
    <3>3. Len(stanzas') = Len(stanzas) + 1
      BY <1>1, <2>2
    <3>4. /\ DOMAIN stanzas' = DOMAIN stanzas \cup {Len(stanzas) + 1} /\ stanzas'[Len(stanzas) + 1] = st
          /\ \A k \in DOMAIN stanzas : stanzas'[k] = stanzas[k]
      BY <1>1, <2>2, <3>1, Appended
    <3>5. Awaiting("room")' \subseteq Awaiting("room")
      BY <3>2, <3>4 DEF Awaiting, IsNews
    <3> QED BY <1>1, <3>3, <3>5
  <2> QED BY <1>3, <2>1, <2>2 DEF PostInRoom
<1> QED BY <1>2, <1>3

\* The two queues and the two jobs, taken together.
LEMMA ToDo ==
  ASSUME IInv,
         Len(stanzas') \in Nat, Len(events') \in Nat,
         Awaiting("room")' \subseteq Awaiting("room"),
         Awaiting("discord")' \subseteq Awaiting("discord"),
         JobWork("room")' \in Nat, JobWork("discord")' \in Nat,
         \/ InHand' < InHand
         \/ /\ InHand' < InHand + Trip
            /\ \/ \E id \in Awaiting("room") : id \notin Awaiting("room")'
               \/ \E id \in Awaiting("discord") : id \notin Awaiting("discord")'
  PROVE  Unfinished' < Unfinished
<1>1. /\ Trip \in Nat /\ Len(stanzas) \in Nat /\ Len(events) \in Nat
      /\ JobWork("room") \in Nat /\ JobWork("discord") \in Nat
      /\ IsFiniteSet(Awaiting("room")) /\ IsFiniteSet(Awaiting("discord"))
  BY ToDoType DEF Sides
<1>2. /\ Cardinality(Awaiting("room")') \in Nat /\ Cardinality(Awaiting("room")) \in Nat
      /\ Cardinality(Awaiting("room")') <= Cardinality(Awaiting("room"))
      /\ \A id \in Awaiting("room") \ Awaiting("room")' :
           Cardinality(Awaiting("room")') + 1 <= Cardinality(Awaiting("room"))
  BY <1>1, FewerWait
<1>3. /\ Cardinality(Awaiting("discord")') \in Nat /\ Cardinality(Awaiting("discord")) \in Nat
      /\ Cardinality(Awaiting("discord")') <= Cardinality(Awaiting("discord"))
      /\ \A id \in Awaiting("discord") \ Awaiting("discord")' :
           Cardinality(Awaiting("discord")') + 1 <= Cardinality(Awaiting("discord"))
  BY <1>1, FewerWait
<1>4. InHand \in Nat /\ InHand' \in Nat /\ Waiting \in Nat /\ Waiting' \in Nat
  <2>1. InHand \in Nat
    BY <1>1 DEF InHand
  <2>2. InHand' \in Nat
    BY DEF InHand
  <2>3. Waiting \in Nat /\ Waiting' \in Nat
    BY <1>2, <1>3 DEF Waiting
  <2> QED BY <2>1, <2>2, <2>3
<1>5. (Waiting' <= Waiting /\ InHand' < InHand) \/ (Waiting' + 1 <= Waiting /\ InHand' < InHand + Trip)
  <2>1. Waiting' <= Waiting
    BY <1>2, <1>3 DEF Waiting
  <2>2. ASSUME \/ \E id \in Awaiting("room") : id \notin Awaiting("room")'
               \/ \E id \in Awaiting("discord") : id \notin Awaiting("discord")'
        PROVE  Waiting' + 1 <= Waiting
    BY <1>2, <1>3, <2>2 DEF Waiting
  <2> QED BY <2>1, <2>2
<1>6. InHand' + Trip * Waiting' < InHand + Trip * Waiting
  BY <1>1, <1>4, <1>5, LessToDo
<1> QED BY <1>6 DEF Unfinished, Trip

\* A step of a thread that has a message: two posts at most.
LEMMA JobStep ==
  ASSUME IInv, NEW s \in Sides, job[s] # Idle,
         \A u \in Sides \ {s} : job'[u] = job[u],
         job'[s] = Idle \/ (job'[s] \in Jobs /\ job'[s].at = job[s].at + 1),
         Len(stanzas') \in Nat, Len(stanzas') <= Len(stanzas) + 1,
         Len(events') \in Nat, Len(events') <= Len(events) + 1,
         Awaiting("room")' \subseteq Awaiting("room"),
         Awaiting("discord")' \subseteq Awaiting("discord")
  PROVE  Unfinished' < Unfinished
<1>1. job[s] \in Jobs /\ job[s].at \in Nat /\ job[s].at <= Len(Handlers) + 2
  BY JobFacts, HandlersType DEF Jobs
<1>2. JobWork(s) = 3 * (Len(Handlers) + 3 - job[s].at)
  BY DEF JobWork
<1>3. JobWork(s)' \in Nat /\ JobWork(s)' + 3 <= JobWork(s)
  <2>1. CASE job'[s] = Idle
    BY <1>1, <1>2, <2>1, HandlersType DEF JobWork
  <2>2. CASE job'[s] # Idle
    <3>1. job'[s].at = job[s].at + 1 /\ job[s].at + 1 <= Len(Handlers) + 2
      BY <2>2, <1>1, HandlersType DEF Jobs
    <3>2. JobWork(s)' = 3 * (Len(Handlers) + 3 - (job[s].at + 1))
      BY <2>2, <3>1 DEF JobWork
    <3>3. \A n, a \in Nat : a + 1 <= n + 2 =>
            /\ 3 * (n + 3 - (a + 1)) \in Nat
            /\ 3 * (n + 3 - (a + 1)) + 3 <= 3 * (n + 3 - a)
      OBVIOUS
    <3> QED BY <1>1, <1>2, <3>1, <3>2, <3>3, HandlersType
  <2> QED BY <2>1, <2>2
<1>4. \A u \in Sides \ {s} : JobWork(u)' = JobWork(u) /\ JobWork(u) \in Nat
  BY ToDoType DEF JobWork
<1>5. /\ Len(stanzas) \in Nat /\ Len(events) \in Nat
      /\ JobWork("room") \in Nat /\ JobWork("discord") \in Nat
  BY ToDoType DEF Sides
<1>6. /\ JobWork("room")' \in Nat /\ JobWork("discord")' \in Nat
      /\ JobWork("room")' + JobWork("discord")' + 3 <= JobWork("room") + JobWork("discord")
  <2>1. CASE s = "room"
    <3>1. JobWork("discord")' = JobWork("discord")
      BY <1>4, <2>1 DEF Sides
    <3> QED BY <1>3, <1>5, <2>1, <3>1
  <2>2. CASE s = "discord"
    <3>1. JobWork("room")' = JobWork("room")
      BY <1>4, <2>2 DEF Sides
    <3> QED BY <1>3, <1>5, <2>2, <3>1
  <2> QED BY <2>1, <2>2 DEF Sides
<1>7. InHand' < InHand
  BY <1>5, <1>6, SMTT(30) DEF InHand
<1>8. JobWork("room")' \in Nat /\ JobWork("discord")' \in Nat
  BY <1>6
<1> QED BY <1>7, <1>8, ToDo, Zenon

LEMMA TakenNearer ==
  ASSUME IInv, HandleStanza \/ HandleEvent
  PROVE  Unfinished' < Unfinished
<1>1. /\ Trip = 3 * (Len(Handlers) + 3) /\ Len(Handlers) \in Nat
      /\ Len(stanzas) \in Nat /\ Len(events) \in Nat
      /\ JobWork("room") \in Nat /\ JobWork("discord") \in Nat
  BY ToDoType, HandlersType DEF Sides, Trip
<1>2. stanzas \in Seq(Stanza) /\ events \in Seq(Post) /\ job \in [Sides -> {Idle} \cup Jobs]
  BY DEF IInv, TypeOK
<1>3. CASE HandleStanza
  <2>1. /\ stanzas # <<>> /\ stanzas' = Tail(stanzas) /\ events' = events /\ job["room"] = Idle
    BY <1>3 DEF HandleStanza
  <2>2. Len(stanzas') = Len(stanzas) - 1 /\ Len(stanzas') \in Nat
    BY <1>2, <2>1
  <2>3. /\ Awaiting("room")' \subseteq Awaiting("room")
        /\ IsNews(Head(stanzas)) =>
             /\ Head(stanzas).post.id \in Awaiting("room")
             /\ \A id \in Awaiting("room")' : Head(stanzas).post.id < id
        /\ Head(stanzas) \in Stanza
    BY <2>1, StanzaTaken
  <2>4. Awaiting("discord")' = Awaiting("discord")
    BY <2>1, SameEvents
  <2>5. JobWork("room") = 0
    BY <2>1 DEF JobWork
  <2>6. CASE ~IsNews(Head(stanzas))
    <3>1. JobWork("room")' = JobWork("room") /\ JobWork("discord")' = JobWork("discord")
      BY <1>3, <2>6 DEF HandleStanza, JobWork
    <3>2. InHand' < InHand
      BY <1>1, <2>1, <2>2, <3>1 DEF InHand
    <3> QED BY <1>1, <2>1, <2>2, <2>3, <2>4, <3>1, <3>2, ToDo
  <2>7. CASE IsNews(Head(stanzas))
    <3>1. Head(stanzas).post.id \in Nat
      BY <2>3, PostType
    <3>2. Head(stanzas).post.id \notin Awaiting("room")'
      BY <2>3, <2>7, <3>1
    <3>3. /\ job'["room"] = [id |-> Head(stanzas).post.id, at |-> 1]
          /\ job'["discord"] = job["discord"]
      BY <1>2, <1>3, <2>7 DEF HandleStanza, Sides
    <3>4. JobWork("room")' = 3 * (Len(Handlers) + 2) /\ JobWork("discord")' = JobWork("discord")
      BY <1>1, <3>3 DEF JobWork, Idle
    <3>5. InHand' < InHand + Trip
      BY <1>1, <2>1, <2>2, <2>5, <3>4 DEF InHand
    <3>6. \/ \E id \in Awaiting("room") : id \notin Awaiting("room")'
          \/ \E id \in Awaiting("discord") : id \notin Awaiting("discord")'
      BY <2>3, <2>7, <3>2
    <3>7. JobWork("room")' \in Nat /\ JobWork("discord")' \in Nat
      BY <1>1, <3>4
    <3> QED BY <1>1, <2>1, <2>2, <2>3, <2>4, <3>5, <3>6, <3>7, ToDo
  <2> QED BY <2>6, <2>7
<1>4. CASE HandleEvent
  <2>1. /\ events # <<>> /\ events' = Tail(events) /\ stanzas' = stanzas /\ job["discord"] = Idle
    BY <1>4 DEF HandleEvent
  <2>2. Len(events') = Len(events) - 1 /\ Len(events') \in Nat
    BY <1>2, <2>1
  <2>3. /\ Awaiting("discord")' \subseteq Awaiting("discord")
        /\ IsUsers(Head(events)) =>
             /\ Head(events).id \in Awaiting("discord")
             /\ \A id \in Awaiting("discord")' : Head(events).id < id
        /\ Head(events) \in Post
    BY <2>1, EventTaken
  <2>4. Awaiting("room")' = Awaiting("room")
    BY <2>1, SameStanzas
  <2>5. JobWork("discord") = 0
    BY <2>1 DEF JobWork
  <2>6. CASE ~IsUsers(Head(events))
    <3>1. JobWork("room")' = JobWork("room") /\ JobWork("discord")' = JobWork("discord")
      BY <1>4, <2>6 DEF HandleEvent, JobWork
    <3>2. InHand' < InHand
      BY <1>1, <2>1, <2>2, <3>1 DEF InHand
    <3> QED BY <1>1, <2>1, <2>2, <2>3, <2>4, <3>1, <3>2, ToDo
  <2>7. CASE IsUsers(Head(events))
    <3>1. Head(events).id \in Nat
      BY <2>3, PostType
    <3>2. Head(events).id \notin Awaiting("discord")'
      BY <2>3, <2>7, <3>1
    <3>3. PICK first \in {0, 1} : /\ job'["discord"] = [id |-> Head(events).id, at |-> first]
                                  /\ job'["room"] = job["room"]
      BY <1>2, <1>4, <2>7 DEF HandleEvent, Sides
    <3>4. /\ JobWork("discord")' \in {0, 3 * (Len(Handlers) + 2), 3 * (Len(Handlers) + 3)}
          /\ JobWork("room")' = JobWork("room")
      BY <1>1, <3>3 DEF JobWork
    <3>5. InHand' < InHand + Trip
      BY <1>1, <2>1, <2>2, <2>5, <3>4 DEF InHand
    <3>6. \/ \E id \in Awaiting("room") : id \notin Awaiting("room")'
          \/ \E id \in Awaiting("discord") : id \notin Awaiting("discord")'
      BY <2>3, <2>7, <3>2
    <3>7. JobWork("room")' \in Nat /\ JobWork("discord")' \in Nat
      BY <1>1, <3>4
    <3> QED BY <1>1, <2>1, <2>2, <2>3, <2>4, <3>5, <3>6, <3>7, ToDo
  <2> QED BY <2>6, <2>7
<1> QED BY <1>3, <1>4

\* The queue of a side that a step leaves alone.
LEMMA QuietQueues ==
  ASSUME IInv
  PROVE  /\ UNCHANGED stanzas => /\ Len(stanzas') \in Nat /\ Len(stanzas') <= Len(stanzas) + 1
                                 /\ Awaiting("room")' \subseteq Awaiting("room")
         /\ UNCHANGED events => /\ Len(events') \in Nat /\ Len(events') <= Len(events) + 1
                                /\ Awaiting("discord")' \subseteq Awaiting("discord")
BY ToDoType, SameStanzas, SameEvents

LEMMA CopyNearer ==
  ASSUME IInv, job["room"] # Idle, Copy(job["room"].id), UNCHANGED stanzas,
         job["room"].at <= Len(Handlers) + 1, GoOn("room")
  PROVE  Unfinished' < Unfinished
<1>1. /\ job'["room"] \in Jobs /\ job'["room"].at = job["room"].at + 1 /\ "room" \in Sides
      /\ \A u \in Sides \ {"room"} : job'[u] = job[u]
  BY NextPlace DEF Sides
<1>2. Len(events') \in Nat /\ Len(events') <= Len(events) + 1
      /\ Awaiting("discord")' \subseteq Awaiting("discord")
  <2>1. CASE UNCHANGED events
    BY <2>1, QuietQueues
  <2>2. CASE ~UNCHANGED events
    <3>1. PICK post : /\ post = [id |-> job["room"].id, kind |-> "mirror",
                                 by |-> IF webhook THEN "webhook" ELSE "bot"]
                      /\ PostOnDiscord(post)
      BY <2>2 DEF Copy
    <3>2. post \in Post /\ ~IsUsers(post)
      BY <1>1, <3>1, JobFacts DEF Post, IsUsers
    <3> QED BY <3>1, <3>2, OwnPosts
  <2> QED BY <2>1, <2>2
<1> QED BY <1>1, <1>2, QuietQueues, JobStep

LEMMA ReplyNearer ==
  ASSUME IInv, NEW s \in Sides, job[s] # Idle, Reply(s)
  PROVE  Unfinished' < Unfinished
<1>1. PICK post : post = [id |-> job[s].id, kind |-> "reply", by |-> "bot"]
  OBVIOUS
<1>2. post \in Post /\ ~IsUsers(post) /\ post.by = "bot"
  BY <1>1, JobFacts DEF Post, IsUsers
<1>3. /\ PostInRoom(post) \/ UNCHANGED stanzas
      /\ PostOnDiscord(post) /\ job' = [job EXCEPT ![s] = Idle]
  BY <1>1 DEF Reply
<1>4. job'[s] = Idle /\ \A u \in Sides \ {s} : job'[u] = job[u]
  BY <1>3 DEF IInv, TypeOK
<1>5. /\ Len(stanzas') \in Nat /\ Len(stanzas') <= Len(stanzas) + 1
      /\ Awaiting("room")' \subseteq Awaiting("room")
  BY <1>2, <1>3, OwnPosts, QuietQueues
<1>6. /\ Len(events') \in Nat /\ Len(events') <= Len(events) + 1
      /\ Awaiting("discord")' \subseteq Awaiting("discord")
  BY <1>2, <1>3, OwnPosts
<1> QED BY <1>4, <1>5, <1>6, JobStep

\* A step in which a thread only goes on, or has done.
LEMMA QuietNearer ==
  ASSUME IInv, NEW s \in Sides, job[s] # Idle, UNCHANGED <<stanzas, events>>,
         job' = [job EXCEPT ![s] = Idle] \/ (job[s].at <= Len(Handlers) + 1 /\ GoOn(s))
  PROVE  Unfinished' < Unfinished
<1>1. /\ job'[s] = Idle \/ (job'[s] \in Jobs /\ job'[s].at = job[s].at + 1)
      /\ \A u \in Sides \ {s} : job'[u] = job[u]
  <2>1. CASE job' = [job EXCEPT ![s] = Idle]
    BY <2>1 DEF IInv, TypeOK
  <2>2. CASE job[s].at <= Len(Handlers) + 1 /\ GoOn(s)
    BY <2>2, NextPlace
  <2> QED BY <2>1, <2>2
<1> QED BY <1>1, QuietQueues, JobStep

LEMMA MirrorInRoomNearer ==
  ASSUME IInv, MirrorInRoom
  PROVE  Unfinished' < Unfinished
<1>1. /\ job["discord"] # Idle /\ job["discord"].at = 0 /\ "discord" \in Sides
      /\ job' = [job EXCEPT !["discord"].at = 1] /\ UNCHANGED events
  BY DEF MirrorInRoom, Sides
<1>2. job["discord"] \in Jobs /\ job \in [Sides -> {Idle} \cup Jobs] /\ job["discord"].id \in Ids
  BY <1>1, JobFacts DEF IInv, TypeOK
<1>3. PICK task : task = [job["discord"] EXCEPT !.at = 1]
  OBVIOUS
<1>4. task \in Jobs /\ task.at = 1
  BY <1>2, <1>3, HandlersType DEF Jobs
<1>5. job' = [job EXCEPT !["discord"] = task]
  BY <1>1, <1>3
<1>6. job'["discord"] = task /\ \A u \in Sides \ {"discord"} : job'[u] = job[u]
  BY <1>1, <1>2, <1>5
<1>7. /\ Len(stanzas') \in Nat /\ Len(stanzas') <= Len(stanzas) + 1
      /\ Awaiting("room")' \subseteq Awaiting("room")
  <2>1. CASE UNCHANGED stanzas
    BY <2>1, QuietQueues
  <2>2. CASE ~UNCHANGED stanzas
    <3>1. PICK post : /\ post = [id |-> job["discord"].id, kind |-> "mirror", by |-> "bot"]
                      /\ PostInRoom(post)
      BY <2>2 DEF MirrorInRoom
    <3>2. post \in Post /\ ~IsUsers(post) /\ post.by = "bot"
      BY <1>2, <3>1 DEF Post, IsUsers
    <3> QED BY <3>1, <3>2, OwnPosts
  <2> QED BY <2>1, <2>2
<1>8. job'["discord"].at = job["discord"].at + 1
  BY <1>1, <1>4, <1>6
<1> QED BY <1>1, <1>4, <1>6, <1>7, <1>8, QuietQueues, JobStep

LEMMA NearerStep ==
  ASSUME IInv, Stream \/ Gateway
  PROVE  Unfinished' < Unfinished
<1>1. CASE HandleStanza \/ HandleEvent
  BY <1>1, TakenNearer
<1>2. CASE MirrorInRoom
  BY <1>2, MirrorInRoomNearer
<1>3. ASSUME NEW s \in Sides, Mirror(s) PROVE Unfinished' < Unfinished
  <2>1. /\ job[s].at \in DOMAIN Handlers /\ GoOn(s) /\ UNCHANGED stanzas
        /\ IF s = "room" THEN Copy(job[s].id) ELSE UNCHANGED events
    BY <1>3 DEF Mirror, Offered
  <2>2. job[s] # Idle /\ job[s].at <= Len(Handlers) + 1
    BY <2>1, HandlersType DEF Idle
  <2>3. CASE s = "room"
    BY <2>1, <2>2, <2>3, CopyNearer
  <2>4. CASE s # "room"
    BY <2>1, <2>2, <2>4, QuietNearer
  <2> QED BY <2>3, <2>4
<1>4. CASE MirrorOwn
  <2>1. /\ job["room"].at = 1 /\ GoOn("room") /\ Copy(job["room"].id) /\ UNCHANGED stanzas
    BY <1>4 DEF MirrorOwn
  <2>2. job["room"] # Idle /\ job["room"].at <= Len(Handlers) + 1
    BY <2>1, HandlersType DEF Idle
  <2> QED BY <2>1, <2>2, CopyNearer
<1>5. ASSUME NEW s \in Sides, Answer(s) \/ AnswerOwn(s) PROVE Unfinished' < Unfinished
  <2>1. Reply(s) /\ (job[s].at \in DOMAIN Handlers \/ job[s].at \in {1, 2})
    BY <1>5 DEF Answer, AnswerOwn, Offered, Own
  <2>2. job[s] # Idle
    BY <2>1, HandlersType DEF Idle
  <2> QED BY <2>1, <2>2, ReplyNearer
<1>6. ASSUME NEW s \in Sides, Ignore(s) PROVE Unfinished' < Unfinished
  <2>1. job[s].at \in DOMAIN Handlers /\ GoOn(s) /\ UNCHANGED <<stanzas, events>>
    BY <1>6 DEF Ignore, Offered
  <2>2. job[s] # Idle /\ job[s].at <= Len(Handlers) + 1
    BY <2>1, HandlersType DEF Idle
  <2> QED BY <2>1, <2>2, QuietNearer
<1>7. ASSUME NEW s \in Sides, HandlersDone(s) PROVE Unfinished' < Unfinished
  <2>1. job[s].at > Len(Handlers) /\ job' = [job EXCEPT ![s] = Idle] /\ UNCHANGED <<stanzas, events>>
    BY <1>7 DEF HandlersDone
  <2>2. job[s] # Idle
    BY <2>1, HandlersType DEF Idle
  <2> QED BY <2>1, <2>2, QuietNearer
<1> QED BY <1>1, <1>2, <1>3, <1>4, <1>5, <1>6, <1>7 DEF Stream, Gateway, Sides

\* The argument behind ComesToRest, which itself is about fairness: what is left
\* to do is a number that each step of the bot's two threads makes smaller, so
\* that only what people say, or a new start, gives it something to do again.
THEOREM BotSettles == Spec => [][NearerToRest]_vars
<1>1. IInv => Unfinished \in Nat /\ (Unfinished = 0 <=> AtRest)
  <2> SUFFICES ASSUME IInv PROVE Unfinished \in Nat /\ (Unfinished = 0 <=> AtRest)
    OBVIOUS
  <2> DEFINE c == Cardinality(Awaiting("room")) + Cardinality(Awaiting("discord"))
  <2>1. /\ Trip \in Nat
        /\ Len(stanzas) \in Nat /\ (Len(stanzas) = 0 <=> stanzas = <<>>)
        /\ Len(events) \in Nat /\ (Len(events) = 0 <=> events = <<>>)
        /\ Cardinality(Awaiting("room")) \in Nat /\ Cardinality(Awaiting("discord")) \in Nat
        /\ JobWork("room") \in Nat /\ (JobWork("room") = 0 <=> job["room"] = Idle)
        /\ JobWork("discord") \in Nat /\ (JobWork("discord") = 0 <=> job["discord"] = Idle)
    BY ToDoType DEF Sides
  <2>2. c \in Nat /\ Trip * c \in Nat
    BY <2>1
  <2>3. stanzas = <<>> /\ events = <<>> => c = 0
    <3> SUFFICES ASSUME stanzas = <<>>, events = <<>> PROVE c = 0
      OBVIOUS
    <3>1. DOMAIN stanzas = {} /\ DOMAIN events = {}
      OBVIOUS
    <3>2. Awaiting("room") = {} /\ Awaiting("discord") = {}
      BY <3>1 DEF Awaiting
    <3>3. Cardinality(Awaiting("room")) = 0 /\ Cardinality(Awaiting("discord")) = 0
      BY <3>2, FS_EmptySet
    <3> QED BY <3>3
  <2>4. Unfinished = (Len(stanzas) + Len(events) + JobWork("room") + JobWork("discord")) + Trip * c
    BY DEF Unfinished, InHand, Waiting
  <2>5. c = 0 => Trip * c = 0
    BY <2>1
  <2>6. AtRest <=> stanzas = <<>> /\ events = <<>> /\ job["room"] = Idle /\ job["discord"] = Idle
    BY DEF AtRest, Sides
  <2> HIDE DEF c
  <2> QED BY <2>1, <2>2, <2>3, <2>4, <2>5, <2>6
<1>2. IInv => NearerToRest
  BY <1>1, NearerStep DEF NearerToRest
<1> QED BY Invariance, <1>2, PTL DEF Spec
=============================================================================
