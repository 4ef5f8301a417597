---------------------------- MODULE ThreadsProofs ----------------------------
(***************************************************************************)
(* What holds of the components that several threads work on, whatever the *)
(* order of their steps: proofs that TLAPS checks of safety properties of  *)
(* Webhooks (any number of handlers, requests and kills), LeagueLookup     *)
(* (any tables and answers), Urls (any rules and messages) and Process     *)
(* (any lists of handlers, reloads, restarts and edits of the file).       *)
(***************************************************************************)
EXTENDS Process, LeagueLookup, Webhooks, Urls, TLAPS, FiniteSetTheorems, SequenceTheorems

-----------------------------------------------------------------------------
(* Selected entries of a sequence                                          *)

LEMMA LeastNatural ==
  ASSUME NEW T \in SUBSET Nat, T # {}
  PROVE  \E m \in T : \A n \in T : m <= n
<1> DEFINE R == {ss \in Nat \X Nat : ss[1] < ss[2]}
<1>1. IsWellFoundedOn(R, Nat)
  BY NatLessThanWellFounded DEF OpToRel
<1>2. PICK m \in T : \A y \in T : ~ (<<y, m>> \in R)
  <2> HIDE DEF R
  <2> QED BY <1>1, WFMin
<1>3. ASSUME NEW n \in T PROVE m <= n
  <2>1. <<n, m>> \in Nat \X Nat /\ m \in Nat /\ n \in Nat
    OBVIOUS
  <2>2. ~(n < m)
    BY <2>1, <1>2
  <2> QED BY <2>1, <2>2
<1> QED BY <1>2, <1>3

LEMMA Ranks ==
  ASSUME NEW n \in Nat, NEW P \in SUBSET (1..n)
  PROVE  /\ Cardinality(P) \in Nat
         /\ \A i \in P : Rank(P, i) \in 1..Cardinality(P)
         /\ \A i, j \in P : i < j => Rank(P, i) < Rank(P, j)
         /\ \A k \in 1..Cardinality(P) : \E i \in P : Rank(P, i) = k
<1> DEFINE Upto(m) == {j \in P : j <= m}
<1>1. /\ \A j \in P : j \in Nat /\ 1 <= j /\ j <= n
      /\ IsFiniteSet(P) /\ Cardinality(P) \in Nat
  <2>1. \A j \in P : j \in Nat /\ 1 <= j /\ j <= n
    OBVIOUS
  <2>2. IsFiniteSet(1..n)
    BY FS_Interval
  <2>3. IsFiniteSet(P)
    BY <2>2, FS_Subset
  <2> QED BY <2>1, <2>3, FS_CardinalityType
<1>2. \A m \in Nat : /\ IsFiniteSet(Upto(m))
                     /\ Rank(P, m) = Cardinality(Upto(m)) /\ Rank(P, m) \in Nat
  <2> TAKE m \in Nat
  <2>1. IsFiniteSet(Upto(m))
    BY <1>1, FS_Subset
  <2> QED BY <2>1, FS_CardinalityType DEF Rank
<1>3. ASSUME NEW m \in Nat
      PROVE  Rank(P, m + 1) = IF m + 1 \in P THEN Rank(P, m) + 1 ELSE Rank(P, m)
  <2>1. CASE m + 1 \in P
    <3>0. \A j \in P : j <= m + 1 <=> j <= m \/ j = m + 1
      BY <1>1
    <3>1. Upto(m + 1) = Upto(m) \cup {m + 1}
      BY <2>1, <3>0, Zenon
    <3>2. m + 1 \notin Upto(m)
      OBVIOUS
    <3> HIDE DEF Upto
    <3>3. Cardinality(Upto(m + 1)) = Cardinality(Upto(m)) + 1
      BY <1>2, <3>1, <3>2, FS_AddElement
    <3> QED BY <1>2, <2>1, <3>3
  <2>2. CASE m + 1 \notin P
    <3>0. \A j \in P : j <= m + 1 <=> j <= m
      BY <1>1, <2>2
    <3>1. Upto(m + 1) = Upto(m)
      BY <3>0
    <3> HIDE DEF Upto
    <3> QED BY <1>2, <2>2, <3>1
  <2> QED BY <2>1, <2>2
<1>4. Rank(P, 0) = 0 /\ Rank(P, n) = Cardinality(P)
  <2>0. \A j \in P : ~(j <= 0) /\ j <= n
    BY <1>1
  <2>1. Upto(0) = {} /\ Upto(n) = P
    BY <2>0
  <2> HIDE DEF Upto
  <2> QED BY <1>2, <2>1, FS_EmptySet
<1>5. ASSUME NEW i \in P, NEW j \in P, i < j PROVE Rank(P, i) < Rank(P, j)
  <2>0. j <= j /\ ~(j <= i) /\ \A l \in P : l <= i => l <= j
    BY <1>1, <1>5
  <2>1. Upto(i) \cup {j} \subseteq Upto(j) /\ j \notin Upto(i)
    BY <2>0
  <2> HIDE DEF Upto
  <2>2. IsFiniteSet(Upto(i)) /\ IsFiniteSet(Upto(j))
    BY <1>1, <1>2
  <2>3. Cardinality(Upto(i) \cup {j}) = Cardinality(Upto(i)) + 1
    BY <2>1, <2>2, FS_AddElement
  <2>4. Cardinality(Upto(i) \cup {j}) <= Cardinality(Upto(j))
    BY <2>1, <2>2, FS_Subset
  <2> QED BY <1>1, <1>2, <2>3, <2>4
<1>6. ASSUME NEW i \in P PROVE Rank(P, i) \in 1..Cardinality(P)
  <2>1. Upto(i) \subseteq P /\ i \in Upto(i)
    BY <1>1
  <2> HIDE DEF Upto
  <2>2. Cardinality(Upto(i)) <= Cardinality(P)
    BY <1>1, <2>1, FS_Subset
  <2>3. Cardinality(Upto(i)) # 0
    BY <1>1, <1>2, <2>1, FS_EmptySet
  <2> QED BY <1>1, <1>2, <2>2, <2>3
<1>7. ASSUME NEW k \in 1..Cardinality(P) PROVE \E i \in P : Rank(P, i) = k
  <2> DEFINE Reached == {m \in Nat : k <= Rank(P, m)}
  <2>1. Reached \in SUBSET Nat /\ n \in Reached
    BY <1>1, <1>4
  <2>2. PICK m \in Reached : \A l \in Reached : m <= l
    BY <2>1, LeastNatural
  <2>3. m \in Nat /\ m # 0 /\ k <= Rank(P, m)
    BY <1>1, <1>4, <2>2
  <2>4. m - 1 \in Nat /\ ~(k <= Rank(P, m - 1))
    BY <2>2, <2>3
  <2>5. Rank(P, m) = IF m \in P THEN Rank(P, m - 1) + 1 ELSE Rank(P, m - 1)
    BY <1>3, <2>3, <2>4
  <2>6. k \in Nat /\ Rank(P, m) \in Nat /\ Rank(P, m - 1) \in Nat
    <3>1. k \in Nat
      BY <1>1
    <3> QED BY <1>2, <2>3, <2>4, <3>1
  <2>7. m \in P /\ Rank(P, m) = k
    BY <2>3, <2>4, <2>5, <2>6
  <2> QED BY <2>7
<1> QED BY <1>1, <1>5, <1>6, <1>7

\* What is selected is what is at the positions, in the order of the positions.
LEMMA SelectedFacts ==
  ASSUME NEW S, NEW seq \in Seq(S), NEW P \in SUBSET DOMAIN seq
  PROVE  /\ Selected(seq, P) \in Seq(S)
         /\ Range(Selected(seq, P)) = {seq[i] : i \in P}
         /\ \A k, l \in DOMAIN Selected(seq, P) : k < l =>
              \E i, j \in P : i < j /\ Selected(seq, P)[k] = seq[i] /\ Selected(seq, P)[l] = seq[j]
<1> DEFINE n == Cardinality(P)
           place(k) == CHOOSE i \in P : Rank(P, i) = k
           list == Selected(seq, P)
<1>1. Len(seq) \in Nat /\ DOMAIN seq = 1..Len(seq) /\ P \in SUBSET (1..Len(seq))
      /\ \A i \in P : i \in Nat
  OBVIOUS
<1>2. /\ n \in Nat
      /\ \A i \in P : Rank(P, i) \in 1..n
      /\ \A i, j \in P : i < j => Rank(P, i) < Rank(P, j)
      /\ \A k \in 1..n : \E i \in P : Rank(P, i) = k
  BY <1>1, Ranks, Zenon
<1>3. \A k \in 1..n : place(k) \in P /\ Rank(P, place(k)) = k
  BY <1>2, Zenon
<1>4. \A i \in P : place(Rank(P, i)) = i
  <2>1. ASSUME NEW i \in P, NEW j \in P, Rank(P, i) = Rank(P, j) PROVE i = j
    <3>1. i \in Nat /\ j \in Nat /\ Rank(P, i) \in Nat
      BY <1>1, <1>2
    <3>2. ~(i < j) /\ ~(j < i)
      BY <1>2, <2>1, <3>1
    <3> QED BY <3>1, <3>2
  <2> HIDE DEF place
  <2> QED BY <1>2, <1>3, <2>1
<1>5. list = [k \in 1..n |-> seq[place(k)]]
  BY DEF Selected
<1> HIDE DEF place, list, n
<1>6. list \in Seq(S) /\ DOMAIN list = 1..n /\ \A k \in 1..n : list[k] = seq[place(k)]
  <2>1. \A k \in 1..n : seq[place(k)] \in S
    BY <1>1, <1>3
  <2> QED BY <1>2, <1>5, <2>1
<1>7. Range(list) = {seq[i] : i \in P}
  BY <1>2, <1>3, <1>4, <1>6 DEF Range
<1>8. ASSUME NEW k \in DOMAIN list, NEW l \in DOMAIN list, k < l
      PROVE  place(k) < place(l)
  <2>1. k \in 1..n /\ l \in 1..n /\ place(k) \in P /\ place(l) \in P
    BY <1>3, <1>6
  <2>2. /\ place(k) \in Nat /\ place(l) \in Nat /\ k \in Nat /\ l \in Nat
        /\ Rank(P, place(k)) = k /\ Rank(P, place(l)) = l
    BY <1>1, <1>2, <1>3, <2>1
  <2>3. place(l) < place(k) => l < k
    BY <1>2, <2>1, <2>2
  <2>4. place(k) # place(l)
    BY <1>8, <2>2
  <2>5. ~(l < k)
    BY <1>8, <2>2
  <2> QED BY <2>2, <2>3, <2>4, <2>5
<1>9. \A k, l \in DOMAIN list : k < l =>
        \E i, j \in P : i < j /\ list[k] = seq[i] /\ list[l] = seq[j]
  BY <1>3, <1>6, <1>8
<1> QED BY <1>6, <1>7, <1>9 DEF list

-----------------------------------------------------------------------------
(* Webhooks                                                                *)

GithubTypeOK ==
  /\ bot \in {"live", "dying", "dead"}
  /\ presence \in {"coming", "there", "left"}
  /\ server \in [Handlers -> {"none", "starting", "made", "listening", "ended", "gone"}]
  /\ stopping \in Handlers \cup {Nobody}
  /\ port \in Handlers \cup {Nobody}
  /\ posting \in [Handlers -> Requests \cup {Nobody}]
  /\ hook \in [Requests -> Hooks \cup {NoHook}]
  /\ stage \in [Requests -> {"unsent", "waiting", "posting", "replied", "answered", "lost"}]
  /\ code \in [Requests -> {0, 200, 400, 500}]
  /\ announced \in [Requests -> Nat]
  /\ shown \subseteq Requests /\ apart \subseteq Requests
  /\ crashed \in {"none", "threadDropped", "latePost", "exception"} /\ kills \in Nat

\* Only the server that has the port handles requests, and a bot that is gone
\* has left no server behind.
OneServes ==
  /\ \A g \in Handlers :
       /\ server[g] = "listening" => port = g
       /\ posting[g] # Nobody => server[g] = "listening" /\ stage[posting[g]] = "posting"
       /\ bot = "dead" => server[g] \in {"none", "gone"}

Fits(h) == h.header /\ h.json /\ ~Malformed(h)
Belongs(h) == Fits(h) /\ Printed(h)

\* What has become of a request is written in its stage.
Right(h, how, sent, times) ==
  /\ how \in {"unsent", "waiting", "posting"} => times = 0
  /\ how = "posting" => Belongs(h)
  /\ how \in {"replied", "answered"} =>
       /\ times = (IF Belongs(h) THEN 1 ELSE 0)
       /\ sent = 200 <=> Fits(h)
  /\ times <= (IF Belongs(h) THEN 1 ELSE 0)

RequestsOK == \A r \in Requests : Right(hook[r], stage[r], code[r], announced[r])

\* A post that is missing in the room belongs to a request that is listed as such
\* before it is made.
ShownOK ==
  /\ \A r \in Requests : r \in shown => announced[r] = 1
  /\ \A r \in Requests : announced[r] = 1 => r \in shown \cup apart
  /\ presence # "there" => \A r \in Requests : stage[r] \in {"waiting", "posting"} => r \in apart
  /\ bot # "live" => presence = "left"

GithubIInv == GithubTypeOK /\ OneServes /\ RequestsOK /\ ShownOK

LEMMA HooksType ==
  ASSUME WebhooksAssumption
  PROVE  /\ \A h \in Hooks \cup {NoHook} :
              /\ h.header \in BOOLEAN /\ h.json \in BOOLEAN
              /\ Printed(h) \in BOOLEAN /\ Malformed(h) \in BOOLEAN
         /\ ~Belongs(NoHook)
<1>1. \A h \in Hooks \cup {NoHook} :
        h.header \in BOOLEAN /\ h.json \in BOOLEAN /\ h.fit \in BOOLEAN
  <2>1. NoHook.header \in BOOLEAN /\ NoHook.json \in BOOLEAN /\ NoHook.fit \in BOOLEAN
    BY DEF NoHook
  <2>2. ASSUME NEW h \in Hooks
        PROVE  h.header \in BOOLEAN /\ h.json \in BOOLEAN /\ h.fit \in BOOLEAN
    <3>1. h \in [header : BOOLEAN, json : BOOLEAN, fit : BOOLEAN, type : STRING, action : STRING]
      BY DEF WebhooksAssumption
    <3> QED BY <3>1
  <2> QED BY <2>1, <2>2
<1>2. ASSUME NEW h \in Hooks \cup {NoHook} PROVE Printed(h) \in BOOLEAN
  <2> DEFINE kind == h.type
             Among(S) == h.action \notin S
  <2>1. CASE kind = "issues"
    <3>1. Printed(h) = Among({"labeled", "unlabeled", "unassigned"})
      BY <2>1 DEF Printed
    <3> QED BY <3>1
  <2>2. CASE kind = "pull_request"
    <3>1. Printed(h) = Among({"labeled", "unlabeled", "unassigned", "synchronize"})
      BY <2>2 DEF Printed
    <3> QED BY <3>1
  <2>3. CASE kind # "issues" /\ kind # "pull_request"
    <3>1. Printed(h) = (kind \in {"fork", "watch", "release"})
      BY <2>3 DEF Printed
    <3> QED BY <3>1
  <2> QED BY <2>1, <2>2, <2>3
<1>3. ~Belongs(NoHook)
  BY DEF Belongs, Fits, NoHook
<1>5. ASSUME NEW h \in Hooks \cup {NoHook} PROVE Malformed(h) \in BOOLEAN
  <2> DEFINE read == h.type \in {"issues", "pull_request", "fork", "watch", "release"}
  <2>1. Malformed(h) = (~h.fit /\ read)
    BY DEF Malformed
  <2>2. h.fit \in BOOLEAN /\ read \in BOOLEAN
    BY <1>1
  <2> HIDE DEF read
  <2> QED BY <2>1, <2>2
<1> QED BY <1>1, <1>2, <1>3, <1>5

LEMMA GithubNames ==
  ASSUME WebhooksAssumption
  PROVE  /\ Handlers \subseteq Nat /\ Requests \subseteq Nat
         /\ Nobody \notin Handlers /\ Nobody \notin Requests
         /\ Nobody = 0
BY DEF WebhooksAssumption, Handlers, Requests, Nobody

\* httpHandler replies at once, or posts what belongs in the chat.
LEMMA HandleCases ==
  ASSUME WebhooksAssumption, GithubTypeOK,
         NEW g \in Handlers, NEW r \in Requests, Handle(g, r)
  PROVE  \/ /\ Belongs(hook[r])
            /\ stage' = [stage EXCEPT ![r] = "posting"] /\ posting' = [posting EXCEPT ![g] = r]
            /\ UNCHANGED code
         \/ /\ ~Belongs(hook[r])
            /\ stage' = [stage EXCEPT ![r] = "replied"] /\ UNCHANGED posting
            /\ \E sent \in {200, 400, 500} :
                 /\ code' = [code EXCEPT ![r] = sent]
                 /\ sent = 200 <=> Fits(hook[r])
<1> DEFINE Replied(sent) ==
             /\ stage' = [stage EXCEPT ![r] = "replied"] /\ UNCHANGED posting
             /\ code' = [code EXCEPT ![r] = sent]
<1>1. hook[r] \in Hooks \cup {NoHook}
  BY DEF GithubTypeOK
<1>2. PICK header \in BOOLEAN, json \in BOOLEAN, printed \in BOOLEAN, bad \in BOOLEAN :
        /\ header = hook[r].header /\ json = hook[r].json /\ printed = Printed(hook[r])
        /\ bad = Malformed(hook[r])
  <2>1. /\ hook[r].header \in BOOLEAN /\ hook[r].json \in BOOLEAN
        /\ Printed(hook[r]) \in BOOLEAN /\ Malformed(hook[r]) \in BOOLEAN
    BY <1>1, HooksType, Zenon
  <2> QED BY <2>1, Zenon
<1>3. /\ Fits(hook[r]) <=> header /\ json /\ ~bad
      /\ Belongs(hook[r]) <=> header /\ json /\ ~bad /\ printed
  BY <1>2 DEF Belongs, Fits
<1>4. CASE ~header
  <2>1. Replied(400)
    BY <1>2, <1>4 DEF Handle
  <2> QED BY <1>2, <1>3, <1>4, <2>1
<1>5. CASE header /\ ~json
  <2>1. FormatWebhookMessage(hook[r]) = "JSONParseError"
    BY <1>2, <1>5 DEF FormatWebhookMessage
  <2>2. Replied(500)
    BY <1>2, <1>5, <2>1 DEF Handle
  <2> QED BY <1>2, <1>3, <1>5, <2>2
<1>8. ASSUME header, json, bad PROVE FALSE
  <2>1. FormatWebhookMessage(hook[r]) = "throws"
    BY <1>2, <1>8 DEF FormatWebhookMessage
  <2> QED BY <1>2, <1>8, <2>1 DEF Handle
<1>6. CASE header /\ json /\ ~bad /\ ~printed
  <2>0. FormatWebhookMessage(hook[r]) = "IgnoredHook"
    BY <1>2, <1>6 DEF FormatWebhookMessage
  <2>1. Replied(200)
    BY <1>2, <1>6, <2>0 DEF Handle
  <2> QED BY <1>2, <1>3, <1>6, <2>1
<1>7. CASE header /\ json /\ ~bad /\ printed
  <2>0. FormatWebhookMessage(hook[r]) = "OK"
    BY <1>2, <1>7 DEF FormatWebhookMessage
  <2> QED BY <1>2, <1>3, <1>7, <2>0 DEF Handle
<1> QED BY <1>4, <1>5, <1>6, <1>7, <1>8

LEMMA GithubTypeStep ==
  ASSUME WebhooksAssumption, GithubTypeOK, [WebhookNext]_webhookVars
  PROVE  GithubTypeOK'
<1> USE GithubNames DEF GithubTypeOK, serverVars, requestVars
<1>1. ASSUME NEW g \in Handlers, MakeServer(g) PROVE GithubTypeOK'
  BY <1>1 DEF MakeServer
<1>2. ASSUME NEW g \in Handlers, Bind(g) PROVE GithubTypeOK'
  BY <1>2 DEF Bind
<1>3. ASSUME NEW r \in Requests, NEW h \in Hooks, Deliver(r, h) PROVE GithubTypeOK'
  BY <1>3 DEF Deliver
<1>4. ASSUME NEW g \in Handlers, NEW r \in Requests, Handle(g, r)
      PROVE  GithubTypeOK'
  <2>1. \/ /\ stage' = [stage EXCEPT ![r] = "posting"] /\ posting' = [posting EXCEPT ![g] = r]
           /\ UNCHANGED code
        \/ /\ stage' = [stage EXCEPT ![r] = "replied"] /\ UNCHANGED posting
           /\ \E sent \in {200, 400, 500} : code' = [code EXCEPT ![r] = sent]
    BY <1>4, HandleCases
  <2>2. UNCHANGED <<bot, presence, server, stopping, port, crashed, kills, hook, announced,
                    shown, apart>>
    BY <1>4 DEF Handle
  <2>3. /\ stage' \in [Requests -> {"unsent", "waiting", "posting", "replied", "answered", "lost"}]
        /\ posting' \in [Handlers -> Requests \cup {Nobody}]
    BY <2>1
  <2>4. code' \in [Requests -> {0, 200, 400, 500}]
    BY <2>1
  <2> QED BY <2>2, <2>3, <2>4
<1>5. ASSUME NEW g \in Handlers, Posted(g) PROVE GithubTypeOK'
  <2>1. shown' \subseteq Requests
    BY <1>5 DEF Posted
  <2>2. /\ announced' \in [Requests -> Nat] /\ posting' \in [Handlers -> Requests \cup {Nobody}]
        /\ stage' \in [Requests -> {"unsent", "waiting", "posting", "replied", "answered", "lost"}]
        /\ code' \in [Requests -> {0, 200, 400, 500}]
    BY <1>5 DEF Posted
  <2> QED BY <1>5, <2>1, <2>2 DEF Posted
<1>6. ASSUME NEW g \in Handlers, NEW r \in Requests, WriteOut(g, r)
      PROVE  GithubTypeOK'
  BY <1>6 DEF WriteOut
<1>7. ASSUME NEW g \in Handlers, ReloadHandler(g) PROVE GithubTypeOK'
  BY <1>7 DEF ReloadHandler
<1>8. Dropped \in [Requests -> {"unsent", "waiting", "posting", "replied", "answered", "lost"}]
  BY DEF Dropped
<1>9. ASSUME NEW g \in Handlers, Stop(g) PROVE GithubTypeOK'
  <2>1. CASE server[g] = "starting"
    BY <1>8, <1>9, <2>1 DEF Stop, ProcessEnds
  <2>2. CASE server[g] # "starting"
    BY <1>9, <2>2 DEF Stop
  <2> QED BY <2>1, <2>2
<1>10. ASSUME NEW g \in Handlers, Break(g) PROVE GithubTypeOK'
  BY <1>8, <1>10 DEF Break
<1>11. ASSUME NEW g \in Handlers, Joined(g) PROVE GithubTypeOK'
  BY <1>11 DEF Joined
<1>12. CASE Kill
  <2>1. /\ kills' = kills + 1 /\ bot' = "dead" /\ crashed' = "none" /\ ProcessEnds
        /\ presence' = "left" /\ apart' \subseteq Requests
    BY <1>12 DEF Kill, Leave
  <2>2. bot' \in {"live", "dying", "dead"} /\ kills' \in Nat
    BY <2>1
  <2> QED BY <1>8, <2>1, <2>2 DEF ProcessEnds
<1>13. CASE RetireBot \/ LoseRoom
  <2>1. presence' = "left" /\ apart' \subseteq Requests
    BY <1>13 DEF RetireBot, LoseRoom, Leave
  <2> QED BY <1>13, <2>1 DEF RetireBot, LoseRoom
<1>14. CASE Dead \/ BuildBot \/ EnterRoom
  BY <1>14 DEF Dead, BuildBot, EnterRoom
<1>15. ASSUME NEW g \in Handlers, NEW r \in Requests, HandlerFails(g, r) \/ LatePost(g)
       PROVE  GithubTypeOK'
  BY <1>8, <1>15 DEF HandlerFails, LatePost, ProcessEnds
<1>16. ASSUME NEW g \in Handlers, LatePost(g) PROVE GithubTypeOK'
  BY <1>8, <1>16 DEF LatePost, ProcessEnds
<1>17. CASE UNCHANGED webhookVars
  BY <1>17 DEF webhookVars
<1> QED
  BY <1>1, <1>2, <1>3, <1>4, <1>5, <1>6, <1>7, <1>9, <1>10, <1>11, <1>12, <1>13, <1>14, <1>15,
     <1>16, <1>17
     DEF WebhookNext, Serve, MainThread

LEMMA OneServesStep ==
  ASSUME WebhooksAssumption, GithubTypeOK, OneServes, [WebhookNext]_webhookVars
  PROVE  OneServes'
<1> USE GithubNames DEF GithubTypeOK, OneServes, serverVars, requestVars
<1>1. ASSUME NEW g \in Handlers, MakeServer(g) PROVE OneServes'
  BY <1>1 DEF MakeServer
<1>2. ASSUME NEW g \in Handlers, Bind(g) PROVE OneServes'
  BY <1>2 DEF Bind
<1>3. ASSUME NEW r \in Requests, NEW h \in Hooks, Deliver(r, h) PROVE OneServes'
  BY <1>3 DEF Deliver
<1>4. ASSUME NEW g \in Handlers, NEW r \in Requests, Handle(g, r)
      PROVE  OneServes'
  BY <1>4 DEF Handle, Free
<1>5. ASSUME NEW g \in Handlers, Posted(g) PROVE OneServes'
  BY <1>5 DEF Posted
<1>6. ASSUME NEW g \in Handlers, NEW r \in Requests, WriteOut(g, r)
      PROVE  OneServes'
  BY <1>6 DEF WriteOut
<1>7. ASSUME NEW g \in Handlers, ReloadHandler(g) PROVE OneServes'
  BY <1>7 DEF ReloadHandler
<1>8. ASSUME NEW g \in Handlers, Stop(g) PROVE OneServes'
  BY <1>8 DEF Stop, ProcessEnds
<1>9. ASSUME NEW g \in Handlers, Break(g) PROVE OneServes'
  BY <1>9 DEF Break, Free
<1>10. ASSUME NEW g \in Handlers, Joined(g) PROVE OneServes'
  BY <1>10 DEF Joined
<1>11. CASE Kill
  BY <1>11 DEF Kill, ProcessEnds
<1>12. CASE RetireBot \/ Dead \/ BuildBot \/ EnterRoom \/ LoseRoom
  BY <1>12 DEF RetireBot, Dead, BuildBot, EnterRoom, LoseRoom
<1>13. CASE UNCHANGED webhookVars
  BY <1>13 DEF webhookVars
<1>14. CASE ProcessEnds /\ UNCHANGED bot
  BY <1>14 DEF ProcessEnds
<1>15. ASSUME NEW g \in Handlers, NEW r \in Requests, HandlerFails(g, r)
       PROVE  OneServes'
  BY <1>14, <1>15 DEF HandlerFails
<1>16. ASSUME NEW g \in Handlers, LatePost(g) PROVE OneServes'
  BY <1>14, <1>16 DEF LatePost
<1> QED
  BY <1>1, <1>2, <1>3, <1>4, <1>5, <1>6, <1>7, <1>8, <1>9, <1>10, <1>11, <1>12, <1>13, <1>15,
     <1>16
     DEF WebhookNext, Serve, MainThread

LEMMA RequestsStep ==
  ASSUME WebhooksAssumption, GithubTypeOK, OneServes, RequestsOK, [WebhookNext]_webhookVars
  PROVE  RequestsOK'
<1> USE GithubNames DEF GithubTypeOK, RequestsOK, serverVars
<1>1. ASSUME NEW r \in Requests, NEW h \in Hooks, Deliver(r, h) PROVE RequestsOK'
  <2>1. Right(h, stage'[r], code[r], announced[r])
    BY <1>1 DEF Deliver, Right
  <2> QED BY <1>1, <2>1 DEF Deliver
<1>2. ASSUME NEW g \in Handlers, NEW r \in Requests, Handle(g, r)
      PROVE  RequestsOK'
  <2> DEFINE h == hook[r]
  <2>1. stage[r] = "waiting" /\ announced[r] = 0 /\ h \in Hooks \cup {NoHook}
    BY <1>2 DEF Handle, Right
  <2>2. UNCHANGED <<hook, announced>>
    BY <1>2 DEF Handle
  <2>3. CASE /\ Belongs(h)
             /\ stage' = [stage EXCEPT ![r] = "posting"] /\ UNCHANGED code
    <3>1. Right(h, "posting", code[r], announced[r])
      BY <2>1, <2>3 DEF Right
    <3> QED BY <2>2, <2>3, <3>1
  <2>4. ASSUME ~Belongs(h), stage' = [stage EXCEPT ![r] = "replied"], NEW sent \in {200, 400, 500},
               code' = [code EXCEPT ![r] = sent], sent = 200 <=> Fits(h)
        PROVE  RequestsOK'
    <3>1. Right(h, "replied", sent, announced[r])
      BY <2>1, <2>4 DEF Right
    <3> QED BY <2>2, <2>4, <3>1
  <2> QED BY <1>2, <2>3, <2>4, HandleCases
<1>3. ASSUME NEW g \in Handlers, Posted(g) PROVE RequestsOK'
  <2> DEFINE r == posting[g]
  <2>1. r \in Requests /\ stage[r] = "posting"
    BY <1>3 DEF Posted, OneServes
  <2>2. announced[r] = 0 /\ Belongs(hook[r])
    BY <2>1 DEF Right
  <2>3. Right(hook[r], "replied", 200, 1)
    BY <2>1, <2>2 DEF Right, Belongs
  <2>4. /\ announced' = [announced EXCEPT ![r] = 1]
        /\ stage' = [stage EXCEPT ![r] = "replied"]
        /\ code' = [code EXCEPT ![r] = 200]
        /\ UNCHANGED hook
    BY <1>3, <2>1, <2>2 DEF Posted
  <2> QED BY <2>1, <2>3, <2>4
<1>4. ASSUME NEW g \in Handlers, NEW r \in Requests, WriteOut(g, r)
      PROVE  RequestsOK'
  <2>1. Right(hook[r], "answered", code[r], announced[r])
    BY <1>4 DEF WriteOut, Right
  <2> QED BY <1>4, <2>1 DEF WriteOut
<1>5. CASE stage' = Dropped /\ UNCHANGED <<hook, code, announced>>
  <2>1. ASSUME NEW r \in Requests PROVE Right(hook[r], stage'[r], code[r], announced[r])
    <3>1. stage'[r] = "lost" \/ stage'[r] = stage[r]
      BY <1>5 DEF Dropped
    <3>2. Right(hook[r], "lost", code[r], announced[r])
      BY DEF Right
    <3> QED BY <3>1, <3>2
  <2> QED BY <1>5, <2>1
<1>6. CASE UNCHANGED <<hook, stage, code, announced>>
  BY <1>6
<1>7. ASSUME NEW g \in Handlers,
             MakeServer(g) \/ Bind(g) \/ Break(g) \/ ReloadHandler(g)
               \/ Stop(g) \/ Joined(g) \/ LatePost(g)
      PROVE  RequestsOK'
  BY <1>5, <1>6, <1>7
     DEF MakeServer, Bind, Break, ReloadHandler, Stop, Joined, LatePost,
         ProcessEnds, requestVars
<1>10. ASSUME NEW g \in Handlers, NEW r \in Requests, HandlerFails(g, r)
       PROVE  RequestsOK'
  BY <1>5, <1>10 DEF HandlerFails, ProcessEnds
<1>8. CASE RetireBot \/ Dead \/ BuildBot \/ Kill \/ EnterRoom \/ LoseRoom
  BY <1>5, <1>6, <1>8
     DEF RetireBot, Dead, BuildBot, Kill, ProcessEnds, EnterRoom, LoseRoom,
         requestVars
<1>9. CASE UNCHANGED webhookVars
  BY <1>6, <1>9 DEF webhookVars
<1> QED
  BY <1>1, <1>2, <1>3, <1>4, <1>7, <1>8, <1>9, <1>10 DEF WebhookNext, Serve, MainThread

LEMMA ShownStep ==
  ASSUME WebhooksAssumption, GithubTypeOK, OneServes, RequestsOK, ShownOK,
         [WebhookNext]_webhookVars
  PROVE  ShownOK'
<1> USE GithubNames DEF GithubTypeOK, ShownOK, serverVars, requestVars
<1>1. ASSUME NEW r \in Requests, NEW h \in Hooks, Deliver(r, h) PROVE ShownOK'
  BY <1>1 DEF Deliver
<1>2. ASSUME NEW g \in Handlers, NEW r \in Requests, Handle(g, r) PROVE ShownOK'
  <2>1. /\ UNCHANGED <<bot, presence, announced, shown, apart>> /\ stage[r] = "waiting"
        /\ \E how \in {"posting", "replied"} : stage' = [stage EXCEPT ![r] = how]
    BY <1>2 DEF Handle
  <2> QED BY <2>1
<1>3. ASSUME NEW g \in Handlers, Posted(g) PROVE ShownOK'
  <2> DEFINE r == posting[g]
  <2>1. r \in Requests /\ stage[r] = "posting"
    BY <1>3 DEF Posted, OneServes
  <2>2. announced[r] = 0
    BY <2>1 DEF RequestsOK, Right
  <2>3. /\ announced' = [announced EXCEPT ![r] = 1]
        /\ shown' = IF presence = "there" THEN shown \cup {r} ELSE shown
        /\ stage' = [stage EXCEPT ![r] = "replied"]
        /\ UNCHANGED <<bot, presence, apart>>
    BY <1>3, <2>1, <2>2 DEF Posted
  <2> HIDE DEF r
  <2> QED BY <2>1, <2>2, <2>3
<1>4. ASSUME NEW g \in Handlers, NEW r \in Requests, WriteOut(g, r) PROVE ShownOK'
  BY <1>4 DEF WriteOut
<1>5. ASSUME stage' = Dropped, UNCHANGED <<bot, presence, announced, shown, apart>> PROVE ShownOK'
  <2>1. \A r \in Requests : stage'[r] \in {"waiting", "posting"} => stage'[r] = stage[r]
    BY <1>5 DEF Dropped
  <2> QED BY <1>5, <2>1
<1>6. CASE UNCHANGED <<bot, presence, stage, announced, shown, apart>>
  BY <1>6
<1>7. ASSUME NEW g \in Handlers,
             MakeServer(g) \/ Bind(g) \/ Break(g) \/ ReloadHandler(g)
               \/ Stop(g) \/ Joined(g) \/ LatePost(g)
      PROVE  ShownOK'
  BY <1>5, <1>6, <1>7
     DEF MakeServer, Bind, Break, ReloadHandler, Stop, Joined, LatePost, ProcessEnds
<1>8. ASSUME NEW g \in Handlers, NEW r \in Requests, HandlerFails(g, r) PROVE ShownOK'
  BY <1>5, <1>8 DEF HandlerFails, ProcessEnds
<1>9. CASE RetireBot \/ LoseRoom
  BY <1>9 DEF RetireBot, LoseRoom, Leave
<1>10. CASE EnterRoom
  BY <1>10 DEF EnterRoom
<1>11. CASE Dead
  BY <1>11 DEF Dead
<1>12. CASE BuildBot
  <2>1. presence = "left" /\ presence' = "coming" /\ bot' = "live"
    BY <1>12 DEF BuildBot
  <2> QED BY <1>12, <2>1 DEF BuildBot
<1>13. CASE Kill
  <2>1. /\ stage' = Dropped /\ UNCHANGED <<announced, shown>> /\ presence' = "left"
        /\ apart' = apart \cup {r \in Requests : stage[r] \in {"waiting", "posting"}}
    BY <1>13 DEF Kill, Leave, ProcessEnds
  <2>2. \A r \in Requests : stage'[r] \in {"waiting", "posting"} => stage'[r] = stage[r]
    BY <2>1 DEF Dropped
  <2> QED BY <2>1, <2>2
<1>14. CASE UNCHANGED webhookVars
  BY <1>6, <1>14 DEF webhookVars
<1> QED
  BY <1>1, <1>2, <1>3, <1>4, <1>7, <1>8, <1>9, <1>10, <1>11, <1>12, <1>13, <1>14
     DEF WebhookNext, Serve, MainThread

LEMMA GithubInvariance ==
  ASSUME WebhooksAssumption
  PROVE  WebhookSpec => []GithubIInv
<1>1. WebhookInit => GithubIInv
  <2> SUFFICES ASSUME WebhookInit PROVE GithubIInv
    OBVIOUS
  <2>1. GithubTypeOK
    <3>1. server \in [Handlers -> {"none", "starting", "made", "listening", "ended", "gone"}]
      <4>1. /\ server = [g \in Handlers |-> server[g]]
            /\ \A g \in Handlers : server[g] \in {"none", "starting"}
        BY DEF WebhookInit
      <4> QED BY <4>1
    <3> QED BY <3>1, GithubNames DEF WebhookInit, GithubTypeOK
  <2>2. OneServes
    BY GithubNames DEF WebhookInit, OneServes
  <2>3. RequestsOK
    BY HooksType DEF WebhookInit, RequestsOK, Right
  <2>4. ShownOK
    BY DEF WebhookInit, ShownOK
  <2> QED BY <2>1, <2>2, <2>3, <2>4 DEF GithubIInv
<1>2. GithubIInv /\ [WebhookNext]_webhookVars => GithubIInv'
  BY GithubTypeStep, OneServesStep, RequestsStep, ShownStep DEF GithubIInv
<1> QED BY <1>1, <1>2, PTL DEF WebhookSpec

\* GitHub is told 200 of an event that belongs in the chat only when it was given to
\* SendMessage, once, and if the bot was in the room from the request to the post, it
\* is there (GithubWebhooks, httpHandler).
THEOREM AckIsHonestCorrect == WebhookSpec => []AckIsHonest
<1> USE WebhooksAssumption
<1>1. ASSUME GithubIInv, NEW r \in Requests
      PROVE  /\ announced[r] <= (IF Belongs(hook[r]) THEN 1 ELSE 0)
             /\ r \in shown => announced[r] = 1
             /\ stage[r] = "answered" =>
                  /\ Belongs(hook[r]) => announced[r] = 1 /\ r \in shown \cup apart
                  /\ code[r] = 200 <=> Fits(hook[r])
  <2>1. Right(hook[r], stage[r], code[r], announced[r])
    BY <1>1 DEF GithubIInv, RequestsOK
  <2> QED BY <1>1, <2>1 DEF GithubIInv, ShownOK, Right
<1>2. GithubIInv => AckIsHonest
  BY <1>1 DEF AckIsHonest, Belongs, Fits
<1> QED BY <1>2, GithubInvariance, PTL

-----------------------------------------------------------------------------
(* LeagueLookup                                                            *)

Workers ==
  [state : {"none", "begun", "asking", "stuck", "ended"}, by : Callers \cup {None},
   list : Seq(Ids), heard : Seq(Replies), inGame : Seq(Ids), broken : Seq(Ids),
   said : Replies \cup {"nothing", "summary"}]

LeagueTypeOK ==
  /\ rows \in Seq(Ids)
  /\ at \in [Callers -> {"idle", "joining", "stale", "starting"}]
  /\ worker \in Workers
  /\ life \in {"live", "dying", "dead"}
  /\ fatal \in {"none", "misusedThread", "latePost", "exception"} /\ overlapped \in BOOLEAN

\* One thread at "!ll" finds that there is no other, and no old worker when it
\* starts the new one.
OneAtLL ==
  /\ fatal = "misusedThread" => overlapped
  /\ fatal = "latePost" => life = "dying" /\ worker.state = "ended"
  /\ life # "live" => \A t \in Callers : at[t] = "idle"
  /\ life = "dead" => worker.state = "none"
  /\ ~overlapped =>
       /\ \A t, u \in Callers : AtLL(t) /\ AtLL(u) => t = u
       /\ \A t \in Callers : at[t] # "stale"
       /\ \A t \in Callers : at[t] = "starting" => worker.state = "none"

Positions(w, replies) == {i \in DOMAIN w.heard : w.heard[i] \in replies}
Errors == Replies \ {"OK", "NotFound"}
Found == Replies \ {"NotFound"}

\* What the worker has made of the replies so far.
Noticed(w) ==
  /\ Len(w.heard) <= Len(Looked(w.list))
  /\ Range(w.inGame) = {w.list[i] : i \in Positions(w, {"OK"})}
  /\ Range(w.broken) = {w.list[i] : i \in Positions(w, Errors)}
  /\ Len(w.inGame) + Len(w.broken) = Cardinality(Positions(w, Found))

WorkerOK ==
  /\ worker.state = "begun" => worker.heard = <<>> /\ worker.inGame = <<>> /\ worker.broken = <<>>
  /\ worker.state = "asking" => Noticed(worker)
  /\ worker.state = "ended" /\ worker.said = "summary" =>
       Noticed(worker) /\ Len(worker.heard) = Len(Looked(worker.list))
  /\ worker.state = "ended" /\ worker.said # "summary" =>
       worker.heard # <<>> /\ worker.said = worker.heard[Len(worker.heard)]

LeagueIInv == LeagueTypeOK /\ OneAtLL /\ WorkerOK

LEMMA RepliesAre ==
  Replies = {"OK", "AccessDenied", "NotFound", "RateLimitReached", "InvalidJSON",
                    "UnexpectedResponseCode"}
<1> DEFINE Names == {"OK", "AccessDenied", "NotFound", "RateLimitReached", "InvalidJSON",
                   "UnexpectedResponseCode"}
<1>1. ASSUME NEW answer \in Answers PROVE RiotAPIRequest(answer) \in Names
  BY DEF RiotAPIRequest, Answers
<1>2. \A name \in Names : \E answer \in Answers : RiotAPIRequest(answer) = name
  <2>1. \E answer \in Answers : RiotAPIRequest(answer) = "OK"
    <3>1. PICK answer : answer = [status |-> 200, json |-> TRUE, fit |-> FALSE]
      OBVIOUS
    <3>2. answer \in Answers
      BY <3>1 DEF Answers
    <3>3. RiotAPIRequest(answer) = "OK"
      BY <3>1 DEF RiotAPIRequest
    <3> QED BY <3>2, <3>3
  <2>2. \E answer \in Answers : RiotAPIRequest(answer) = "InvalidJSON"
    <3>1. PICK answer : answer = [status |-> 200, json |-> FALSE, fit |-> FALSE]
      OBVIOUS
    <3>2. answer \in Answers
      BY <3>1 DEF Answers
    <3>3. RiotAPIRequest(answer) = "InvalidJSON"
      BY <3>1 DEF RiotAPIRequest
    <3> QED BY <3>2, <3>3
  <2>3. \E answer \in Answers : RiotAPIRequest(answer) = "AccessDenied"
    <3>1. PICK answer : answer = [status |-> 403, json |-> FALSE, fit |-> FALSE]
      OBVIOUS
    <3>2. answer \in Answers
      BY <3>1 DEF Answers
    <3>3. RiotAPIRequest(answer) = "AccessDenied"
      BY <3>1 DEF RiotAPIRequest
    <3> QED BY <3>2, <3>3
  <2>4. \E answer \in Answers : RiotAPIRequest(answer) = "NotFound"
    <3>1. PICK answer : answer = [status |-> 404, json |-> FALSE, fit |-> FALSE]
      OBVIOUS
    <3>2. answer \in Answers
      BY <3>1 DEF Answers
    <3>3. RiotAPIRequest(answer) = "NotFound"
      BY <3>1 DEF RiotAPIRequest
    <3> QED BY <3>2, <3>3
  <2>5. \E answer \in Answers : RiotAPIRequest(answer) = "RateLimitReached"
    <3>1. PICK answer : answer = [status |-> 429, json |-> FALSE, fit |-> FALSE]
      OBVIOUS
    <3>2. answer \in Answers
      BY <3>1 DEF Answers
    <3>3. RiotAPIRequest(answer) = "RateLimitReached"
      BY <3>1 DEF RiotAPIRequest
    <3> QED BY <3>2, <3>3
  <2>6. \E answer \in Answers : RiotAPIRequest(answer) = "UnexpectedResponseCode"
    <3>1. PICK answer : answer = [status |-> 0, json |-> FALSE, fit |-> FALSE]
      OBVIOUS
    <3>2. answer \in Answers
      BY <3>1 DEF Answers
    <3>3. RiotAPIRequest(answer) = "UnexpectedResponseCode"
      BY <3>1 DEF RiotAPIRequest
    <3> QED BY <3>2, <3>3
  <2> QED BY <2>1, <2>2, <2>3, <2>4, <2>5, <2>6
<1> QED BY <1>1, <1>2 DEF Replies

LEMMA WorkersType ==
  ASSUME NEW w \in Workers
  PROVE  /\ w.state \in {"none", "begun", "asking", "stuck", "ended"}
         /\ w.list \in Seq(Ids) /\ w.heard \in Seq(Replies)
         /\ w.inGame \in Seq(Ids) /\ w.broken \in Seq(Ids)
         /\ w.said \in Replies \cup {"nothing", "summary"}
BY DEF Workers

LEMMA NewWorkerType ==
  /\ NoWorker \in Workers /\ NoWorker.state = "none"
  /\ \A t \in Callers :
       LET w == [NoWorker EXCEPT !.state = "begun", !.by = t]
       IN /\ w \in Workers /\ w.state = "begun"
          /\ w.heard = <<>> /\ w.inGame = <<>> /\ w.broken = <<>>
<1>1. <<>> \in Seq(Ids) /\ <<>> \in Seq(Replies)
  OBVIOUS
<1> QED BY <1>1 DEF Workers, NoWorker

LEMMA AppendedTo ==
  ASSUME NEW S, NEW list \in Seq(S), NEW e \in S
  PROVE  /\ Append(list, e) \in Seq(S)
         /\ Len(list) \in Nat /\ DOMAIN list = 1..Len(list)
         /\ Len(Append(list, e)) = Len(list) + 1
         /\ DOMAIN Append(list, e) = DOMAIN list \cup {Len(list) + 1}
         /\ Len(list) + 1 \notin DOMAIN list
         /\ Append(list, e)[Len(list) + 1] = e
         /\ \A k \in DOMAIN list : Append(list, e)[k] = list[k]
         /\ Range(Append(list, e)) = Range(list) \cup {e}
<1>1. /\ Append(list, e) \in Seq(S)
      /\ Len(list) \in Nat /\ DOMAIN list = 1..Len(list)
      /\ Len(Append(list, e)) = Len(list) + 1
      /\ Append(list, e)[Len(list) + 1] = e
      /\ \A k \in 1..Len(list) : Append(list, e)[k] = list[k]
  OBVIOUS
<1>2. DOMAIN Append(list, e) = 1..(Len(list) + 1)
  BY <1>1
<1>3. 1..(Len(list) + 1) = 1..Len(list) \cup {Len(list) + 1} /\ Len(list) + 1 \notin 1..Len(list)
  BY <1>1
<1>4. Range(Append(list, e)) = Range(list) \cup {e}
  BY <1>1, <1>2, <1>3 DEF Range
<1> QED BY <1>1, <1>2, <1>3, <1>4

\* A lookup looks at no more than MaxSummoners of the list.
LEMMA LookedAt ==
  ASSUME LeagueAssumption, NEW list \in Seq(Ids)
  PROVE  /\ Len(list) \in Nat /\ Len(Looked(list)) \in Nat
         /\ Len(Looked(list)) = IF Len(list) < MaxSummoners THEN Len(list) ELSE MaxSummoners
<1> DEFINE n == IF Len(list) < MaxSummoners THEN Len(list) ELSE MaxSummoners
<1>1. Len(list) \in Nat /\ MaxSummoners \in Nat \ {0}
  BY DEF LeagueAssumption
<1>2. n \in Nat /\ n <= Len(list)
  BY <1>1
<1>3. Len(SubSeq(list, 1, n)) = n
  BY <1>1, <1>2
<1> QED BY <1>1, <1>2, <1>3 DEF Looked

\* A reply more.
LEMMA HeardOneMore ==
  ASSUME NEW w \in Workers, NEW v \in Workers, NEW reply \in Replies,
         v.heard = Append(w.heard, reply), NEW R
  PROVE  /\ Len(w.heard) \in Nat /\ Len(v.heard) = Len(w.heard) + 1
         /\ Positions(v, R) = Positions(w, R) \cup (IF reply \in R THEN {Len(w.heard) + 1} ELSE {})
         /\ Len(w.heard) + 1 \notin Positions(w, R)
         /\ IsFiniteSet(Positions(w, R)) /\ Cardinality(Positions(w, R)) \in Nat
<1>1. w.heard \in Seq(Replies)
  BY WorkersType
<1>2. /\ Len(w.heard) \in Nat /\ DOMAIN w.heard = 1..Len(w.heard)
      /\ Len(v.heard) = Len(w.heard) + 1
      /\ DOMAIN v.heard = DOMAIN w.heard \cup {Len(w.heard) + 1}
      /\ Len(w.heard) + 1 \notin DOMAIN w.heard
      /\ v.heard[Len(w.heard) + 1] = reply
      /\ \A k \in DOMAIN w.heard : v.heard[k] = w.heard[k]
  BY <1>1, AppendedTo
<1>3. Positions(v, R) = Positions(w, R) \cup (IF reply \in R THEN {Len(w.heard) + 1} ELSE {})
  BY <1>2 DEF Positions
<1>4. Positions(w, R) \subseteq 1..Len(w.heard)
  BY <1>2 DEF Positions
<1>5. IsFiniteSet(Positions(w, R))
  <2>1. IsFiniteSet(1..Len(w.heard))
    BY <1>2, FS_Interval
  <2> QED BY <1>4, <2>1, FS_Subset
<1>6. Cardinality(Positions(w, R)) \in Nat
  BY <1>5, FS_CardinalityType
<1>7. Len(w.heard) + 1 \notin Positions(w, R)
  BY <1>2 DEF Positions
<1> QED BY <1>2, <1>3, <1>5, <1>6, <1>7

LEMMA NoticedOneMore ==
  ASSUME LeagueAssumption, NEW w \in Workers, NEW v \in Workers, Noticed(w),
         NEW reply \in Replies, v.heard = Append(w.heard, reply), v.list = w.list,
         Len(w.heard) + 1 <= Len(Looked(w.list)),
         NEW id \in Ids, id = w.list[Len(w.heard) + 1],
         \/ reply = "NotFound" /\ v.inGame = w.inGame /\ v.broken = w.broken
         \/ reply \in Errors /\ v.inGame = w.inGame /\ v.broken = Append(w.broken, id)
         \/ reply = "OK" /\ v.inGame = Append(w.inGame, id) /\ v.broken = w.broken
  PROVE  Noticed(v)
<1> DEFINE n == Len(w.heard) + 1
<1>1. Len(v.heard) <= Len(Looked(v.list))
  BY HeardOneMore
<1>2. /\ Len(w.inGame) \in Nat /\ Len(w.broken) \in Nat
      /\ Range(Append(w.inGame, id)) = Range(w.inGame) \cup {id}
      /\ Range(Append(w.broken, id)) = Range(w.broken) \cup {id}
      /\ Len(Append(w.inGame, id)) = Len(w.inGame) + 1
      /\ Len(Append(w.broken, id)) = Len(w.broken) + 1
  <2>1. w.inGame \in Seq(Ids) /\ w.broken \in Seq(Ids)
    BY WorkersType
  <2>2. /\ Len(w.inGame) \in Nat /\ Len(Append(w.inGame, id)) = Len(w.inGame) + 1
        /\ Range(Append(w.inGame, id)) = Range(w.inGame) \cup {id}
    BY <2>1, AppendedTo
  <2>3. /\ Len(w.broken) \in Nat /\ Len(Append(w.broken, id)) = Len(w.broken) + 1
        /\ Range(Append(w.broken, id)) = Range(w.broken) \cup {id}
    BY <2>1, AppendedTo
  <2> QED BY <2>2, <2>3
<1>3. /\ "OK" \notin Errors /\ "NotFound" \notin Errors /\ "OK" # "NotFound"
      /\ \A r \in Errors : r # "OK" /\ r # "NotFound" /\ r \in Found
      /\ "OK" \in Found /\ "NotFound" \notin Found
  BY RepliesAre DEF Errors, Found
<1>4. /\ Positions(v, {"OK"}) = Positions(w, {"OK"}) \cup (IF reply = "OK" THEN {n} ELSE {})
      /\ Positions(v, Errors) = Positions(w, Errors) \cup (IF reply \in Errors THEN {n} ELSE {})
      /\ Positions(v, Found) = Positions(w, Found) \cup (IF reply \in Found THEN {n} ELSE {})
  <2>1. \A R : Positions(v, R) = Positions(w, R) \cup (IF reply \in R THEN {n} ELSE {})
    BY HeardOneMore
  <2>2. Positions(v, {"OK"}) = Positions(w, {"OK"}) \cup (IF reply \in {"OK"} THEN {n} ELSE {})
    BY <2>1
  <2> QED BY <2>1, <2>2
<1>5. /\ n \notin Positions(w, Found)
      /\ IsFiniteSet(Positions(w, Found)) /\ Cardinality(Positions(w, Found)) \in Nat
  BY HeardOneMore
<1>6. Cardinality(Positions(w, Found) \cup {n}) = Cardinality(Positions(w, Found)) + 1
  BY <1>5, FS_AddElement
<1>7. CASE reply = "NotFound"
  <2>1. /\ Positions(v, {"OK"}) = Positions(w, {"OK"})
        /\ Positions(v, Errors) = Positions(w, Errors)
        /\ Positions(v, Found) = Positions(w, Found)
    BY <1>3, <1>4, <1>7
  <2>2. v.inGame = w.inGame /\ v.broken = w.broken
    BY <1>3, <1>7
  <2> QED BY <1>1, <2>1, <2>2 DEF Noticed
<1>8. CASE reply \in Errors
  <2>1. /\ Positions(v, {"OK"}) = Positions(w, {"OK"})
        /\ Positions(v, Errors) = Positions(w, Errors) \cup {n}
        /\ Positions(v, Found) = Positions(w, Found) \cup {n}
    BY <1>3, <1>4, <1>8
  <2>2. v.inGame = w.inGame /\ v.broken = Append(w.broken, id)
    BY <1>3, <1>8
  <2>3. Range(v.broken) = {v.list[i] : i \in Positions(v, Errors)}
    BY <1>2, <2>1, <2>2 DEF Noticed
  <2>4. Len(w.inGame) + Len(w.broken) = Cardinality(Positions(w, Found))
    BY DEF Noticed
  <2>5. Cardinality(Positions(v, Found)) = Cardinality(Positions(w, Found)) + 1
    BY <1>6, <2>1
  <2>6. Len(v.inGame) + Len(v.broken) = Cardinality(Positions(v, Found))
    <3>1. PICK a \in Nat, b \in Nat, c \in Nat :
            a = Len(w.inGame) /\ b = Len(w.broken) /\ c = Cardinality(Positions(w, Found))
      BY <1>2, <1>5
    <3>2. /\ a + b = c /\ Cardinality(Positions(v, Found)) = c + 1
          /\ Len(v.inGame) = a /\ Len(v.broken) = b + 1
      BY <1>2, <2>2, <2>4, <2>5, <3>1
    <3>3. a + (b + 1) = c + 1
      BY <3>2
    <3> QED BY <3>2, <3>3
  <2> QED BY <1>1, <2>1, <2>2, <2>3, <2>6 DEF Noticed
<1>9. CASE reply = "OK"
  <2>1. /\ Positions(v, {"OK"}) = Positions(w, {"OK"}) \cup {n}
        /\ Positions(v, Errors) = Positions(w, Errors)
        /\ Positions(v, Found) = Positions(w, Found) \cup {n}
    BY <1>3, <1>4, <1>9
  <2>2. v.inGame = Append(w.inGame, id) /\ v.broken = w.broken
    BY <1>3, <1>9
  <2>3. Range(v.inGame) = {v.list[i] : i \in Positions(v, {"OK"})}
    BY <1>2, <2>1, <2>2 DEF Noticed
  <2>4. Len(w.inGame) + Len(w.broken) = Cardinality(Positions(w, Found))
    BY DEF Noticed
  <2>5. Cardinality(Positions(v, Found)) = Cardinality(Positions(w, Found)) + 1
    BY <1>6, <2>1
  <2>6. Len(v.inGame) + Len(v.broken) = Cardinality(Positions(v, Found))
    <3>1. PICK a \in Nat, b \in Nat, c \in Nat :
            a = Len(w.inGame) /\ b = Len(w.broken) /\ c = Cardinality(Positions(w, Found))
      BY <1>2, <1>5
    <3>2. /\ a + b = c /\ Cardinality(Positions(v, Found)) = c + 1
          /\ Len(v.inGame) = a + 1 /\ Len(v.broken) = b
      BY <1>2, <2>2, <2>4, <2>5, <3>1
    <3>3. (a + 1) + b = c + 1
      BY <3>2
    <3> QED BY <3>2, <3>3
  <2> QED BY <1>1, <2>1, <2>2, <2>3, <2>6 DEF Noticed
<1> QED BY <1>7, <1>8, <1>9

\* What a reply about a summoner makes of the worker, case by case.
Follows(w, v, id, reply) ==
  /\ v \in Workers /\ v.list = w.list /\ v.heard = Append(w.heard, reply)
  /\ \/ reply = "NotFound" /\ v.state = w.state /\ v.said = w.said
          /\ v.inGame = w.inGame /\ v.broken = w.broken
     \/ reply \in Errors /\ v.state = w.state /\ v.said = w.said
          /\ v.inGame = w.inGame /\ v.broken = Append(w.broken, id)
     \/ reply = "OK" /\ v.state = w.state /\ v.said = w.said
          /\ v.inGame = Append(w.inGame, id) /\ v.broken = w.broken
     \/ reply \in {"AccessDenied", "RateLimitReached"} /\ v.state = "ended" /\ v.said = reply

LEMMA NotedCases ==
  ASSUME NEW w \in Workers, NEW id \in Ids, NEW reply \in Replies,
         NEW v, v = Noted([w EXCEPT !.heard = Append(@, reply)], id, reply)
  PROVE  Follows(w, v, id, reply)
<1> DEFINE heard == [w EXCEPT !.heard = Append(@, reply)]
<1>1. /\ Append(w.heard, reply) \in Seq(Replies)
      /\ Append(w.inGame, id) \in Seq(Ids) /\ Append(w.broken, id) \in Seq(Ids)
  BY WorkersType, AppendedTo
<1>2. /\ heard \in Workers /\ heard.heard = Append(w.heard, reply) /\ heard.list = w.list
      /\ heard.inGame = w.inGame /\ heard.broken = w.broken
      /\ heard.state = w.state /\ heard.said = w.said
  BY <1>1 DEF Workers
<1>0. v = Noted(heard, id, reply)
  OBVIOUS
<1> HIDE DEF heard, Follows
<1>3. CASE reply = "NotFound"
  <2>1. v = heard
    BY <1>0, <1>3 DEF Noted
  <2> QED BY <1>2, <1>3, <2>1 DEF heard, Follows
<1>4. CASE reply \in {"AccessDenied", "RateLimitReached"}
  <2>1. v = [heard EXCEPT !.state = "ended", !.said = reply]
    BY <1>0, <1>4 DEF Noted
  <2>2. /\ v \in Workers /\ v.list = heard.list /\ v.heard = heard.heard
        /\ v.state = "ended" /\ v.said = reply
    BY <1>2, <2>1 DEF Workers
  <2> QED BY <1>2, <1>4, <2>2 DEF heard, Follows
<1>5. CASE reply \in {"UnexpectedResponseCode", "InvalidJSON"}
  <2>1. v = [heard EXCEPT !.broken = Append(@, id)]
    BY <1>0, <1>5 DEF Noted
  <2>2. /\ v \in Workers /\ v.list = heard.list /\ v.heard = heard.heard
        /\ v.state = heard.state /\ v.said = heard.said
        /\ v.inGame = heard.inGame /\ v.broken = Append(w.broken, id)
    BY <1>1, <1>2, <2>1 DEF Workers
  <2>3. reply \in Errors
    BY <1>5, RepliesAre DEF Errors
  <2> QED BY <1>2, <2>2, <2>3 DEF heard, Follows
<1>6. CASE reply = "OK"
  <2>1. v = [heard EXCEPT !.inGame = Append(@, id)]
    BY <1>0, <1>6 DEF Noted
  <2>2. /\ v \in Workers /\ v.list = heard.list /\ v.heard = heard.heard
        /\ v.state = heard.state /\ v.said = heard.said
        /\ v.inGame = Append(w.inGame, id) /\ v.broken = heard.broken
    BY <1>1, <1>2, <2>1 DEF Workers
  <2> QED BY <1>2, <1>6, <2>2 DEF heard, Follows
<1> QED BY <1>3, <1>4, <1>5, <1>6, RepliesAre

\* A step of the worker that hears of a summoner.
LEMMA RequestStep ==
  ASSUME LeagueAssumption, LeagueTypeOK, WorkerOK,
         NEW answer \in Answers, Request(answer)
  PROVE  worker' \in Workers /\ WorkerOK'
<1> DEFINE n == Len(worker.heard) + 1
<1>1. worker \in Workers /\ worker.state = "asking" /\ Noticed(worker)
  BY DEF LeagueTypeOK, Request, WorkerOK
<1>2. n <= Len(Looked(worker.list))
  BY DEF Request
<1>3. PICK reply \in Replies : reply = RiotAPIRequest(answer)
  BY DEF Replies
<1>4. PICK id \in Ids : id = worker.list[n]
  <2>1. worker.list \in Seq(Ids) /\ worker.heard \in Seq(Replies)
    BY <1>1, WorkersType
  <2>2. Len(worker.heard) \in Nat
    BY <2>1
  <2>3. n \in 1..Len(worker.list)
    BY <1>2, <2>1, <2>2, LookedAt DEF LeagueAssumption
  <2> QED BY <2>1, <2>3
<1>5. PICK v : v = worker'
  OBVIOUS
<1>6. /\ worker' \in Workers /\ worker'.list = worker.list
      /\ worker'.heard = Append(worker.heard, reply)
      /\ \/ reply = "NotFound" /\ worker'.state = worker.state /\ worker'.said = worker.said
              /\ worker'.inGame = worker.inGame /\ worker'.broken = worker.broken
         \/ reply \in Errors /\ worker'.state = worker.state /\ worker'.said = worker.said
              /\ worker'.inGame = worker.inGame /\ worker'.broken = Append(worker.broken, id)
         \/ reply = "OK" /\ worker'.state = worker.state /\ worker'.said = worker.said
              /\ worker'.inGame = Append(worker.inGame, id) /\ worker'.broken = worker.broken
         \/ reply \in {"AccessDenied", "RateLimitReached"} /\ worker'.state = "ended"
              /\ worker'.said = reply
  <2>3. v = Noted([worker EXCEPT !.heard = Append(@, reply)], id, reply)
    BY <1>3, <1>4, <1>5 DEF Request
  <2>4. Follows(worker, v, id, reply)
    BY <1>1, <1>3, <1>4, <2>3, NotedCases
  <2> QED BY <1>5, <2>4 DEF Follows
<1>7. CASE worker'.state = "ended" /\ worker'.said = reply /\ reply \in {"AccessDenied", "RateLimitReached"}
  <2>1. /\ worker'.heard # <<>> /\ worker'.heard[Len(worker'.heard)] = reply
    <3>1. worker.heard \in Seq(Replies)
      BY <1>1, WorkersType
    <3>2. Len(Append(worker.heard, reply)) = n /\ Append(worker.heard, reply)[n] = reply /\ n # 0
      BY <1>3, <3>1
    <3>3. Append(worker.heard, reply) # <<>>
      BY <3>2
    <3> QED BY <1>6, <3>2, <3>3
  <2> QED BY <1>6, <1>7, <2>1 DEF WorkerOK
<1>8. CASE worker'.state = worker.state
  <2>1. Noticed(worker')
    BY <1>1, <1>2, <1>3, <1>4, <1>6, <1>8, NoticedOneMore
  <2> QED BY <1>1, <1>6, <1>8, <2>1 DEF WorkerOK
<1> QED BY <1>6, <1>7, <1>8

LEMMA LeagueTypeStep ==
  ASSUME LeagueAssumption, LeagueTypeOK, WorkerOK, [LookupNext]_lookupVars
  PROVE  LeagueTypeOK'
<1> USE DEF LeagueTypeOK
<1>1. /\ NoWorker \in Workers
      /\ \A t \in Callers : [NoWorker EXCEPT !.state = "begun", !.by = t] \in Workers
  BY NewWorkerType
<1>2. ASSUME NEW t \in Callers, Command(t) PROVE LeagueTypeOK'
  <2>1. overlapped' \in BOOLEAN
    BY <1>2 DEF Command
  <2> QED BY <1>2, <2>1 DEF Command
<1>3. ASSUME NEW t \in Callers, Join(t) PROVE LeagueTypeOK'
  BY <1>1, <1>3 DEF Join
<1>4. ASSUME NEW t \in Callers, JoinStale(t) PROVE LeagueTypeOK'
  BY <1>4 DEF JoinStale
<1>5. ASSUME NEW t \in Callers, StartWorker(t) PROVE LeagueTypeOK'
  BY <1>1, <1>5 DEF StartWorker
<1>6. CASE ReadList
  <2>1. worker' \in Workers
    BY <1>6 DEF ReadList, Workers
  <2>2. fatal' \in {"none", "exception"}
    BY <1>6 DEF ReadList, Running
  <2> QED BY <1>6, <2>1, <2>2 DEF ReadList
<1>7. ASSUME NEW answer \in Answers, Request(answer) PROVE LeagueTypeOK'
  <2>1. worker' \in Workers
    BY <1>7, RequestStep
  <2>2. fatal' \in {"none", "latePost"} /\ UNCHANGED <<rows, at, life, overlapped>>
    BY <1>7 DEF Request, Says, Running
  <2> QED BY <2>1, <2>2
<1>8. CASE Summarise
  <2>1. worker' \in Workers
    BY <1>8 DEF Summarise, Workers
  <2>2. fatal' \in {"none", "latePost"}
    BY <1>8 DEF Summarise, Says
  <2> QED BY <1>8, <2>1, <2>2 DEF Summarise
<1>9. ASSUME NEW t \in Callers, NEW id \in Ids, NEW answer \in Answers,
             AddSummoner(t, id, answer)
      PROVE  LeagueTypeOK'
  <2>1. CASE Throws(t)
    BY <2>1 DEF Throws
  <2>2. CASE rows' = Append(rows, id) /\ UNCHANGED <<at, worker, life, fatal, overlapped>>
    <3>1. Append(rows, id) \in Seq(Ids)
      BY AppendedTo
    <3>2. rows' \in Seq(Ids)
      BY <2>2, <3>1
    <3> QED BY <2>2, <3>2
  <2> QED BY <1>9, <2>1, <2>2 DEF AddSummoner
<1>10. ASSUME NEW t \in Callers, NEW id \in Ids, DeleteSummoner(t, id) PROVE LeagueTypeOK'
  <2> DEFINE P == {i \in DOMAIN rows : rows[i] # id}
  <2>1. rows' = Selected(rows, P)
    BY <1>10 DEF DeleteSummoner
  <2>2. P \in SUBSET DOMAIN rows
    OBVIOUS
  <2> HIDE DEF P
  <2>3. rows' \in Seq(Ids)
    BY <2>1, <2>2, SelectedFacts
  <2> QED BY <1>10, <2>3 DEF DeleteSummoner
<1>11. CASE Retire \/ Rebuild \/ Destroy
  BY <1>1, <1>11 DEF Retire, Rebuild, Destroy
<1>12. CASE UNCHANGED lookupVars
  BY <1>12 DEF lookupVars
<1>13. CASE Stall
  <2>1. worker' \in Workers
    BY <1>13 DEF Stall, Workers
  <2> QED BY <1>13, <2>1 DEF Stall
<1>14. ASSUME NEW t \in Callers, NEW name \in Answers, NEW game \in Answers,
              LookupOne(t, name, game) \/ ListSummoners(t)
       PROVE  LeagueTypeOK'
  BY <1>14 DEF LookupOne, ListSummoners, Throws
<1>15. ASSUME NEW t \in Callers, ListSummoners(t) PROVE LeagueTypeOK'
  BY <1>15 DEF ListSummoners, Throws
<1> QED
  BY <1>2, <1>3, <1>4, <1>5, <1>6, <1>7, <1>8, <1>9, <1>10, <1>11, <1>12, <1>13, <1>14, <1>15
     DEF LookupNext, Continue, Work

LEMMA WorkerStep ==
  ASSUME LeagueAssumption, LeagueTypeOK, WorkerOK, [LookupNext]_lookupVars
  PROVE  WorkerOK'
<1>1. CASE UNCHANGED worker
  BY <1>1 DEF WorkerOK
<1>2. CASE worker' = NoWorker
  BY <1>2, NewWorkerType DEF WorkerOK
<1>3. ASSUME NEW t \in Callers, StartWorker(t) PROVE WorkerOK'
  BY <1>3, NewWorkerType DEF StartWorker, WorkerOK
<1>4. ASSUME ReadList, ~UNCHANGED worker PROVE WorkerOK'
  <2>1. PICK v : v = worker'
    OBVIOUS
  <2>2. /\ v.state = "asking" /\ v.list = rows
        /\ v.heard = <<>> /\ v.inGame = <<>> /\ v.broken = <<>>
    BY <1>4, <2>1 DEF ReadList, LeagueTypeOK, Workers, WorkerOK
  <2>3. \A R : Positions(v, R) = {}
    <3>1. DOMAIN <<>> = {}
      OBVIOUS
    <3> QED BY <2>2, <3>1 DEF Positions
  <2>4. Noticed(v)
    <3>1. Len(<<>>) = 0 /\ Range(<<>>) = {} /\ Cardinality({}) = 0
      BY FS_EmptySet DEF Range
    <3>2. 0 <= Len(Looked(v.list))
      <4>1. v.list \in Seq(Ids)
        BY <2>2 DEF LeagueTypeOK
      <4>2. Len(Looked(v.list)) \in Nat
        BY <4>1, LookedAt
      <4> QED BY <4>2
    <3>3. Len(v.inGame) + Len(v.broken) = 0 /\ Len(v.heard) = 0
      BY <2>2, <3>1
    <3>4. Range(v.inGame) = {} /\ Range(v.broken) = {}
      BY <2>2, <3>1
    <3> QED BY <2>3, <3>1, <3>2, <3>3, <3>4 DEF Noticed
  <2> QED BY <2>1, <2>2, <2>4 DEF WorkerOK
<1>5. ASSUME NEW answer \in Answers, Request(answer) PROVE WorkerOK'
  BY <1>5, RequestStep
<1>6. CASE Summarise
  <2>1. /\ worker.state = "asking" /\ Len(worker.heard) = Len(Looked(worker.list))
        /\ worker' = [worker EXCEPT !.state = "ended", !.said = "summary"]
    BY <1>6 DEF Summarise
  <2>2. PICK v : v = worker'
    OBVIOUS
  <2>3. /\ v.state = "ended" /\ v.said = "summary" /\ v.list = worker.list
        /\ v.heard = worker.heard /\ v.inGame = worker.inGame /\ v.broken = worker.broken
    BY <2>1, <2>2 DEF LeagueTypeOK, Workers
  <2>4. Noticed(v)
    <3>1. Noticed(worker)
      BY <2>1 DEF WorkerOK
    <3> QED BY <2>3, <3>1 DEF Noticed, Positions
  <2> QED BY <2>1, <2>2, <2>3, <2>4 DEF WorkerOK
<1>7. ASSUME NEW t \in Callers, Command(t) \/ Join(t) \/ JoinStale(t)
      PROVE  WorkerOK'
  BY <1>1, <1>2, <1>7 DEF Command, Join, JoinStale
<1>8. ASSUME NEW t \in Callers, NEW id \in Ids, NEW answer \in Answers,
             DeleteSummoner(t, id) \/ AddSummoner(t, id, answer)
      PROVE  WorkerOK'
  BY <1>1, <1>8 DEF DeleteSummoner, AddSummoner, Throws
<1>9. ASSUME NEW t \in Callers, NEW id \in Ids, DeleteSummoner(t, id)
      PROVE  WorkerOK'
  BY <1>1, <1>9 DEF DeleteSummoner
<1>10. CASE Retire \/ Rebuild \/ Destroy
  BY <1>1, <1>2, <1>10 DEF Retire, Rebuild, Destroy
<1>11. CASE UNCHANGED lookupVars
  BY <1>1, <1>11 DEF lookupVars
<1>12. CASE Stall
  <2>1. worker'.state = "stuck"
    BY <1>12 DEF Stall, LeagueTypeOK, Workers
  <2> QED BY <2>1 DEF WorkerOK
<1>13. ASSUME NEW t \in Callers, NEW name \in Answers, NEW game \in Answers,
              LookupOne(t, name, game)
       PROVE  WorkerOK'
  BY <1>1, <1>13 DEF LookupOne, Throws
<1>14. ASSUME NEW t \in Callers, ListSummoners(t) PROVE WorkerOK'
  BY <1>1, <1>14 DEF ListSummoners, Throws
<1> QED
  BY <1>1, <1>3, <1>4, <1>5, <1>6, <1>7, <1>8, <1>9, <1>10, <1>11, <1>12, <1>13, <1>14
     DEF LookupNext, Continue, Work

LEMMA OneAtLLStep ==
  ASSUME LeagueTypeOK, OneAtLL, [LookupNext]_lookupVars
  PROVE  OneAtLL'
<1> USE DEF LeagueTypeOK, OneAtLL, AtLL, Running
<1>1. ASSUME NEW t \in Callers, Command(t) PROVE OneAtLL'
  BY <1>1 DEF Command
<1>2. ASSUME NEW t \in Callers, Join(t) PROVE OneAtLL'
  BY <1>2, NewWorkerType DEF Join
<1>3. ASSUME NEW t \in Callers, JoinStale(t) PROVE OneAtLL'
  BY <1>3 DEF JoinStale
<1>4. ASSUME NEW t \in Callers, StartWorker(t) PROVE OneAtLL'
  BY <1>4 DEF StartWorker
<1>5. ASSUME UNCHANGED <<at, life, overlapped>>, worker.state # "none", life # "dead",
             \/ fatal' \in {"none", "exception"}
             \/ fatal' = "latePost" /\ life = "dying" /\ worker'.state = "ended"
      PROVE  OneAtLL'
  BY <1>5
<1>6. CASE Work \/ Stall
  <2>1. CASE ReadList
    BY <1>5, <2>1 DEF ReadList
  <2>2. ASSUME NEW answer \in Answers, Request(answer) PROVE OneAtLL'
    <3>1. /\ UNCHANGED <<at, life, overlapped>> /\ worker.state = "asking" /\ life # "dead"
          /\ IF worker'.state = "ended" THEN Says ELSE fatal' = "none"
      BY <2>2 DEF Request
    <3>2. \/ fatal' = "none"
          \/ fatal' = "latePost" /\ life = "dying" /\ worker'.state = "ended"
      BY <3>1 DEF Says
    <3> QED BY <1>5, <3>1, <3>2
  <2>3. CASE Summarise
    <3>1. worker'.state = "ended"
      BY <2>3 DEF Summarise, Workers
    <3> QED BY <1>5, <2>3, <3>1 DEF Summarise, Says
  <2>4. CASE Stall
    BY <1>5, <2>4 DEF Stall
  <2> QED BY <1>6, <2>1, <2>2, <2>3, <2>4 DEF Work
<1>7. ASSUME NEW t \in Callers, Ready(t), Throws(t) PROVE OneAtLL'
  BY <1>7 DEF Throws, Ready
<1>12. ASSUME NEW t \in Callers, NEW id \in Ids, NEW answer \in Answers,
              AddSummoner(t, id, answer)
       PROVE  OneAtLL'
  <2>1. CASE Throws(t)
    BY <1>7, <1>12, <2>1 DEF AddSummoner
  <2>2. CASE UNCHANGED <<at, worker, life, fatal, overlapped>>
    BY <2>2
  <2> QED BY <1>12, <2>1, <2>2 DEF AddSummoner
<1>13. ASSUME NEW t \in Callers, NEW name \in Answers, NEW game \in Answers,
              LookupOne(t, name, game)
       PROVE  OneAtLL'
  BY <1>7, <1>13 DEF LookupOne
<1>14. ASSUME NEW t \in Callers, ListSummoners(t) PROVE OneAtLL'
  BY <1>7, <1>14 DEF ListSummoners
<1>8. ASSUME NEW t \in Callers, NEW id \in Ids, DeleteSummoner(t, id)
      PROVE  OneAtLL'
  BY <1>8 DEF DeleteSummoner, Ready
<1>9. CASE Retire \/ Rebuild
  BY <1>9 DEF Retire, Rebuild
<1>10. CASE Destroy
  BY <1>10, NewWorkerType DEF Destroy
<1>11. CASE UNCHANGED lookupVars
  BY <1>11 DEF lookupVars
<1> QED
  BY <1>1, <1>2, <1>3, <1>4, <1>6, <1>8, <1>9, <1>10, <1>11, <1>12, <1>13, <1>14
     DEF LookupNext, Continue

LEMMA LeagueInvariance ==
  ASSUME LeagueAssumption
  PROVE  LookupSpec => []LeagueIInv
<1>1. LookupInit => LeagueIInv
  <2> SUFFICES ASSUME LookupInit PROVE LeagueIInv
    OBVIOUS
  <2>1. rows \in Seq(Ids)
    BY DEF LookupInit
  <2>2. LeagueTypeOK
    BY <2>1, NewWorkerType DEF LookupInit, LeagueTypeOK
  <2>3. OneAtLL
    BY NewWorkerType DEF LookupInit, OneAtLL, AtLL
  <2>4. WorkerOK
    BY NewWorkerType DEF LookupInit, WorkerOK
  <2> QED BY <2>2, <2>3, <2>4 DEF LeagueIInv
<1>2. LeagueIInv /\ [LookupNext]_lookupVars => LeagueIInv'
  BY LeagueTypeStep, OneAtLLStep, WorkerStep DEF LeagueIInv
<1> QED BY <1>1, <1>2, PTL DEF LookupSpec

\* The handler of "!ll" loses no std::thread, and joins none twice, unless two
\* commands have been at it at the same time; it leaves no lookup behind; and the
\* post of a lookup is too late only while ~Bot waits for it (LeagueLookup).
THEOREM SurvivesCorrect == LookupSpec => []Survives
<1> USE LeagueAssumption
<1>1. LeagueIInv => Survives
  BY DEF LeagueIInv, LeagueTypeOK, OneAtLL, Survives
<1> QED BY <1>1, LeagueInvariance, PTL

\* The answer of a lookup leaves nobody out whom it has looked at
\* (LookupAllSummoners).
THEOREM AnswersAreCompleteCorrect == LookupSpec => []AnswersAreComplete
<1> USE LeagueAssumption
<1>2. ASSUME LeagueIInv, worker.state = "ended", worker.said = "summary"
      PROVE  \A i \in DOMAIN worker.list : i <= MaxSummoners => i \in DOMAIN worker.heard
  <2>1. worker.list \in Seq(Ids) /\ worker.heard \in Seq(Replies)
    BY <1>2, WorkersType DEF LeagueIInv, LeagueTypeOK
  <2>2. Len(worker.heard) = Len(Looked(worker.list))
    BY <1>2 DEF LeagueIInv, WorkerOK
  <2>3. Len(worker.list) \in Nat /\ DOMAIN worker.list = 1..Len(worker.list)
        /\ DOMAIN worker.heard = 1..Len(worker.heard) /\ MaxSummoners \in Nat
    BY <2>1 DEF LeagueAssumption
  <2> QED BY <2>1, <2>2, <2>3, LookedAt
<1>3. LeagueIInv => AnswersAreComplete
  <2> SUFFICES ASSUME LeagueIInv PROVE AnswersAreComplete
    OBVIOUS
  <2> USE DEF LeagueIInv
  <2>1. CASE worker.state # "ended"
    BY <2>1 DEF AnswersAreComplete
  <2>2. CASE worker.state = "ended" /\ worker.said # "summary"
    <3>1. worker.said = Last(worker.heard)
      BY <2>2 DEF WorkerOK, Last
    <3> QED BY <2>2, <3>1 DEF AnswersAreComplete
  <2>3. CASE worker.state = "ended" /\ worker.said = "summary"
    <3>1. Noticed(worker)
      BY <2>3 DEF WorkerOK
    <3> DEFINE Those(replies) == {i \in DOMAIN worker.heard : worker.heard[i] \in replies}
               Names(seq) == {seq[i] : i \in DOMAIN seq}
    <3>2. /\ Names(worker.inGame) = {worker.list[i] : i \in Those({"OK"})}
          /\ Names(worker.broken) = {worker.list[i] : i \in Those(Replies \ {"OK", "NotFound"})}
      BY <3>1 DEF Noticed, Positions, Errors, Range
    <3>3. Len(worker.inGame) + Len(worker.broken)
            = Cardinality(Those(Replies \ {"NotFound"}))
      BY <3>1 DEF Noticed, Positions, Found
    <3> QED BY <1>2, <2>3, <3>2, <3>3 DEF AnswersAreComplete
  <2> QED BY <2>1, <2>2, <2>3
<1> QED BY <1>3, LeagueInvariance, PTL

-----------------------------------------------------------------------------
(* Process                                                                 *)

\* The handlers are built in the order of the code, in which Discord comes first.
DiscordFirst == Order[1] = Discord

HandlingTypeOK ==
  /\ gen \in Handling!Generations
  /\ built \in Seq(Handling!Handlers) /\ enabled \in Seq(Handling!Handlers)
  /\ byName \in [Handling!Names -> Nat]
  /\ toBuild \in Seq(Handling!Names) /\ toEnable \in Seq(Handling!Handlers)
  /\ phase \in {"building", "enabling", "done"}
  /\ threads \subseteq Handling!Handlers

Distinct(seq) == \A i, j \in DOMAIN seq : seq[i] = seq[j] => i = j
OneOfEachName(handlers) == \A g, h \in handlers : g.name = h.name => g = h
Newest(n) == [name |-> n, gen |-> gen]

\* What has been built: those of earlier reloads, and of this one all that are
\* not still to come.
BuiltOK ==
  /\ phase # "building" => toBuild = <<>>
  /\ Distinct(toBuild)
  /\ \A n \in Handling!Names : byName[n] = IF n \in Range(toBuild) THEN 0 ELSE gen
  /\ Distinct(built)
  /\ \A h \in Range(built) : h.gen < gen \/ (h.gen = gen /\ h.name \notin Range(toBuild))
  /\ \A n \in Handling!Names \ Range(toBuild) : Newest(n) \in Range(built)

\* What is enabled and what is going to be make up what is asked for.
EnabledOK ==
  LET all == Range(enabled) \cup Range(toEnable)
  IN /\ phase = "building" => enabled = <<>>
     /\ phase # "enabling" => toEnable = <<>>
     /\ Distinct(toEnable)
     /\ \A h \in Range(toEnable) : h.gen <= gen
     /\ phase # "building" =>
          /\ \A h \in all : h.name \in Handling!Configured
          /\ \A n \in Handling!Configured \ {Discord} : Newest(n) \in all
     /\ config.modules # {} =>
          /\ Distinct(enabled) /\ OneOfEachName(all)
          /\ Range(enabled) \cap Range(toEnable) = {}
          /\ \A h \in Range(toEnable) : h.gen = gen

\* Before the first !reload every thread has come to be once, after Discord.
ThreadsOK ==
  /\ \A h \in threads :
       /\ h.gen <= gen
       /\ h.name \in Serving /\ h.gen = gen => phase # "building" /\ h \notin Range(toEnable)
  /\ gen = 1 /\ Discord \in Range(toBuild) => threads = {}
  /\ Discord \in Range(toBuild) => toBuild = Order

\* What there has to be for each way to come down.
CrashOK ==
  /\ crash = "no discord" => gen > 1 /\ phase = "building" /\ toBuild = Order
  /\ crash = "thread replaced" => gen > 1 /\ config.modules = {}
  /\ crash = "init threw" => Discord \in Handling!Configured
  /\ crash \in {"late post", "thread dropped"} => pc = "destroying" /\ threads # {}
  /\ crash \in {"none", "no discord", "thread replaced", "init threw", "late post",
                "thread dropped", "handler threw", "no id map"}

\* Exit codes come from commands.
AskedFor ==
  /\ \A c \in {exitCode, result} :
       /\ c = "TerminationRequested" => "stop" \in asked
       /\ c = "RestartRequested" => "restart" \in asked
  /\ status \in {"done", "killed"} => "stop" \in asked
  /\ status = "bad config" => "restart" \in asked

\* What has been read comes from the file as it was, the account's entries last.
SettingsInOrder == settings.ids <= settings.config /\ settings.config <= file.version
SettingsNotOlder == settings.config <= settings'.config /\ settings.ids <= settings'.ids

ProcessIInv == HandlingTypeOK /\ BuiltOK /\ EnabledOK /\ ThreadsOK /\ CrashOK /\ AskedFor

\* What Registry means by the operators it shares.
LEMMA RegistryOperators ==
  /\ \A f : Handling!Range(f) = Range(f)
  /\ \A seq, positions : Handling!Selected(seq, positions) = Selected(seq, positions)
  /\ \A f : Handling!IsInjective(f) <=> Distinct(f)
<1>1. \A f : Handling!Range(f) = Range(f)
  BY DEF Handling!Range, Range
<1>2. \A seq, positions : Handling!Selected(seq, positions) = Selected(seq, positions)
  BY DEF Handling!Selected, Handling!Rank, Selected, Rank, Handling!Cardinality, Cardinality
<1>3. \A f : Handling!IsInjective(f) <=> Distinct(f)
  BY DEF Handling!IsInjective, Distinct
<1> QED BY <1>1, <1>2, <1>3

LEMMA RegistryTypes ==
  /\ Handling!Names = Range(Order) /\ Handling!Names \subseteq Range(Alphabetical)
  /\ Order \in Seq(Handling!Names) /\ Distinct(Order)
  /\ Alphabetical \in Seq(STRING) /\ Distinct(Alphabetical)
  /\ Discord \in Handling!Names /\ Discord \notin Posting /\ Posting \cap Serving = {}
  /\ MaxReloads \in Nat /\ Handling!Generations = 1..(MaxReloads + 1)
  /\ Handling!Generations \subseteq Nat
  /\ \A h \in Handling!Handlers :
       /\ h.name \in Handling!Names /\ h.gen \in Nat /\ h.gen >= 1
       /\ h = [name |-> h.name, gen |-> h.gen]
  /\ \A n \in Handling!Names, g \in Handling!Generations :
       [name |-> n, gen |-> g] \in Handling!Handlers
<1>1. Handling!Names = Range(Order)
  BY RegistryOperators DEF Handling!Names
<1>2. /\ Order \in Seq(STRING) /\ Distinct(Order)
      /\ Alphabetical \in Seq(STRING) /\ Distinct(Alphabetical)
      /\ Range(Order) \subseteq Range(Alphabetical)
      /\ Discord \in Range(Order) /\ Discord \notin Posting /\ Posting \cap Serving = {}
      /\ MaxReloads \in Nat
  BY ProcessAssumption, RegistryOperators DEF Handling!RegistryAssumption
<1>3. Order \in Seq(Range(Order))
  BY <1>2 DEF Range
<1>4. Handling!Generations = 1..(MaxReloads + 1) /\ Handling!Generations \subseteq Nat
  BY <1>2 DEF Handling!Generations
<1>5. ASSUME NEW h \in Handling!Handlers
      PROVE  /\ h.name \in Handling!Names /\ h.gen \in Nat /\ h.gen >= 1
             /\ h = [name |-> h.name, gen |-> h.gen]
  BY <1>2, <1>4 DEF Handling!Handlers
<1>6. ASSUME NEW n \in Handling!Names, NEW g \in Handling!Generations
      PROVE  [name |-> n, gen |-> g] \in Handling!Handlers
  BY DEF Handling!Handlers
<1> QED BY <1>1, <1>2, <1>3, <1>4, <1>5, <1>6

\* What a step of the process does with the handlers.
Elsewhere ==
  /\ UNCHANGED <<config, gen, built, enabled, byName, toBuild, toEnable, phase, inits>>
  /\ threads' \subseteq threads
  /\ crash' = crash \/ crash' # "thread replaced"

LEMMA HandlingCases ==
  ASSUME [ProcessNext]_processVars
  PROVE  \/ Handling!Register \/ Handling!StartEnabling \/ Handling!Enable
         \/ Handling!Finish \/ Handling!Reload \/ NoHandlers \/ Elsewhere
<1> USE DEF Elsewhere, handlerVars
<1>1. CASE StartBot
  BY <1>1 DEF StartBot
<1>2. CASE RegisterSome
  BY <1>2 DEF RegisterSome
<1>3. CASE RegisterDone
  BY <1>3 DEF RegisterDone
<1>4. CASE GoOn
  BY <1>4 DEF GoOn
<1>5. CASE BotGone
  BY <1>5 DEF BotGone
<1>6. ASSUME NEW h \in threads, EndThread(h) PROVE Elsewhere
  BY <1>6 DEF EndThread
<1>7. CASE ReloadAll
  BY <1>7 DEF ReloadAll
<1>8. CASE Interrupt
  BY <1>8 DEF Interrupt
<1>9. ASSUME NEW h \in threads, ServerReady(h) PROVE Elsewhere
  BY <1>9 DEF ServerReady
<1>10. ASSUME NEW h \in threads, Post(h) PROVE Elsewhere
  BY <1>10 DEF Post, Handling!ThreadPosts, Handling!Posts
<1>11. CASE UNCHANGED processVars
  BY <1>11 DEF processVars
<1>12. CASE HandlerThrows
  BY <1>12 DEF HandlerThrows
<1>13. CASE NoIdMap
  BY <1>13 DEF NoIdMap
<1> QED
  BY <1>1, <1>2, <1>3, <1>4, <1>5, <1>6, <1>7, <1>8, <1>9, <1>10, <1>11, <1>12, <1>13
     DEF ProcessNext, Thread

\* The first of a sequence, and the rest.
LEMMA HeadAndTail ==
  ASSUME NEW S, NEW seq \in Seq(S), seq # <<>>
  PROVE  /\ Head(seq) \in S /\ Tail(seq) \in Seq(S)
         /\ Head(seq) = seq[1] /\ 1 \in DOMAIN seq
         /\ Range(seq) = {Head(seq)} \cup Range(Tail(seq))
         /\ Distinct(seq) => Distinct(Tail(seq)) /\ Head(seq) \notin Range(Tail(seq))
<1> DEFINE rest == Tail(seq)
<1>1. /\ Len(seq) \in Nat /\ Len(seq) >= 1 /\ DOMAIN seq = 1..Len(seq)
      /\ Head(seq) = seq[1] /\ Head(seq) \in S /\ rest \in Seq(S)
      /\ DOMAIN rest = 1..(Len(seq) - 1)
      /\ \A k \in 1..(Len(seq) - 1) : rest[k] = seq[k + 1]
  OBVIOUS
<1>2. 1 \in DOMAIN seq
  BY <1>1
<1> HIDE DEF rest
<1>3. \A k \in DOMAIN rest : k + 1 \in DOMAIN seq /\ rest[k] = seq[k + 1]
  BY <1>1
<1>4. \A k \in DOMAIN seq : k = 1 \/ (k - 1 \in DOMAIN rest /\ rest[k - 1] = seq[k])
  <2> TAKE k \in DOMAIN seq
  <2>1. k \in Nat /\ 1 <= k /\ k <= Len(seq)
    BY <1>1
  <2>2. k # 1 => k - 1 \in 1..(Len(seq) - 1) /\ (k - 1) + 1 = k
    BY <1>1, <2>1
  <2> QED BY <1>1, <2>2
<1>5. Range(seq) = {Head(seq)} \cup Range(rest)
  <2>1. \A x \in Range(seq) : x \in {Head(seq)} \cup Range(rest)
    BY <1>1, <1>4 DEF Range
  <2>2. \A x \in {Head(seq)} \cup Range(rest) : x \in Range(seq)
    BY <1>1, <1>2, <1>3 DEF Range
  <2> QED BY <2>1, <2>2
<1>6. ASSUME Distinct(seq) PROVE Distinct(rest) /\ Head(seq) \notin Range(rest)
  <2>1. ASSUME NEW i \in DOMAIN rest, NEW j \in DOMAIN rest, rest[i] = rest[j] PROVE i = j
    <3>1. i + 1 = j + 1
      BY <1>3, <1>6, <2>1 DEF Distinct
    <3> QED BY <1>1, <3>1
  <2>2. ASSUME NEW i \in DOMAIN rest, rest[i] = Head(seq) PROVE FALSE
    <3>1. i + 1 = 1
      BY <1>1, <1>2, <1>3, <1>6, <2>2 DEF Distinct
    <3> QED BY <1>1, <3>1
  <2> QED BY <2>1, <2>2 DEF Distinct, Range
<1> QED BY <1>1, <1>2, <1>5, <1>6 DEF rest

LEMMA DistinctAppend ==
  ASSUME NEW S, NEW seq \in Seq(S), NEW e \in S, Distinct(seq), e \notin Range(seq)
  PROVE  Distinct(Append(seq, e))
<1>1. /\ DOMAIN Append(seq, e) = DOMAIN seq \cup {Len(seq) + 1}
      /\ Append(seq, e)[Len(seq) + 1] = e
      /\ \A k \in DOMAIN seq : Append(seq, e)[k] = seq[k]
  BY AppendedTo
<1> QED BY <1>1 DEF Distinct, Range

\* Selecting from what is distinct.
LEMMA DistinctSelected ==
  ASSUME NEW S, NEW seq \in Seq(S), Distinct(seq), NEW P \in SUBSET DOMAIN seq
  PROVE  Distinct(Selected(seq, P))
<1> DEFINE list == Selected(seq, P)
<1>1. list \in Seq(S)
  BY SelectedFacts
<1>2. \A k, l \in DOMAIN list : k < l => list[k] # list[l]
  <2> SUFFICES ASSUME NEW k \in DOMAIN list, NEW l \in DOMAIN list, k < l
               PROVE  list[k] # list[l]
    OBVIOUS
  <2>1. PICK i \in P, j \in P : i < j /\ list[k] = seq[i] /\ list[l] = seq[j]
    BY SelectedFacts
  <2>2. i # j
    BY <2>1
  <2> QED BY <2>1, <2>2 DEF Distinct
<1> HIDE DEF list
<1>3. \A k, l \in DOMAIN list : k < l \/ l < k \/ k = l
  BY <1>1
<1>4. Distinct(list)
  BY <1>2, <1>3 DEF Distinct
<1> QED BY <1>4 DEF list

\* EnableHandlers goes through what the settings ask for, and nothing twice.
LEMMA AskedForOnce ==
  ASSUME HandlingTypeOK, BuiltOK, toBuild = <<>>, NEW list, list = Handling!HandlersToEnable
  PROVE  /\ list \in Seq(Handling!Handlers) /\ Distinct(list)
         /\ \A h \in Range(list) : h.gen <= gen /\ h.name \in Handling!Configured
         /\ \A n \in Handling!Configured : Newest(n) \in Range(list)
         /\ config.modules # {} =>
              OneOfEachName(Range(list)) /\ \A h \in Range(list) : h.gen = gen
<1>1. Range(toBuild) = {}
  <2>1. DOMAIN <<>> = {}
    OBVIOUS
  <2> QED BY <2>1 DEF Range
<1>2. gen \in Nat /\ \A n \in Handling!Names : byName[n] = gen
  BY <1>1, RegistryTypes DEF BuiltOK, HandlingTypeOK
<1>3. CASE config.modules = {}
  <2> DEFINE P == {i \in DOMAIN built : built[i].name \notin config.blacklist}
  <2>1. list = Selected(built, P)
    BY <1>3, RegistryOperators DEF Handling!HandlersToEnable
  <2>2. P \in SUBSET DOMAIN built /\ built \in Seq(Handling!Handlers) /\ Distinct(built)
    BY DEF HandlingTypeOK, BuiltOK
  <2>3. /\ list \in Seq(Handling!Handlers) /\ Distinct(list)
        /\ Range(list) = {built[i] : i \in P}
    <3>1. list \in Seq(Handling!Handlers) /\ Range(list) = {built[i] : i \in P}
      BY <2>1, <2>2, SelectedFacts
    <3>2. Distinct(list)
      BY <2>1, <2>2, DistinctSelected
    <3> QED BY <3>1, <3>2
  <2>4. Handling!Configured = Handling!Names \ config.blacklist
    BY <1>3 DEF Handling!Configured
  <2>5. ASSUME NEW h \in Range(list) PROVE h.gen <= gen /\ h.name \in Handling!Configured
    <3>1. h \in Range(built) /\ h.name \notin config.blacklist
      BY <2>3 DEF Range
    <3>2. h \in Handling!Handlers
      BY <2>3 DEF Range
    <3>3. h.gen < gen \/ h.gen = gen
      BY <3>1 DEF BuiltOK
    <3> QED BY <1>2, <2>4, <3>1, <3>2, <3>3, RegistryTypes
  <2>6. ASSUME NEW n \in Handling!Configured PROVE Newest(n) \in Range(list)
    <3>1. n \in Handling!Names /\ n \notin config.blacklist
      BY <2>4
    <3>2. Newest(n) \in Range(built)
      BY <1>1, <3>1 DEF BuiltOK
    <3>3. PICK i \in DOMAIN built : built[i] = Newest(n)
      BY <3>2 DEF Range
    <3>4. i \in P
      BY <3>1, <3>3 DEF Newest
    <3> QED BY <2>3, <3>3, <3>4
  <2> QED BY <1>3, <2>3, <2>5, <2>6
<1>4. CASE config.modules # {}
  <2> DEFINE S == (config.modules \cap Handling!Names) \ config.blacklist
             P == {i \in DOMAIN Alphabetical : Alphabetical[i] \in S}
             names == Selected(Alphabetical, P)
  <2>1. Handling!Configured = S
    BY <1>4 DEF Handling!Configured
  <2>2. P \in SUBSET DOMAIN Alphabetical
    OBVIOUS
  <2>3. names \in Seq(STRING) /\ Distinct(names) /\ Range(names) = {Alphabetical[i] : i \in P}
    <3> HIDE DEF P
    <3> QED BY <2>2, SelectedFacts, DistinctSelected, RegistryTypes
  <2>4. Range(names) = S
    <3>1. S \subseteq Range(Alphabetical)
      BY RegistryTypes
    <3> QED BY <2>3, <3>1 DEF Range
  <2>5. list = [k \in DOMAIN names |-> [name |-> names[k], gen |-> byName[names[k]]]]
    BY <1>4, RegistryOperators DEF Handling!HandlersToEnable, Handling!Listed
  <2> HIDE DEF P, names
  <2>6. \A k \in DOMAIN names : names[k] \in S /\ names[k] \in Handling!Names
    BY <2>4 DEF Range
  <2> HIDE DEF S
  <2>7. DOMAIN list = DOMAIN names /\ \A k \in DOMAIN list : list[k] = Newest(names[k])
    BY <1>2, <2>5, <2>6 DEF Newest
  <2>8. \A k \in DOMAIN list : list[k].name = names[k] /\ list[k].gen = gen
    BY <2>7 DEF Newest
  <2>9. list \in Seq(Handling!Handlers)
    <3>1. \A k \in DOMAIN names : Newest(names[k]) \in Handling!Handlers
      BY <2>6, RegistryTypes DEF Newest, HandlingTypeOK
    <3>2. Len(names) \in Nat /\ DOMAIN names = 1..Len(names)
      BY <2>3
    <3>3. list = [k \in 1..Len(names) |-> Newest(names[k])]
      BY <1>2, <2>5, <2>6, <3>2 DEF Newest
    <3> QED BY <3>1, <3>2, <3>3
  <2>10. Distinct(list)
    BY <2>3, <2>7, <2>8 DEF Distinct
  <2>11. OneOfEachName(Range(list))
    BY <2>3, <2>7, <2>8 DEF Distinct, OneOfEachName, Range
  <2>12. \A h \in Range(list) : h.gen <= gen /\ h.name \in Handling!Configured
    BY <1>2, <2>1, <2>6, <2>7, <2>8 DEF Range
  <2>13. ASSUME NEW n \in Handling!Configured PROVE Newest(n) \in Range(list)
    <3>1. PICK k \in DOMAIN names : names[k] = n
      BY <2>1, <2>4 DEF Range
    <3> QED BY <2>7, <3>1 DEF Range
  <2>14. \A h \in Range(list) : h.gen = gen
    BY <2>7, <2>8 DEF Range
  <2> QED BY <2>9, <2>10, <2>11, <2>12, <2>13, <2>14
<1> QED BY <1>3, <1>4

\* A list that has been emptied.
LEMMA ListsEmptied ==
  /\ DOMAIN <<>> = {} /\ Range(<<>>) = {} /\ Distinct(<<>>)
  /\ \A S : <<>> \in Seq(S)
<1>1. DOMAIN <<>> = {}
  OBVIOUS
<1>2. \A S : <<>> \in Seq(S)
  OBVIOUS
<1> QED BY <1>1, <1>2 DEF Range, Distinct

LEMMA HandlingTypeStep ==
  ASSUME HandlingTypeOK, BuiltOK, EnabledOK, [ProcessNext]_processVars
  PROVE  HandlingTypeOK'
<1> USE DEF HandlingTypeOK
<1>1. CASE Handling!Register
  <2>1. /\ Head(toBuild) \in Handling!Names /\ Tail(toBuild) \in Seq(Handling!Names)
        /\ Newest(Head(toBuild)) \in Handling!Handlers
    BY <1>1, HeadAndTail, RegistryTypes DEF Handling!Register, Newest
  <2>2. built' = Append(built, Newest(Head(toBuild))) /\ toBuild' = Tail(toBuild)
    BY <1>1 DEF Handling!Register, Newest
  <2>3. built' \in Seq(Handling!Handlers)
    BY <2>1, <2>2, AppendedTo
  <2>4. threads' \subseteq threads \cup {Newest(Head(toBuild))}
    BY <1>1 DEF Handling!Register, Newest
  <2>5. byName' = [byName EXCEPT ![Head(toBuild)] = gen] /\ gen \in Nat
    BY <1>1, RegistryTypes DEF Handling!Register
  <2>6. byName' \in [Handling!Names -> Nat]
    BY <2>1, <2>5
  <2>7. UNCHANGED <<gen, enabled, toEnable, phase>>
    BY <1>1 DEF Handling!Register
  <2> QED BY <2>1, <2>2, <2>3, <2>4, <2>6, <2>7
<1>2. CASE Handling!StartEnabling
  <2>1. toBuild = <<>> /\ toEnable' = Handling!HandlersToEnable /\ phase' = "enabling"
    BY <1>2 DEF Handling!StartEnabling
  <2>2. toEnable' \in Seq(Handling!Handlers)
    BY <2>1, AskedForOnce
  <2> QED BY <1>2, <2>1, <2>2 DEF Handling!StartEnabling
<1>3. CASE Handling!Enable
  <2>1. Head(toEnable) \in Handling!Handlers /\ Tail(toEnable) \in Seq(Handling!Handlers)
    BY <1>3, HeadAndTail DEF Handling!Enable
  <2>2. toEnable' = Tail(toEnable) /\ UNCHANGED <<gen, built, byName, toBuild, phase>>
    BY <1>3 DEF Handling!Enable
  <2>3. enabled' = Append(enabled, Head(toEnable)) \/ enabled' = enabled
    BY <1>3 DEF Handling!Enable
  <2>4. enabled' \in Seq(Handling!Handlers)
    <3>1. Append(enabled, Head(toEnable)) \in Seq(Handling!Handlers)
      BY <2>1, AppendedTo
    <3> QED BY <2>3, <3>1
  <2>5. threads' \subseteq threads \cup {Head(toEnable)}
    BY <1>3 DEF Handling!Enable
  <2> QED BY <2>1, <2>2, <2>4, <2>5
<1>4. CASE Handling!Finish
  BY <1>4 DEF Handling!Finish
<1>5. CASE Handling!Reload
  <2>1. gen' = gen + 1 /\ gen <= MaxReloads
    BY <1>5 DEF Handling!Reload
  <2>2. gen' \in Handling!Generations
    BY <2>1, RegistryTypes
  <2>3. byName' \in [Handling!Names -> Nat]
    BY <1>5 DEF Handling!Reload
  <2>4. enabled' \in Seq(Handling!Handlers)
    BY <1>5, ListsEmptied DEF Handling!Reload
  <2>5. toBuild' \in Seq(Handling!Names)
    BY <1>5, RegistryTypes DEF Handling!Reload
  <2> QED BY <1>5, <2>2, <2>3, <2>4, <2>5 DEF Handling!Reload
<1>6. CASE NoHandlers
  <2>1. gen' = 1 /\ 1 \in Handling!Generations
    BY <1>6, RegistryTypes DEF NoHandlers
  <2>2. byName' \in [Handling!Names -> Nat]
    BY <1>6 DEF NoHandlers
  <2>3. built' \in Seq(Handling!Handlers) /\ enabled' \in Seq(Handling!Handlers)
    BY <1>6, ListsEmptied DEF NoHandlers
  <2>4. toBuild' \in Seq(Handling!Names) /\ toEnable' \in Seq(Handling!Handlers)
    BY <1>6, ListsEmptied, RegistryTypes DEF NoHandlers
  <2>5. phase' = "building" /\ threads' = {}
    BY <1>6 DEF NoHandlers
  <2> QED BY <2>1, <2>2, <2>3, <2>4, <2>5
<1>7. CASE Elsewhere
  BY <1>7 DEF Elsewhere
<1> QED BY <1>1, <1>2, <1>3, <1>4, <1>5, <1>6, <1>7, HandlingCases

LEMMA BuiltStep ==
  ASSUME HandlingTypeOK, BuiltOK, EnabledOK, [ProcessNext]_processVars
  PROVE  BuiltOK'
<1>0. gen \in Nat /\ toBuild \in Seq(Handling!Names) /\ built \in Seq(Handling!Handlers)
  BY RegistryTypes DEF HandlingTypeOK
<1>1. CASE Handling!Register
  <2> DEFINE n == Head(toBuild)
  <2>1. /\ n \in Handling!Names /\ Range(toBuild) = {n} \cup Range(Tail(toBuild))
        /\ Distinct(Tail(toBuild)) /\ n \notin Range(Tail(toBuild))
    BY <1>0, <1>1, HeadAndTail DEF Handling!Register, BuiltOK
  <2>2. /\ phase = "building" /\ toBuild' = Tail(toBuild) /\ built' = Append(built, Newest(n))
        /\ byName' = [byName EXCEPT ![n] = gen] /\ phase' = phase /\ gen' = gen
    BY <1>1 DEF Handling!Register, Newest
  <2> HIDE DEF n
  <2>3. Newest(n) \in Handling!Handlers /\ Newest(n).name = n /\ Newest(n).gen = gen
    BY <2>1, RegistryTypes DEF Newest, HandlingTypeOK
  <2>4. Newest(n) \notin Range(built)
    BY <1>0, <2>1, <2>3 DEF BuiltOK
  <2>5. Distinct(built') /\ Range(built') = Range(built) \cup {Newest(n)}
    BY <1>0, <2>2, <2>3, <2>4, DistinctAppend, AppendedTo DEF BuiltOK
  <2>6. \A m \in Handling!Names : byName'[m] = IF m \in Range(toBuild)' THEN 0 ELSE gen'
    <3>1. byName \in [Handling!Names -> Nat]
      BY DEF HandlingTypeOK
    <3>2. \A m \in Handling!Names : byName'[m] = IF m = n THEN gen ELSE byName[m]
      BY <2>2, <3>1
    <3>3. Range(toBuild)' = Range(Tail(toBuild))
      BY <2>2
    <3> QED BY <2>1, <2>2, <3>2, <3>3 DEF BuiltOK
  <2>7. Range(toBuild)' = Range(Tail(toBuild))
    BY <2>2
  <2>8. \A h \in Range(built)' : h.gen < gen' \/ (h.gen = gen' /\ h.name \notin Range(toBuild)')
    BY <2>1, <2>2, <2>3, <2>5, <2>7 DEF BuiltOK
  <2>9. \A m \in Handling!Names \ Range(toBuild)' : Newest(m)' \in Range(built)'
    <3>1. \A m : Newest(m)' = Newest(m)
      BY <2>2 DEF Newest
    <3>2. \A m \in Handling!Names \ Range(Tail(toBuild)) : m = n \/ m \notin Range(toBuild)
      BY <2>1
    <3> QED BY <2>5, <2>7, <3>1, <3>2 DEF BuiltOK
  <2>10. (phase # "building" => toBuild = <<>>)' /\ Distinct(toBuild)'
    BY <2>1, <2>2 DEF Distinct
  <2> QED BY <2>5, <2>6, <2>8, <2>9, <2>10 DEF BuiltOK, Distinct
<1>2. CASE Handling!StartEnabling
  BY <1>2 DEF Handling!StartEnabling, BuiltOK, Newest, Distinct
<1>3. CASE Handling!Enable
  BY <1>3 DEF Handling!Enable, BuiltOK, Newest, Distinct
<1>4. CASE Handling!Finish
  BY <1>4 DEF Handling!Finish, BuiltOK, Newest, Distinct
<1>5. CASE Handling!Reload
  <2>1. /\ gen' = gen + 1 /\ toBuild' = Order /\ phase' = "building" /\ built' = built
        /\ byName' = [n \in Handling!Names |-> 0]
    BY <1>5 DEF Handling!Reload
  <2>2. Range(toBuild)' = Handling!Names /\ Distinct(toBuild)' /\ Distinct(built)'
    BY <2>1, RegistryTypes DEF BuiltOK, Distinct
  <2>3. \A h \in Range(built)' : h.gen < gen'
    <3>1. \A h \in Range(built) : h \in Handling!Handlers
      BY <1>0 DEF Range
    <3>2. \A h \in Range(built) : h.gen \in Nat /\ (h.gen < gen \/ h.gen = gen)
      BY <3>1, RegistryTypes DEF BuiltOK
    <3>3. Range(built)' = Range(built)
      BY <2>1
    <3> QED BY <1>0, <2>1, <3>2, <3>3
  <2> QED BY <2>1, <2>2, <2>3 DEF BuiltOK
<1>6. CASE NoHandlers
  <2>1. /\ toBuild' = Order /\ phase' = "building" /\ built' = <<>>
        /\ byName' = [n \in Handling!Names |-> 0]
    BY <1>6 DEF NoHandlers
  <2>2. Range(toBuild)' = Handling!Names /\ Distinct(toBuild)'
    BY <2>1, RegistryTypes DEF Distinct
  <2>3. Distinct(built)' /\ Range(built)' = {}
    BY <2>1, ListsEmptied DEF Distinct
  <2> QED BY <2>1, <2>2, <2>3 DEF BuiltOK
<1>7. CASE Elsewhere
  BY <1>7 DEF Elsewhere, BuiltOK, Newest, Distinct
<1> QED BY <1>1, <1>2, <1>3, <1>4, <1>5, <1>6, <1>7, HandlingCases

LEMMA EnabledStep ==
  ASSUME HandlingTypeOK, BuiltOK, EnabledOK, [ProcessNext]_processVars
  PROVE  EnabledOK'
<1> DEFINE all == Range(enabled) \cup Range(toEnable)
<1>0. /\ gen \in Nat /\ enabled \in Seq(Handling!Handlers)
      /\ toEnable \in Seq(Handling!Handlers)
  BY RegistryTypes DEF HandlingTypeOK
<1>a. ASSUME enabled' = <<>>, toEnable' = <<>>, phase' = "building"
      PROVE  EnabledOK'
  <2>1. Range(enabled)' = {} /\ Range(toEnable)' = {}
    BY <1>a, ListsEmptied
  <2>2. Distinct(enabled)' /\ Distinct(toEnable)'
    BY <1>a, ListsEmptied DEF Distinct
  <2> QED BY <1>a, <2>1, <2>2 DEF EnabledOK, OneOfEachName
<1>1. CASE Handling!Register
  <2>1. enabled' = enabled /\ toEnable' = toEnable /\ phase' = "building" /\ phase = "building"
    BY <1>1 DEF Handling!Register
  <2> QED BY <1>a, <2>1 DEF EnabledOK
<1>2. CASE Handling!StartEnabling
  <2>1. /\ phase = "building" /\ toBuild = <<>> /\ toEnable' = Handling!HandlersToEnable
        /\ phase' = "enabling" /\ UNCHANGED <<config, gen, enabled>>
    BY <1>2 DEF Handling!StartEnabling
  <2> DEFINE list == Handling!HandlersToEnable
  <2>2. /\ Distinct(list)
        /\ \A h \in Range(list) : h.gen <= gen /\ h.name \in Handling!Configured
        /\ \A n \in Handling!Configured : Newest(n) \in Range(list)
        /\ config.modules # {} =>
             OneOfEachName(Range(list)) /\ \A h \in Range(list) : h.gen = gen
    BY <2>1, AskedForOnce
  <2> HIDE DEF list
  <2>3. enabled' = <<>> /\ toEnable' = list
    BY <2>1 DEF EnabledOK, list
  <2>4. Range(enabled)' = {} /\ Range(toEnable)' = Range(list)
    BY <2>3, ListsEmptied
  <2>5. Distinct(enabled)' /\ Distinct(toEnable)'
    BY <2>2, <2>3, ListsEmptied DEF Distinct
  <2>6. Handling!Configured' = Handling!Configured
    BY <2>1 DEF Handling!Configured
  <2>7. \A n : Newest(n)' = Newest(n)
    BY <2>1 DEF Newest
  <2> QED BY <2>1, <2>2, <2>4, <2>5, <2>6, <2>7 DEF EnabledOK, OneOfEachName
<1>3. CASE Handling!Enable
  <2> DEFINE h == Head(toEnable)
             rest == Tail(toEnable)
  <2>1. /\ phase = "enabling" /\ toEnable # <<>> /\ toEnable' = rest
        /\ UNCHANGED <<config, gen, phase>>
        /\ enabled' = Append(enabled, h) \/ (h.name = Discord /\ enabled' = enabled)
    BY <1>3 DEF Handling!Enable
  <2>2. /\ h \in Handling!Handlers /\ Range(toEnable) = {h} \cup Range(rest)
        /\ Distinct(rest) /\ h \notin Range(rest)
    BY <1>0, <2>1, HeadAndTail DEF EnabledOK
  <2> HIDE DEF h, rest
  <2>3. Range(Append(enabled, h)) = Range(enabled) \cup {h}
    BY <1>0, <2>2, AppendedTo
  <2>4. \/ Range(enabled)' = Range(enabled) \cup {h}
        \/ h.name = Discord /\ Range(enabled)' = Range(enabled)
    <3>1. CASE enabled' = Append(enabled, h)
      BY <2>3, <3>1
    <3>2. CASE h.name = Discord /\ enabled' = enabled
      BY <3>2
    <3> QED BY <2>1, <3>1, <3>2
  <2>5. Range(toEnable)' = Range(rest) /\ Distinct(toEnable)'
    BY <2>1, <2>2 DEF Distinct
  <2>6. Handling!Configured' = Handling!Configured
    BY <2>1 DEF Handling!Configured
  <2>7. \A n : Newest(n)' = Newest(n) /\ Newest(n).name = n
    BY <2>1 DEF Newest
  <2>8. all' \subseteq all
    BY <2>2, <2>4, <2>5
  <2>9. \A g \in all : g = h \/ g \in all'
    BY <2>2, <2>4, <2>5
  <2>10. \A g \in all : g.name # Discord => g \in all'
    <3>1. h.name # Discord => h \in all'
      BY <2>4
    <3> QED BY <2>9, <3>1
  <2>11. \A g \in all : g.name \in Handling!Configured
    BY <2>1 DEF EnabledOK
  <2>12. \A n \in Handling!Configured \ {Discord} : Newest(n) \in all
    BY <2>1 DEF EnabledOK
  <2>13. \A g \in all' : g.name \in Handling!Configured'
    BY <2>6, <2>8, <2>11
  <2>14. \A n \in Handling!Configured' \ {Discord} : Newest(n)' \in all'
    BY <2>6, <2>7, <2>10, <2>12
  <2>15. \A g \in Range(toEnable)' : g.gen <= gen'
    BY <2>1, <2>2, <2>5 DEF EnabledOK
  <2>16. ASSUME config.modules # {}
         PROVE  /\ Distinct(enabled)' /\ OneOfEachName(all')
                /\ Range(enabled)' \cap Range(toEnable)' = {}
                /\ \A g \in Range(toEnable)' : g.gen = gen'
    <3>1. /\ Distinct(enabled) /\ OneOfEachName(all)
          /\ Range(enabled) \cap Range(toEnable) = {}
          /\ \A g \in Range(toEnable) : g.gen = gen
      BY <2>16 DEF EnabledOK
    <3>2. OneOfEachName(all')
      BY <2>8, <3>1 DEF OneOfEachName
    <3>3. Range(enabled)' \cap Range(toEnable)' = {}
      BY <2>2, <2>4, <2>5, <3>1
    <3>4. h \notin Range(enabled)
      BY <2>2, <3>1
    <3>5. Distinct(Append(enabled, h))
      BY <1>0, <2>2, <3>1, <3>4, DistinctAppend
    <3>6. Distinct(enabled')
      BY <2>1, <3>1, <3>5
    <3>7. \A g \in Range(toEnable)' : g.gen = gen'
      BY <2>1, <2>2, <2>5, <3>1
    <3> QED BY <3>2, <3>3, <3>6, <3>7 DEF Distinct
  <2> QED BY <2>1, <2>5, <2>13, <2>14, <2>15, <2>16 DEF EnabledOK, OneOfEachName
<1>4. CASE Handling!Finish
  <2>1. /\ phase = "enabling" /\ toEnable = <<>> /\ phase' = "done"
        /\ UNCHANGED <<config, gen, enabled, toEnable>>
    BY <1>4 DEF Handling!Finish
  <2>2. Handling!Configured' = Handling!Configured /\ \A n : Newest(n)' = Newest(n)
    BY <2>1 DEF Handling!Configured, Newest
  <2> QED BY <2>1, <2>2 DEF EnabledOK, OneOfEachName, Distinct
<1>5. CASE Handling!Reload
  <2>1. enabled' = <<>> /\ toEnable' = toEnable /\ phase = "done" /\ phase' = "building"
    BY <1>5 DEF Handling!Reload
  <2> QED BY <1>a, <2>1 DEF EnabledOK
<1>6. CASE NoHandlers
  BY <1>6, <1>a DEF NoHandlers
<1>7. CASE Elsewhere
  <2>1. UNCHANGED <<config, gen, enabled, toEnable, phase>>
    BY <1>7 DEF Elsewhere
  <2>2. Handling!Configured' = Handling!Configured /\ \A n : Newest(n)' = Newest(n)
    BY <2>1 DEF Handling!Configured, Newest
  <2> QED BY <2>1, <2>2 DEF EnabledOK, OneOfEachName, Distinct
<1> QED BY <1>1, <1>2, <1>3, <1>4, <1>5, <1>6, <1>7, HandlingCases

\* At the start, and in a Bot that has just been built.
LEMMA HandlersAtFirst ==
  ASSUME ProcessInit
  PROVE  HandlingTypeOK /\ BuiltOK /\ EnabledOK
<1>1. /\ gen = 1 /\ built = <<>> /\ enabled = <<>>
      /\ byName = [n \in Handling!Names |-> 0]
      /\ toBuild = Order /\ toEnable = <<>> /\ phase = "building" /\ threads = {}
  BY DEF ProcessInit, Handling!Init
<1>2. gen \in Handling!Generations
  BY <1>1, RegistryTypes
<1>3. HandlingTypeOK
  BY <1>1, <1>2, ListsEmptied, RegistryTypes DEF HandlingTypeOK
<1>4. BuiltOK
  <2>1. Range(toBuild) = Handling!Names /\ Distinct(toBuild)
    BY <1>1, RegistryTypes
  <2>2. Distinct(built) /\ Range(built) = {}
    BY <1>1, ListsEmptied
  <2> QED BY <1>1, <2>1, <2>2 DEF BuiltOK
<1>5. EnabledOK
  <2>1. Range(enabled) = {} /\ Range(toEnable) = {} /\ Distinct(enabled) /\ Distinct(toEnable)
    BY <1>1, ListsEmptied
  <2> QED BY <1>1, <2>1 DEF EnabledOK, OneOfEachName
<1> QED BY <1>3, <1>4, <1>5

\* Process.EnabledAsConfigured, for any lists of handlers and modules, and any
\* number of restarts, reloads and edits: bot.cpp's EnableHandlers enables what the
\* settings asked for when it last ran, and with listed modules each one once.
THEOREM EnabledAsConfiguredCorrect == ProcessSpec => []EnabledAsConfigured
<1> DEFINE Inv == HandlingTypeOK /\ BuiltOK /\ EnabledOK
<1>1. ProcessInit => Inv
  BY HandlersAtFirst
<1>2. Inv /\ [ProcessNext]_processVars => Inv'
  BY HandlingTypeStep, BuiltStep, EnabledStep
<1>3. Inv => Handling!EnabledAsConfigured
  <2> SUFFICES ASSUME Inv PROVE Handling!EnabledAsConfigured
    OBVIOUS
  <2>1. ASSUME phase = "done"
        PROVE  /\ Handling!NamesOf(enabled) \subseteq Handling!Configured
               /\ Handling!Configured \ {Discord} \subseteq Handling!NamesOf(enabled)
               /\ \A n \in Handling!NamesOf(enabled) \ {Discord} :
                    [name |-> n, gen |-> byName[n]] \in Handling!Range(enabled)
    <3>1. toEnable = <<>> /\ Range(toEnable) = {} /\ toBuild = <<>> /\ Range(toBuild) = {}
      BY <2>1, ListsEmptied DEF BuiltOK, EnabledOK
    <3>2. /\ \A h \in Range(enabled) : h.name \in Handling!Configured
          /\ \A n \in Handling!Configured \ {Discord} : Newest(n) \in Range(enabled)
      BY <2>1, <3>1 DEF EnabledOK
    <3>3. Handling!NamesOf(enabled) = {h.name : h \in Range(enabled)}
      BY RegistryOperators DEF Handling!NamesOf
    <3>4. \A n \in Handling!Configured : n \in Handling!Names
      BY DEF Handling!Configured
    <3>5. \A n \in Handling!Configured \ {Discord} :
            [name |-> n, gen |-> byName[n]] \in Range(enabled)
      BY <3>1, <3>2, <3>4 DEF BuiltOK, Newest
    <3>6. \A n : Newest(n).name = n
      BY DEF Newest
    <3> QED BY <3>2, <3>3, <3>5, <3>6, RegistryOperators
  <2>2. ASSUME config.modules # {}, NEW i \in DOMAIN enabled, NEW j \in DOMAIN enabled,
               enabled[i].name = enabled[j].name
        PROVE  i = j
    <3>1. Distinct(enabled) /\ OneOfEachName(Range(enabled) \cup Range(toEnable))
      BY <2>2 DEF EnabledOK
    <3>2. enabled[i] \in Range(enabled) /\ enabled[j] \in Range(enabled)
      BY DEF Range
    <3>3. enabled[i] = enabled[j]
      BY <2>2, <3>1, <3>2 DEF OneOfEachName
    <3> QED BY <3>1, <3>3 DEF Distinct
  <2> QED BY <2>1, <2>2 DEF Handling!EnabledAsConfigured
<1>4. Inv => EnabledAsConfigured
  BY <1>3 DEF EnabledAsConfigured
<1> QED BY <1>1, <1>2, <1>4, PTL DEF ProcessSpec

LEMMA ThreadsStep ==
  ASSUME DiscordFirst, HandlingTypeOK, BuiltOK, EnabledOK, ThreadsOK,
         [ProcessNext]_processVars
  PROVE  ThreadsOK'
<1>0. /\ gen \in Nat /\ toBuild \in Seq(Handling!Names)
      /\ toEnable \in Seq(Handling!Handlers)
      /\ \A h \in threads : h.gen \in Nat
  BY RegistryTypes DEF HandlingTypeOK
<1>1. CASE Handling!Register
  <2> DEFINE n == Head(toBuild)
  <2>1. /\ phase = "building" /\ phase' = phase /\ toBuild # <<>> /\ toBuild' = Tail(toBuild)
        /\ UNCHANGED <<gen, toEnable>>
        /\ threads' = IF n \in Posting THEN threads \cup {Newest(n)} ELSE threads
    BY <1>1 DEF Handling!Register, Newest
  <2>2. /\ n = toBuild[1] /\ Range(toBuild) = {n} \cup Range(Tail(toBuild))
        /\ n \notin Range(Tail(toBuild))
    BY <1>0, <2>1, HeadAndTail DEF BuiltOK
  <2> HIDE DEF n
  <2>3. Discord \notin Range(Tail(toBuild))
    BY <2>2 DEF ThreadsOK, DiscordFirst
  <2>4. Range(toBuild)' = Range(Tail(toBuild))
    BY <2>1
  <2>5. ASSUME NEW h \in threads'
        PROVE  h.gen <= gen' /\ ~(h.name \in Serving /\ h.gen = gen')
    <3>1. CASE h \in threads
      BY <2>1, <3>1 DEF ThreadsOK
    <3>2. CASE h = Newest(n) /\ n \in Posting
      BY <1>0, <2>1, <3>2, RegistryTypes DEF Newest
    <3> QED BY <2>1, <3>1, <3>2
  <2> QED BY <2>3, <2>4, <2>5 DEF ThreadsOK
<1>2. CASE Handling!StartEnabling
  <2>1. /\ phase = "building" /\ phase' = "enabling"
        /\ UNCHANGED <<gen, threads, toBuild>>
    BY <1>2 DEF Handling!StartEnabling
  <2> QED BY <2>1 DEF ThreadsOK
<1>3. CASE Handling!Enable
  <2> DEFINE h == Head(toEnable)
  <2>1. /\ phase = "enabling" /\ phase' = phase /\ toEnable # <<>> /\ toEnable' = Tail(toEnable)
        /\ UNCHANGED <<gen, toBuild>>
        /\ threads' = IF h.name \in Serving THEN threads \cup {h} ELSE threads
    BY <1>3 DEF Handling!Enable
  <2>2. /\ h \in Range(toEnable) /\ Range(Tail(toEnable)) \subseteq Range(toEnable)
        /\ h \notin Range(Tail(toEnable))
    BY <1>0, <2>1, HeadAndTail DEF EnabledOK
  <2> HIDE DEF h
  <2>3. toBuild = <<>> /\ Range(toBuild)' = {}
    BY <2>1, ListsEmptied DEF BuiltOK
  <2>4. Range(toEnable)' = Range(Tail(toEnable))
    BY <2>1
  <2>5. ASSUME NEW g \in threads'
        PROVE  g.gen <= gen' /\ (g.name \in Serving /\ g.gen = gen' => g \notin Range(toEnable)')
    <3>1. CASE g \in threads
      BY <2>1, <2>2, <2>4, <3>1 DEF ThreadsOK
    <3>2. CASE g = h
      BY <2>1, <2>2, <2>4, <3>2 DEF EnabledOK
    <3> QED BY <2>1, <3>1, <3>2
  <2> QED BY <2>1, <2>3, <2>5 DEF ThreadsOK
<1>4. CASE Handling!Finish
  <2>1. phase' = "done" /\ phase = "enabling" /\ UNCHANGED <<gen, threads, toBuild, toEnable>>
    BY <1>4 DEF Handling!Finish
  <2> QED BY <2>1 DEF ThreadsOK
<1>5. CASE Handling!Reload
  <2>1. gen' = gen + 1 /\ threads' = threads /\ toBuild' = Order
    BY <1>5 DEF Handling!Reload
  <2>2. \A h \in threads : h.gen \in Nat /\ h.gen <= gen
    BY <1>0 DEF ThreadsOK
  <2>3. \A h \in threads' : h.gen <= gen' /\ h.gen # gen'
    BY <1>0, <2>1, <2>2
  <2>4. gen' # 1 \/ threads' = {}
    <3>1. gen >= 1
      BY RegistryTypes DEF HandlingTypeOK
    <3> QED BY <1>0, <2>1, <3>1
  <2> QED BY <2>1, <2>3, <2>4 DEF ThreadsOK, DiscordFirst
<1>6. CASE NoHandlers
  BY <1>6 DEF NoHandlers, ThreadsOK, DiscordFirst
<1>7. CASE Elsewhere
  BY <1>7 DEF Elsewhere, ThreadsOK
<1> QED BY <1>1, <1>2, <1>3, <1>4, <1>5, <1>6, <1>7, HandlingCases

\* Discord is missing only until it has been built, as the first, and before the
\* first !reload nobody is there to post until then.
LEMMA DiscordIsThere ==
  ASSUME DiscordFirst, HandlingTypeOK, BuiltOK, ThreadsOK, byName[Discord] = 0
  PROVE  /\ phase = "building" /\ toBuild = Order /\ toBuild[1] = Discord
         /\ gen = 1 => threads = {}
<1>1. gen \in Nat /\ gen >= 1
  BY RegistryTypes DEF HandlingTypeOK
<1>2. Discord \in Range(toBuild)
  BY <1>1, RegistryTypes DEF BuiltOK
<1>3. toBuild # <<>>
  BY <1>2, ListsEmptied
<1> QED BY <1>2, <1>3 DEF BuiltOK, ThreadsOK, DiscordFirst

LEMMA CrashStep ==
  ASSUME DiscordFirst, HandlingTypeOK, BuiltOK, EnabledOK, ThreadsOK, CrashOK,
         [ProcessNext]_processVars
  PROVE  CrashOK'
<1>0. /\ gen \in Nat /\ gen >= 1 /\ toBuild \in Seq(Handling!Names)
      /\ toEnable \in Seq(Handling!Handlers)
  BY RegistryTypes DEF HandlingTypeOK
<1>a. ASSUME crash' = "none" PROVE CrashOK'
  BY <1>a DEF CrashOK
<1>1. CASE StartBot
  <2>1. crash' = "none"
    BY <1>1 DEF StartBot, NoHandlers, Alive
  <2> QED BY <1>a, <2>1
<1>2. CASE RegisterSome
  <2>1. CASE Handling!Register
    <3>1. /\ Handling!Alive /\ toBuild # <<>>
          /\ IF Head(toBuild) \in Posting THEN Handling!Posts ELSE UNCHANGED crash
      BY <2>1 DEF Handling!Register
    <3>2. Head(toBuild) = toBuild[1]
      BY <1>0, <3>1, HeadAndTail
    <3>3. crash' # "none" => Head(toBuild) \in Posting /\ byName[Discord] = 0
      BY <3>1 DEF Handling!Alive, Handling!Posts
    <3>4. crash' = "none"
      BY <3>2, <3>3, DiscordIsThere, RegistryTypes
    <3> QED BY <1>a, <3>4
  <2>2. CASE Handling!StartEnabling
    <3>1. crash' = "none"
      BY <2>2 DEF Handling!StartEnabling, Handling!Alive
    <3> QED BY <1>a, <3>1
  <2>3. CASE Handling!Enable
    <3> DEFINE h == Head(toEnable)
    <3>1. /\ Handling!Alive /\ phase = "enabling" /\ toEnable # <<>>
          /\ UNCHANGED <<gen, config>>
          /\ \/ crash' = "none"
             \/ crash' = "thread replaced" /\ h.name \in Serving /\ h \in threads
             \/ crash' = "init threw" /\ h.name = Discord
      BY <2>3 DEF Handling!Enable, Handling!Alive
    <3>2. h \in Range(toEnable) /\ h \in Handling!Handlers
      BY <1>0, <3>1, HeadAndTail
    <3>3. h.gen \in Nat /\ h.gen >= 1 /\ h.gen <= gen
      BY <3>2, RegistryTypes DEF EnabledOK
    <3>4. h.name \in Handling!Configured /\ Handling!Configured' = Handling!Configured
      BY <3>1, <3>2 DEF EnabledOK, Handling!Configured
    <3>5. config.modules # {} => h.gen = gen
      BY <3>2 DEF EnabledOK
    <3> HIDE DEF h
    <3>6. h.name \in Serving /\ h \in threads => h.gen # gen
      BY <3>2 DEF ThreadsOK
    <3>7. CASE crash' = "none"
      BY <1>a, <3>7
    <3>8. CASE crash' = "thread replaced" /\ h.name \in Serving /\ h \in threads
      <4>1. config.modules = {} /\ h.gen # gen
        BY <3>5, <3>6, <3>8
      <4>2. gen > 1
        BY <1>0, <3>3, <4>1
      <4>3. gen' > 1 /\ config' = config
        BY <3>1, <4>2
      <4> QED BY <3>8, <4>1, <4>3 DEF CrashOK
    <3>9. CASE crash' = "init threw" /\ h.name = Discord
      BY <3>4, <3>9 DEF CrashOK
    <3> QED BY <3>1, <3>7, <3>8, <3>9
  <2> QED BY <1>2, <2>1, <2>2, <2>3 DEF RegisterSome
<1>3. CASE RegisterDone
  <2>1. crash' = "none"
    BY <1>3 DEF RegisterDone, Handling!Finish, Handling!Alive
  <2> QED BY <1>a, <2>1
<1>4. CASE GoOn \/ BotGone \/ Interrupt
  <2>1. crash' = "none"
    BY <1>4 DEF GoOn, BotGone, Interrupt, Alive, handlerVars
  <2> QED BY <1>a, <2>1
<1>5. ASSUME NEW h \in threads, EndThread(h) PROVE CrashOK'
  <2>1. \/ crash' = "none"
        \/ crash' = "thread dropped" /\ pc' = "destroying" /\ threads' = threads
    BY <1>5 DEF EndThread, Alive, vars
  <2>2. CASE crash' = "none"
    BY <1>a, <2>2
  <2>3. CASE crash' = "thread dropped" /\ pc' = "destroying" /\ threads' = threads
    BY <1>5, <2>3 DEF CrashOK
  <2> QED BY <2>1, <2>2, <2>3
<1>6. CASE ReloadAll
  <2>1. crash' = "none"
    BY <1>6 DEF ReloadAll, Handling!Reload, Alive, handlerVars
  <2> QED BY <1>a, <2>1
<1>7. ASSUME NEW h \in threads, ServerReady(h) PROVE CrashOK'
  <2>1. crash' = "none"
    BY <1>7 DEF ServerReady, Alive, handlerVars
  <2> QED BY <1>a, <2>1
<1>8. ASSUME NEW h \in threads, Post(h) PROVE CrashOK'
  <2>1. CASE pc = "destroying"
    <3>1. crash' \in {"none", "late post"} /\ pc' = "destroying" /\ threads' = threads
      BY <1>8, <2>1 DEF Post, vars
    <3>2. CASE crash' = "none"
      BY <1>a, <3>2
    <3>3. CASE crash' = "late post"
      BY <1>8, <3>1, <3>3 DEF CrashOK
    <3> QED BY <3>1, <3>2, <3>3
  <2>2. CASE pc # "destroying"
    <3>1. Handling!ThreadPosts(h)
      BY <1>8, <2>2 DEF Post
    <3>2. /\ UNCHANGED <<gen, toBuild, phase>>
          /\ crash' = "none" \/ (crash' = "no discord" /\ byName[Discord] = 0)
      BY <3>1 DEF Handling!ThreadPosts, Handling!Posts, Handling!Alive
    <3>3. CASE crash' = "none"
      BY <1>a, <3>3
    <3>4. CASE crash' = "no discord" /\ byName[Discord] = 0
      <4>1. phase = "building" /\ toBuild = Order /\ gen # 1
        BY <1>8, <3>4, DiscordIsThere
      <4>2. gen > 1
        BY <1>0, <4>1
      <4>3. phase' = "building" /\ toBuild' = Order /\ gen' > 1
        BY <3>2, <4>1, <4>2
      <4> QED BY <3>4, <4>3 DEF CrashOK
    <3> QED BY <3>2, <3>3, <3>4
  <2> QED BY <2>1, <2>2
<1>9. CASE HandlerThrows
  BY <1>9 DEF HandlerThrows, CrashOK
<1>10. CASE NoIdMap
  BY <1>10 DEF NoIdMap, CrashOK
<1>11. CASE UNCHANGED processVars
  <2>1. UNCHANGED <<crash, gen, phase, toBuild, config, pc, threads>>
    BY <1>11 DEF processVars, vars, handlerVars
  <2>2. Handling!Configured' = Handling!Configured
    BY <2>1 DEF Handling!Configured
  <2> QED BY <2>1, <2>2 DEF CrashOK
<1> QED
  BY <1>1, <1>2, <1>3, <1>4, <1>5, <1>6, <1>7, <1>8, <1>9, <1>10, <1>11
     DEF ProcessNext, Thread

\* The process does to the state of main() and its interrupts what Lifecycle does,
\* or nothing.
LEMMA LifecycleCases ==
  ASSUME [ProcessNext]_processVars
  PROVE  \/ UNCHANGED vars \/ Start \/ Build \/ Register
         \/ CreateClient \/ Connected \/ ConnectFails \/ ConnectReturns \/ ConnectionLost
         \/ RunReturns \/ Reread \/ StartDestroying \/ Destroyed \/ Decide
         \/ Die \/ Restart \/ Reload \/ SigTerm
         \/ \E kind \in {"good", "incomplete", "broken"} : EditFile(kind)
BY Zenon
   DEF ProcessNext, Thread, StartBot, RegisterSome, RegisterDone, GoOn, BotGone, EndThread,
       ServerReady, Post, ReloadAll, Interrupt, HandlerThrows, NoIdMap, processVars

LEMMA LifecycleStep ==
  ASSUME [ProcessNext]_processVars
  PROVE  [Next]_vars
BY LifecycleCases DEF Next, Main

LEMMA AskedForStep ==
  ASSUME AskedFor, [Next]_vars
  PROVE  AskedFor'
<1> USE DEF AskedFor
<1>0. ASSUME UNCHANGED vars PROVE AskedFor'
  BY <1>0 DEF vars
<1>1. CASE Start
  BY <1>1 DEF Start
<1>2. CASE Build
  BY <1>2 DEF Build
<1>3. CASE Register
  BY <1>3 DEF Register
<1>4. CASE CreateClient \/ Connected \/ ConnectFails \/ ConnectReturns \/ ConnectionLost
  BY <1>4 DEF CreateClient, Connected, ConnectFails, ConnectReturns, ConnectionLost
<1>5. CASE RunReturns
  BY <1>5 DEF RunReturns
<1>6. CASE Reread
  BY <1>6 DEF Reread
<1>7. CASE StartDestroying \/ Destroyed
  BY <1>7 DEF StartDestroying, Destroyed
<1>8. CASE Decide
  BY <1>8 DEF Decide
<1>9. CASE Die \/ Restart
  BY <1>9 DEF Die, Restart
<1>10. CASE Reload
  BY <1>10 DEF Reload
<1>11. CASE SigTerm
  BY <1>11 DEF SigTerm
<1>12. ASSUME NEW kind, EditFile(kind) PROVE AskedFor'
  BY <1>12 DEF EditFile
<1> QED
  BY <1>0, <1>1, <1>2, <1>3, <1>4, <1>5, <1>6, <1>7, <1>8, <1>9, <1>10, <1>11, <1>12
     DEF Next, Main

LEMMA ProcessInvariance ==
  ASSUME DiscordFirst
  PROVE  ProcessSpec => []ProcessIInv
<1>1. ProcessInit => ProcessIInv
  <2> SUFFICES ASSUME ProcessInit PROVE ProcessIInv
    OBVIOUS
  <2>1. toBuild = Order /\ threads = {} /\ crash = "none"
    BY DEF ProcessInit, Handling!Init
  <2>2. ThreadsOK /\ CrashOK
    BY <2>1 DEF ThreadsOK, CrashOK
  <2>3. AskedFor
    BY DEF ProcessInit, Init, AskedFor
  <2> QED BY <2>2, <2>3, HandlersAtFirst DEF ProcessIInv
<1>2. ProcessIInv /\ [ProcessNext]_processVars => ProcessIInv'
  BY HandlingTypeStep, BuiltStep, EnabledStep, ThreadsStep, CrashStep, LifecycleStep,
     AskedForStep
     DEF ProcessIInv
<1> QED BY <1>1, <1>2, PTL DEF ProcessSpec

\* Process.EndsForAReason: main() and Bot::~Bot end the process only when somebody
\* has asked for it, or a restart has met an unfit file; and of all the posts, starts
\* of threads and exceptions of handlers, each kind brings it down only where the
\* property says: no thread meets a map without Discord, and none is replaced, before
\* the first !reload or with settings that list the modules.  The constructor of
\* Discord has to come first, as in RegisterAllHandlers.
THEOREM EndsForAReasonCorrect ==
  ASSUME DiscordFirst
  PROVE  ProcessSpec => []EndsForAReason
<1>1. ProcessIInv => EndsForAReason
  BY DEF ProcessIInv, CrashOK, AskedFor, EndsForAReason
<1> QED BY <1>1, ProcessInvariance, PTL

\* Process is Lifecycle with handlers: whatever the handlers do, main(), the signals
\* and the commands do no more than Lifecycle says, in no other order, so that what
\* holds of Lifecycle holds of the whole process.
THEOREM ProcessIsLifecycle == ProcessSpec => Spec
<1>1. ProcessInit => Init
  BY DEF ProcessInit
<1>2. [ProcessNext]_processVars => [Next]_vars
  BY LifecycleStep
<1> QED BY <1>1, <1>2, PTL DEF ProcessSpec, Spec

\* Settings::Open reads the file as it is now, all of it, half of it or nothing.
ReadsFile == file' = file /\ (Open \/ UNCHANGED settings)

LEMMA ReadingKeepsOrder ==
  ASSUME TypeOK, SettingsInOrder, ReadsFile
  PROVE  /\ settings' \in [config : 0..MaxEdits, ids : 0..MaxEdits]
         /\ SettingsInOrder' /\ SettingsNotOlder
<1> USE DEF SettingsInOrder, SettingsNotOlder
<1>1. PICK v \in 0..MaxEdits, kind \in {"good", "incomplete", "broken"} :
         file = [version |-> v, kind |-> kind]
  BY DEF TypeOK
<1>2. PICK c \in 0..MaxEdits, i \in 0..MaxEdits : settings = [config |-> c, ids |-> i]
  BY DEF TypeOK
<1>3. i <= c /\ c <= v /\ file.version = v
  BY <1>1, <1>2
<1>4. \/ settings' = [config |-> v, ids |-> v] \/ settings' = [config |-> v, ids |-> i]
      \/ settings' = settings
  BY <1>1, <1>2 DEF ReadsFile, Open
<1>5. PICK d \in 0..MaxEdits, j \in 0..MaxEdits :
         settings' = [config |-> d, ids |-> j] /\ c <= d /\ d <= v /\ i <= j /\ j <= d
  BY <1>2, <1>3, <1>4, LifecycleAssumption
<1>6. settings.config = c /\ settings.ids = i /\ settings'.config = d /\ settings'.ids = j
  BY <1>2, <1>5
<1>7. file'.version = v
  BY <1>3 DEF ReadsFile
<1> QED BY <1>5, <1>6, <1>7

LEMMA StepReadsFile ==
  ASSUME [Next]_vars, ~ReadsFile
  PROVE  \E kind \in {"good", "incomplete", "broken"} : EditFile(kind)
<1> USE DEF ReadsFile
<1>1. CASE Start \/ Build \/ Register \/ CreateClient \/ Connected \/ ConnectFails
  BY <1>1 DEF Start, Build, Register, CreateClient, Connected, ConnectFails
<1>2. CASE ConnectionLost \/ ConnectReturns \/ RunReturns \/ Reread \/ Reload
  BY <1>2 DEF ConnectionLost, ConnectReturns, RunReturns, Reread, Reload
<1>3. CASE StartDestroying \/ Destroyed \/ Decide \/ Die \/ Restart \/ SigTerm
  BY <1>3 DEF StartDestroying, Destroyed, Decide, Die, Restart, SigTerm
<1>4. CASE UNCHANGED vars
  BY <1>4 DEF vars
<1> QED BY <1>1, <1>2, <1>3, <1>4 DEF Next, Main

LEMMA SettingsStep ==
  ASSUME TypeOK, SettingsInOrder, [Next]_vars
  PROVE  /\ settings' \in [config : 0..MaxEdits, ids : 0..MaxEdits]
         /\ file' \in [version : 0..MaxEdits, kind : {"good", "incomplete", "broken"}]
         /\ SettingsInOrder' /\ SettingsNotOlder
<1>1. CASE ReadsFile
  <2>1. file' = file
    BY <1>1 DEF ReadsFile
  <2> QED BY <1>1, <2>1, ReadingKeepsOrder DEF TypeOK
<1>2. CASE ~ReadsFile
  <2>1. PICK kind \in {"good", "incomplete", "broken"} : EditFile(kind)
    BY <1>2, StepReadsFile
  <2>2. PICK v \in 0..MaxEdits : file.version = v
    BY DEF TypeOK
  <2>3. v < MaxEdits /\ file' = [version |-> v + 1, kind |-> kind] /\ settings' = settings
    BY <2>1, <2>2 DEF EditFile
  <2>4. v + 1 \in 0..MaxEdits /\ file'.version = v + 1
    BY <2>3, LifecycleAssumption
  <2>5. PICK c \in 0..MaxEdits, i \in 0..MaxEdits : settings = [config |-> c, ids |-> i]
    BY DEF TypeOK
  <2>6. c <= v /\ i <= c /\ settings.config = c /\ settings.ids = i
    BY <2>2, <2>5 DEF SettingsInOrder
  <2>7. settings'.config = c /\ settings'.ids = i
    BY <2>3, <2>6
  <2>8. SettingsInOrder' /\ SettingsNotOlder
    BY <2>4, <2>6, <2>7 DEF SettingsInOrder, SettingsNotOlder
  <2> QED BY <2>3, <2>4, <2>8 DEF TypeOK
<1> QED BY <1>1, <1>2

LEMMA LifecycleTypeStep ==
  ASSUME TypeOK, SettingsInOrder, [Next]_vars
  PROVE  TypeOK'
<1> DEFINE Words ==
      /\ pc \in {"opening", "building", "registering", "creating", "connecting", "online",
                 "ended", "returned", "reread", "destroying", "deciding", "exited"}
      /\ exitCode \in {"Error", "TerminationRequested", "RestartRequested"}
      /\ result \in {"Error", "TerminationRequested", "RestartRequested"}
      /\ status \in {"running", "done", "not started", "bad config", "killed"}
      /\ client \in {"none", "new", "connected", "closed"}
           Flags == installed \in BOOLEAN /\ room \in BOOLEAN /\ asked \subseteq {"stop", "restart"}
<1>0. /\ settings' \in [config : 0..MaxEdits, ids : 0..MaxEdits]
      /\ file' \in [version : 0..MaxEdits, kind : {"good", "incomplete", "broken"}]
  BY SettingsStep
<1>a. Words /\ Flags
  BY DEF TypeOK
<1>1. ASSUME Start PROVE Words' /\ Flags'
  <2>1. Words'
    BY <1>a, <1>1 DEF Start
  <2>2. Flags'
    BY <1>a, <1>1 DEF Start
  <2> QED BY <2>1, <2>2
<1>2. ASSUME Build \/ Register PROVE Words' /\ Flags'
  <2>1. Words'
    BY <1>a, <1>2 DEF Build, Register
  <2>2. Flags'
    BY <1>a, <1>2 DEF Build, Register
  <2> QED BY <2>1, <2>2
<1>3. ASSUME CreateClient \/ Connected \/ ConnectFails PROVE Words' /\ Flags'
  <2>1. Words'
    BY <1>a, <1>3 DEF CreateClient, Connected, ConnectFails
  <2>2. Flags'
    BY <1>a, <1>3 DEF CreateClient, Connected, ConnectFails
  <2> QED BY <2>1, <2>2
<1>4. ASSUME ConnectionLost \/ ConnectReturns PROVE Words' /\ Flags'
  <2>1. Words'
    BY <1>a, <1>4 DEF ConnectionLost, ConnectReturns
  <2>2. Flags'
    BY <1>a, <1>4 DEF ConnectionLost, ConnectReturns
  <2> QED BY <2>1, <2>2
<1>5. ASSUME RunReturns PROVE Words' /\ Flags'
  <2>1. Words'
    BY <1>a, <1>5 DEF RunReturns
  <2>2. Flags'
    BY <1>a, <1>5 DEF RunReturns
  <2> QED BY <2>1, <2>2
<1>6. ASSUME Reread PROVE Words' /\ Flags'
  <2>1. Words'
    BY <1>a, <1>6 DEF Reread
  <2>2. Flags'
    BY <1>a, <1>6 DEF Reread
  <2> QED BY <2>1, <2>2
<1>7. ASSUME StartDestroying \/ Destroyed PROVE Words' /\ Flags'
  <2>1. Words'
    BY <1>a, <1>7 DEF StartDestroying, Destroyed
  <2>2. Flags'
    BY <1>a, <1>7 DEF StartDestroying, Destroyed
  <2> QED BY <2>1, <2>2
<1>8. ASSUME Decide PROVE Words' /\ Flags'
  <2>1. Words'
    BY <1>a, <1>8 DEF Decide
  <2>2. Flags'
    BY <1>a, <1>8 DEF Decide
  <2> QED BY <2>1, <2>2
<1>9. ASSUME Die PROVE Words' /\ Flags'
  <2>1. Words'
    BY <1>a, <1>9 DEF Die, Disconnect
  <2>2. Flags'
    BY <1>a, <1>9 DEF Die, Disconnect
  <2> QED BY <2>1, <2>2
<1>10. ASSUME Restart PROVE Words' /\ Flags'
  <2>1. Words'
    BY <1>a, <1>10 DEF Restart, Disconnect
  <2>2. Flags'
    BY <1>a, <1>10 DEF Restart, Disconnect
  <2> QED BY <2>1, <2>2
<1>11. ASSUME SigTerm PROVE Words' /\ Flags'
  <2>1. Words'
    BY <1>a, <1>11 DEF SigTerm, Disconnect
  <2>2. Flags'
    BY <1>a, <1>11 DEF SigTerm, Disconnect
  <2> QED BY <2>1, <2>2
<1>12. ASSUME Reload PROVE Words' /\ Flags'
  <2>1. Words'
    BY <1>a, <1>12 DEF Reload
  <2>2. Flags'
    BY <1>a, <1>12 DEF Reload
  <2> QED BY <2>1, <2>2
<1>13. ASSUME NEW kind, EditFile(kind) PROVE Words' /\ Flags'
  <2>1. Words'
    BY <1>a, <1>13 DEF EditFile
  <2>2. Flags'
    BY <1>a, <1>13 DEF EditFile
  <2> QED BY <2>1, <2>2
<1>14. ASSUME UNCHANGED vars PROVE Words' /\ Flags'
  <2>1. Words'
    BY <1>a, <1>14 DEF vars
  <2>2. Flags'
    BY <1>a, <1>14 DEF vars
  <2> QED BY <2>1, <2>2
<1>15. Words' /\ Flags'
  <2> HIDE DEF Words, Flags
  <2> QED BY <1>1, <1>2, <1>3, <1>4, <1>5, <1>6, <1>7, <1>8, <1>9, <1>10, <1>11, <1>12, <1>13, <1>14 DEF Next, Main
<1> QED BY <1>0, <1>15 DEF TypeOK

LEMMA LifecycleAtFirst ==
  ASSUME Init
  PROVE  TypeOK /\ SettingsInOrder
<1>1. PICK kind \in {"good", "incomplete", "broken"} :
        file = [version |-> 0, kind |-> kind] /\ settings = [config |-> 0, ids |-> 0]
  BY DEF Init
<1>2. 0 \in 0..MaxEdits
  BY LifecycleAssumption
<1>3. SettingsInOrder
  BY <1>1 DEF SettingsInOrder
<1>4. /\ file \in [version : 0..MaxEdits, kind : {"good", "incomplete", "broken"}]
      /\ settings \in [config : 0..MaxEdits, ids : 0..MaxEdits]
  BY <1>1, <1>2
<1> QED BY <1>3, <1>4 DEF Init, TypeOK

\* Lifecycle: its variables have their types, however often the bot is built, and
\* what Settings holds is of no version that the file has not had yet.
THEOREM LifecycleTypeCorrect == Spec => [](TypeOK /\ SettingsInOrder)
<1>1. Init => TypeOK /\ SettingsInOrder
  BY LifecycleAtFirst
<1>2. TypeOK /\ SettingsInOrder /\ [Next]_vars => TypeOK' /\ SettingsInOrder'
  BY SettingsStep, LifecycleTypeStep
<1> QED BY <1>1, <1>2, PTL DEF Spec

\* No start, restart or !reload takes the settings back to an older version of the
\* file than they have been read from, also not one that is refused half-way: then
\* what Settings::_config holds is newer than the account's entries, never older.
THEOREM SettingsGoForward ==
  ProcessSpec => []SettingsInOrder /\ [][SettingsNotOlder]_vars
<1>1. TypeOK /\ SettingsInOrder /\ [Next]_vars => [SettingsNotOlder]_vars
  BY SettingsStep
<1> QED BY <1>1, ProcessIsLifecycle, LifecycleTypeCorrect, PTL DEF Spec

\* What may happen to the handlers: a step of Registry, a new Bot, the end of one,
\* an exception nobody catches.
BotEnds ==
  /\ pc = "destroying" /\ threads' \subseteq threads
  /\ UNCHANGED <<config, gen, built, enabled, byName, toBuild, toEnable, phase, inits>>

Uncaught ==
  /\ crash' \in {"handler threw", "no id map"}
  /\ UNCHANGED <<config, gen, built, enabled, byName, toBuild, toEnable, phase, inits, threads>>

\* Process treats the handlers as Registry says, from the building of a Bot until ~Bot,
\* which only ends threads, or the process, but for exceptions: neither main() nor a
\* signal, a command or an edit of the file touches lists, map or threads in any other
\* way, a !reload that is refused included.
THEOREM HandlersAsInRegistry ==
  ProcessSpec =>
    [][Handling!Next \/ (pc = "building" /\ NoHandlers) \/ BotEnds \/ Uncaught]_handlerVars
<1> DEFINE Allowed == Handling!Next \/ (pc = "building" /\ NoHandlers) \/ BotEnds \/ Uncaught
<1>1. ASSUME [ProcessNext]_processVars PROVE Allowed \/ UNCHANGED handlerVars
  <2>1. CASE StartBot
    BY <2>1 DEF StartBot, Build
  <2>2. CASE RegisterSome
    BY <2>2 DEF RegisterSome, Handling!Next
  <2>3. CASE RegisterDone
    BY <2>3 DEF RegisterDone, Handling!Next
  <2>4. CASE GoOn \/ BotGone \/ Interrupt
    BY <2>4 DEF GoOn, BotGone, Interrupt
  <2>5. ASSUME NEW h \in threads, EndThread(h) PROVE BotEnds
    BY <2>5 DEF EndThread, BotEnds
  <2>6. CASE ReloadAll
    BY <2>6 DEF ReloadAll, Handling!Next
  <2>7. ASSUME NEW h \in threads, ServerReady(h) PROVE UNCHANGED handlerVars
    BY <2>7 DEF ServerReady
  <2>8. ASSUME NEW h \in threads, Post(h) PROVE Handling!Next \/ BotEnds
    BY <2>8 DEF Post, BotEnds, Handling!Next
  <2>9. CASE UNCHANGED processVars
    BY <2>9 DEF processVars
  <2>10. BotEnds \/ Uncaught \/ Handling!Next => Allowed
    OBVIOUS
  <2>11. CASE HandlerThrows \/ NoIdMap
    <3>1. Uncaught
      BY <2>11 DEF HandlerThrows, NoIdMap, Uncaught
    <3> QED BY <2>10, <3>1
  <2> HIDE DEF Allowed
  <2> QED
    BY Zenon, <1>1, <2>10, <2>1, <2>2, <2>3, <2>4, <2>5, <2>6, <2>7, <2>8, <2>9, <2>11
       DEF ProcessNext, Thread
<1>2. [ProcessNext]_processVars => [Allowed]_handlerVars
  BY <1>1
<1> QED BY <1>2, PTL DEF ProcessSpec

\* The settings that enable a handler do so by name: a list of modules stands for the
\* newest handlers only, an empty one for every handler that was ever built.
ByName(names) == \A c \in Configs : c.modules # {} \/ names \subseteq c.blacklist

ConfigOK == config \in Configs /\ listed \in [0..MaxEdits -> Configs]

\* A handler with one of the names is enabled when its generation is, and is then
\* no longer to come.
InitsOK(names) ==
  /\ inits \in [Handling!Handlers -> Nat]
  /\ \A h \in Handling!Handlers : h.name \in names =>
       /\ inits[h] <= 1
       /\ inits[h] > 0 => h.gen <= gen /\ (h.gen = gen => phase # "building" /\ h \notin Range(toEnable))
  /\ \A h \in Range(toEnable) : h.name \in names => h.gen = gen
  /\ \A h \in threads : h.name \in Serving => inits[h] > 0

NoneReplaced(names) == Serving \subseteq names => crash # "thread replaced"

LEMMA ConfigStep ==
  ASSUME TypeOK, SettingsInOrder, ConfigOK, [ProcessNext]_processVars
  PROVE  ConfigOK'
<1> USE DEF ConfigOK, handlerVars
<1>0. settings \in [config : 0..MaxEdits, ids : 0..MaxEdits]
      /\ settings' \in [config : 0..MaxEdits, ids : 0..MaxEdits]
  BY LifecycleStep, SettingsStep DEF TypeOK
<1>1. CASE StartBot
  <2>1. config' = listed[settings.config] /\ listed' = listed
    BY <1>1 DEF StartBot
  <2> QED BY <1>0, <2>1
<1>2. CASE RegisterSome
  BY <1>2 DEF RegisterSome, Handling!Register, Handling!StartEnabling, Handling!Enable
<1>3. CASE RegisterDone
  BY <1>3 DEF RegisterDone, Handling!Finish
<1>4. CASE GoOn \/ BotGone
  BY <1>4 DEF GoOn, BotGone
<1>5. ASSUME NEW h \in threads, EndThread(h) PROVE ConfigOK'
  BY <1>5 DEF EndThread
<1>6. CASE ReloadAll
  <2>1. listed' = listed /\ (config' = listed[settings'.config] \/ config' = config)
    BY <1>6 DEF ReloadAll
  <2>2. settings'.config \in 0..MaxEdits
    BY <1>0
  <2> QED BY <2>1, <2>2
<1>7. CASE Interrupt
  BY <1>7 DEF Interrupt
<1>8. ASSUME NEW h \in threads, ServerReady(h) \/ Post(h) PROVE ConfigOK'
  BY <1>8 DEF ServerReady, Post, Handling!ThreadPosts
<1>9. CASE UNCHANGED processVars
  BY <1>9 DEF processVars
<1>10. CASE HandlerThrows \/ NoIdMap
  BY <1>10 DEF HandlerThrows, NoIdMap
<1> QED
  BY <1>1, <1>2, <1>3, <1>4, <1>5, <1>6, <1>7, <1>8, <1>9, <1>10 DEF ProcessNext, Thread

LEMMA InitsStep ==
  ASSUME NEW names, ByName(names), HandlingTypeOK, BuiltOK, EnabledOK, ConfigOK,
         InitsOK(names), NoneReplaced(names), [ProcessNext]_processVars
  PROVE  InitsOK(names)' /\ NoneReplaced(names)'
<1>0. /\ gen \in Nat /\ toBuild \in Seq(Handling!Names)
      /\ toEnable \in Seq(Handling!Handlers) /\ threads \subseteq Handling!Handlers
      /\ inits \in [Handling!Handlers -> Nat]
      /\ \A h \in Handling!Handlers : h.gen \in Nat /\ h.gen >= 1
  BY RegistryTypes DEF HandlingTypeOK, InitsOK
<1>a. Posting \cap Serving = {}
  BY RegistryTypes
<1>1. CASE Handling!Register
  <2> DEFINE h == Newest(Head(toBuild))
  <2>1. /\ UNCHANGED <<gen, toEnable, phase, inits>>
        /\ threads' = threads \/ (h.name \in Posting /\ threads' = threads \cup {h})
        /\ crash' = crash \/ crash' = "no discord"
    BY <1>1 DEF Handling!Register, Handling!Posts, Newest
  <2> HIDE DEF h
  <2>2. NoneReplaced(names)'
    BY <2>1 DEF NoneReplaced
  <2>3. \A g \in threads' : g.name \in Serving => inits'[g] > 0
    BY <1>a, <2>1 DEF InitsOK
  <2> QED BY <2>1, <2>2, <2>3 DEF InitsOK
<1>2. CASE Handling!StartEnabling
  <2> DEFINE list == Handling!HandlersToEnable
  <2>1. /\ phase = "building" /\ toBuild = <<>> /\ toEnable' = list
        /\ UNCHANGED <<config, gen, inits, threads, crash>>
    BY <1>2 DEF Handling!StartEnabling
  <2>2. /\ \A h \in Range(list) : h.name \in Handling!Configured
        /\ config.modules # {} => \A h \in Range(list) : h.gen = gen
    BY <2>1, AskedForOnce
  <2> HIDE DEF list
  <2>3. \A h \in Range(list) : h.name \in names => h.gen = gen
    <3>1. CASE config.modules # {}
      BY <2>2, <3>1
    <3>2. CASE config.modules = {}
      <4>1. names \subseteq config.blacklist
        BY <3>2 DEF ByName, ConfigOK
      <4> QED BY <2>2, <4>1 DEF Handling!Configured
    <3> QED BY <3>1, <3>2
  <2>4. Range(toEnable)' = Range(list)
    BY <2>1
  <2>5. \A h \in Handling!Handlers : h.name \in names /\ inits[h] > 0 => h.gen <= gen /\ h.gen # gen
    BY <2>1 DEF InitsOK
  <2>6. NoneReplaced(names)'
    BY <2>1 DEF NoneReplaced
  <2> QED BY <2>1, <2>3, <2>4, <2>5, <2>6 DEF InitsOK
<1>3. CASE Handling!Enable
  <2> DEFINE h == Head(toEnable)
             rest == Tail(toEnable)
  <2>1. /\ toEnable # <<>> /\ toEnable' = rest /\ phase = "enabling"
        /\ UNCHANGED <<gen, phase>>
        /\ inits' = [inits EXCEPT ![h] = @ + 1]
        /\ threads' = threads \/ threads' = threads \cup {h}
        /\ \/ crash' = crash \/ crash' = "init threw"
           \/ crash' = "thread replaced" /\ h.name \in Serving /\ h \in threads
    BY <1>3 DEF Handling!Enable
  <2>2. /\ h \in Handling!Handlers /\ Range(toEnable) = {h} \cup Range(rest)
        /\ h \notin Range(rest)
    BY <1>0, <2>1, HeadAndTail DEF EnabledOK
  <2> HIDE DEF h, rest
  <2>3. Range(toEnable)' = Range(rest)
    BY <2>1
  <2>4. h.name \in names => h.gen = gen /\ inits[h] = 0
    BY <1>0, <2>2 DEF InitsOK
  <2>5. /\ inits' \in [Handling!Handlers -> Nat] /\ inits'[h] = inits[h] + 1
        /\ \A g \in Handling!Handlers : g # h => inits'[g] = inits[g]
    <3>1. inits[h] \in Nat /\ inits[h] + 1 \in Nat
      BY <1>0, <2>2
    <3>2. inits' = [inits EXCEPT ![h] = inits[h] + 1]
      BY <2>1
    <3> QED BY <1>0, <2>2, <3>1, <3>2
  <2>6. ASSUME NEW g \in Handling!Handlers, g.name \in names
        PROVE  /\ inits'[g] <= 1
               /\ inits'[g] > 0 =>
                    /\ g.gen <= gen'
                    /\ g.gen = gen' => phase' # "building" /\ g \notin Range(toEnable)'
    <3>1. CASE g = h
      <4>1. h.gen = gen /\ inits[h] = 0
        BY <2>4, <2>6, <3>1
      <4>3. inits'[h] = 1
        BY <2>5, <4>1
      <4>4. gen' = gen /\ phase' # "building"
        BY <2>1
      <4>2. h \notin Range(toEnable)'
        BY <2>2, <2>3
      <4> QED BY <1>0, <3>1, <4>1, <4>2, <4>3, <4>4
    <3>2. CASE g # h
      BY <2>1, <2>2, <2>3, <2>5, <2>6, <3>2 DEF InitsOK
    <3> QED BY <3>1, <3>2
  <2>7. \A g \in Range(toEnable)' : g.name \in names => g.gen = gen'
    BY <2>1, <2>2, <2>3 DEF InitsOK
  <2>8. ASSUME NEW g \in threads', g.name \in Serving PROVE inits'[g] > 0
    <3>1. CASE g = h
      BY <1>0, <2>2, <2>5, <3>1
    <3>2. CASE g # h
      BY <1>0, <2>1, <2>5, <2>8, <3>2 DEF InitsOK
    <3> QED BY <3>1, <3>2
  <2>9. NoneReplaced(names)'
    <3>1. h \in threads /\ h.name \in Serving => inits[h] > 0
      BY DEF InitsOK
    <3>2. Serving \subseteq names => ~(h.name \in Serving /\ h \in threads)
      BY <2>4, <3>1
    <3> QED BY <2>1, <3>2 DEF NoneReplaced
  <2> QED BY <2>5, <2>6, <2>7, <2>8, <2>9 DEF InitsOK
<1>4. CASE Handling!Finish
  <2>1. /\ phase' = "done" /\ UNCHANGED <<gen, toEnable, inits, threads, crash>>
    BY <1>4 DEF Handling!Finish
  <2>2. phase = "enabling"
    BY <1>4 DEF Handling!Finish
  <2> QED BY <2>1, <2>2 DEF InitsOK, NoneReplaced
<1>5. CASE Handling!Reload
  <2>1. gen' = gen + 1 /\ phase = "done" /\ UNCHANGED <<toEnable, inits, threads, crash>>
    BY <1>5 DEF Handling!Reload
  <2>2. Range(toEnable)' = {}
    BY <2>1, ListsEmptied DEF EnabledOK
  <2>3. \A h \in Handling!Handlers : h.name \in names /\ inits[h] > 0 => h.gen <= gen' /\ h.gen # gen'
    BY <1>0, <2>1 DEF InitsOK
  <2> QED BY <2>1, <2>2, <2>3 DEF InitsOK, NoneReplaced
<1>6. CASE NoHandlers
  <2>1. inits' = [h \in Handling!Handlers |-> 0] /\ toEnable' = <<>> /\ threads' = {} /\ crash' = crash
    BY <1>6 DEF NoHandlers
  <2>2. Range(toEnable)' = {}
    BY <2>1, ListsEmptied
  <2>3. inits' \in [Handling!Handlers -> Nat] /\ \A h \in Handling!Handlers : inits'[h] = 0
    BY <2>1
  <2>4. InitsOK(names)'
    BY <2>1, <2>2, <2>3 DEF InitsOK
  <2>5. NoneReplaced(names)'
    BY <2>1 DEF NoneReplaced
  <2> QED BY <2>4, <2>5
<1>7. CASE Elsewhere
  <2>1. UNCHANGED <<gen, toEnable, phase, inits>> /\ threads' \subseteq threads
    BY <1>7 DEF Elsewhere
  <2>2. crash' = crash \/ crash' # "thread replaced"
    BY <1>7 DEF Elsewhere
  <2> QED BY <2>1, <2>2 DEF InitsOK, NoneReplaced
<1> QED BY <1>1, <1>2, <1>3, <1>4, <1>5, <1>6, <1>7, HandlingCases

OnceInv(names) ==
  /\ TypeOK /\ SettingsInOrder /\ ConfigOK /\ HandlingTypeOK /\ BuiltOK /\ EnabledOK
  /\ InitsOK(names) /\ NoneReplaced(names)

LEMMA OnceAtFirst ==
  ASSUME NEW names, ProcessInit
  PROVE  OnceInv(names)
<1>1. TypeOK /\ SettingsInOrder
  BY LifecycleAtFirst DEF ProcessInit
<1>2. ConfigOK
  <2>1. 0 \in 0..MaxEdits
    BY LifecycleAssumption
  <2> QED BY <2>1 DEF ProcessInit, ConfigOK
<1>3. /\ inits = [h \in Handling!Handlers |-> 0] /\ toEnable = <<>> /\ threads = {}
      /\ crash = "none"
  BY DEF ProcessInit, Handling!Init
<1>4. Range(toEnable) = {}
  BY <1>3, ListsEmptied
<1>5. inits \in [Handling!Handlers -> Nat] /\ \A h \in Handling!Handlers : inits[h] = 0
  BY <1>3
<1>6. InitsOK(names) /\ NoneReplaced(names)
  BY <1>3, <1>4, <1>5 DEF InitsOK, NoneReplaced
<1> QED BY <1>1, <1>2, <1>6, HandlersAtFirst DEF OnceInv

LEMMA OnceStep ==
  ASSUME NEW names, ByName(names), OnceInv(names), [ProcessNext]_processVars
  PROVE  OnceInv(names)'
<1> USE DEF OnceInv
<1>1. TypeOK' /\ SettingsInOrder'
  BY LifecycleStep, SettingsStep, LifecycleTypeStep
<1>2. ConfigOK' /\ InitsOK(names)' /\ NoneReplaced(names)'
  BY ConfigStep, InitsStep
<1> QED BY <1>1, <1>2, HandlingTypeStep, BuiltStep, EnabledStep

\* Registry.ReloadKeepsThreads, in the whole process: !reload does come back with the
\* threads it found, with any settings that list the modules, or that forbid every
\* handler whose Init starts a thread.  The file as it is delivered does neither, and
\* with it the promise is broken.
THEOREM ReloadKeepsThreadsIfByName ==
  ASSUME ByName(Serving)
  PROVE  ProcessSpec => []Handling!ReloadKeepsThreads
<1>1. OnceInv(Serving) => Handling!ReloadKeepsThreads
  BY DEF OnceInv, NoneReplaced, Handling!ReloadKeepsThreads
<1>2. ProcessInit => OnceInv(Serving)
  BY OnceAtFirst
<1>3. OnceInv(Serving) /\ [ProcessNext]_processVars => OnceInv(Serving)'
  BY OnceStep
<1> QED BY <1>1, <1>2, <1>3, PTL DEF ProcessSpec

\* Registry.InitOnce, in the whole process: with settings that list the modules, Init
\* is "called once when module is enabled" (lemonhandler.h), whatever is reloaded.
THEOREM InitOnceIfByName ==
  ASSUME ByName(Handling!Names)
  PROVE  ProcessSpec => []Handling!InitOnce
<1>1. ASSUME OnceInv(Handling!Names) PROVE Handling!InitOnce
  <2>1. \A h \in Handling!Handlers : h.name \in Handling!Names
    BY RegistryTypes
  <2> QED BY <1>1, <2>1 DEF OnceInv, InitsOK, Handling!InitOnce
<1>2. ProcessInit => OnceInv(Handling!Names)
  BY OnceAtFirst
<1>3. OnceInv(Handling!Names) /\ [ProcessNext]_processVars => OnceInv(Handling!Names)'
  BY OnceStep
<1> QED BY <1>1, <1>2, <1>3, PTL DEF ProcessSpec

-----------------------------------------------------------------------------
(* Urls                                                                    *)

\* What a row of the log, and what a post, says of where it comes from.
LogRows == [message : Nat, url : Pages]
Posts == [message : Nat, site : Nat]

PreviewTypeOK ==
  /\ messages \in Seq(Seq(Pages))
  /\ log \in Seq(LogRows) /\ posts \in Seq(Posts)
  /\ job \in [Threads -> Nat]
  /\ found \in [Threads -> Nat]
  /\ doing \in [Threads -> {"fetching", "checking", "posting"}]

\* Every row and every post is of a message that there has been.
OfMessages ==
  /\ \A i \in DOMAIN log : log[i].message \in DOMAIN messages
  /\ \A i \in DOMAIN posts : posts[i].message \in DOMAIN messages

\* How many URLs of its message a thread has logged.
Logged(t) == IF doing[t] = "fetching" THEN found[t] ELSE found[t] + 1

\* Each thread has a message of its own, and its counter and its place tell how far
\* it is with it.
JobsOK ==
  \A t \in Threads :
    job[t] # 0 =>
      /\ job[t] \in DOMAIN messages
      /\ \A u \in Threads : job[u] = job[t] => u = t
      /\ Logged(t) <= Len(messages[job[t]])
      /\ doing[t] = "posting" => found[t] < MaxURLsInMessage
      /\ Cardinality(Of(log, job[t])) = Logged(t)
      /\ \A i \in DOMAIN posts : posts[i].message = job[t] => posts[i].site <= found[t]

\* The parts of LoggedAndShown.
LoggedInOrder ==
  \A i \in DOMAIN log :
    log[i].url = messages[log[i].message][Rank(Of(log, log[i].message), i)]
AllLogged ==
  \A m \in DOMAIN messages :
    (\A t \in Threads : job[t] # m) /\ m \notin thrown =>
      Cardinality(Of(log, m)) = Len(messages[m])
ShownInOrder ==
  /\ \A i \in DOMAIN posts : posts[i].site <= MaxURLsInMessage
  /\ \A i, j \in DOMAIN posts :
       i < j /\ posts[i].message = posts[j].message => posts[i].site < posts[j].site

PreviewIInv ==
  /\ PreviewTypeOK /\ OfMessages /\ JobsOK
  /\ LoggedInOrder /\ AllLogged /\ ShownInOrder

LEMMA PreviewInvImplies == PreviewIInv => LoggedAndShown
BY DEF PreviewIInv, LoggedInOrder, AllLogged, ShownInOrder, LoggedAndShown

\* One more row is the last of its message, and moves no other.
OneMore(list, e, grown) ==
  /\ \A m : m # e.message => Of(grown, m) = Of(list, m)
  /\ Cardinality(Of(grown, e.message)) = Cardinality(Of(list, e.message)) + 1
  /\ Rank(Of(grown, e.message), Len(list) + 1) = Cardinality(Of(list, e.message)) + 1
  /\ \A m : \A i \in DOMAIN list : Rank(Of(grown, m), i) = Rank(Of(list, m), i)

LEMMA OneMoreRow ==
  ASSUME NEW list \in Seq(LogRows), NEW e \in LogRows,
         NEW grown, grown = Append(list, e)
  PROVE  OneMore(list, e, grown)
<1> DEFINE last == Len(list) + 1
           P == Of(list, e.message)
<1>1. /\ Len(list) \in Nat /\ DOMAIN list = 1..Len(list) /\ last \notin DOMAIN list
      /\ DOMAIN grown = DOMAIN list \cup {last} /\ grown[last] = e
      /\ \A k \in DOMAIN list : grown[k] = list[k]
  BY AppendedTo
<1>2. \A k \in DOMAIN list : k \in Nat /\ k < last /\ k <= last /\ ~(last <= k)
  BY <1>1
<1> HIDE DEF last
<1>3. \A m : m # e.message => Of(grown, m) = Of(list, m)
  BY <1>1 DEF Of
<1>4. Of(grown, e.message) = P \cup {last} /\ last \notin P
  BY <1>1 DEF Of
<1>5. IsFiniteSet(P)
  <2>1. IsFiniteSet(DOMAIN list)
    BY <1>1, FS_Interval
  <2> QED BY <2>1, FS_Subset DEF Of
<1>6. Cardinality(P) \in Nat /\ Cardinality(P \cup {last}) = Cardinality(P) + 1
  BY <1>4, <1>5, FS_AddElement, FS_CardinalityType
<1>7. Rank(P \cup {last}, last) = Cardinality(P) + 1
  <2>1. {j \in P \cup {last} : j <= last} = P \cup {last}
    <3>1. last <= last
      BY <1>1 DEF last
    <3> QED BY <1>2, <3>1 DEF Of
  <2> QED BY <1>6, <2>1 DEF Rank
<1>8. ASSUME NEW i \in DOMAIN list, NEW m PROVE Rank(Of(grown, m), i) = Rank(Of(list, m), i)
  <2>1. {j \in Of(grown, m) : j <= i} = {j \in Of(list, m) : j <= i}
    BY <1>1, <1>2 DEF Of
  <2> QED BY <2>1 DEF Rank
<1> QED BY <1>3, <1>4, <1>6, <1>7, <1>8 DEF last, OneMore

\* What the steps that log nothing and post nothing leave to be shown.
LEMMA QuietStep ==
  ASSUME PreviewIInv, UNCHANGED <<messages, log, posts, found, doing>>,
         job' \in [Threads -> Nat],
         \A t \in Threads : job'[t] = job[t] \/ job'[t] = 0,
         thrown \subseteq thrown',
         \A t \in Threads :
           job[t] # 0 /\ job'[t] # job[t] =>
             job[t] \in thrown' \/ Logged(t) = Len(messages[job[t]])
  PROVE  PreviewIInv'
<1> USE DEF PreviewIInv
<1>1. PreviewTypeOK' /\ OfMessages'
  BY DEF PreviewTypeOK, OfMessages
<1>2. JobsOK'
  <2>1. /\ \A m : Of(log, m)' = Of(log, m)
        /\ \A t \in Threads : Logged(t)' = Logged(t)
    BY DEF Of, Logged
  <2> QED BY <2>1 DEF JobsOK
<1>3. LoggedInOrder' /\ ShownInOrder'
  BY DEF LoggedInOrder, ShownInOrder, Of
<1>4. AllLogged'
  <2> SUFFICES ASSUME NEW m \in DOMAIN messages, m \notin thrown',
                      \A t \in Threads : job'[t] # m
               PROVE  Cardinality(Of(log, m)) = Len(messages[m])
    BY DEF AllLogged, Of
  <2>1. CASE \A t \in Threads : job[t] # m
    BY <2>1 DEF AllLogged
  <2>2. ASSUME NEW t \in Threads, job[t] = m
        PROVE  Cardinality(Of(log, m)) = Len(messages[m])
    <3>1. m # 0
      BY DEF PreviewTypeOK
    <3> QED BY <2>2, <3>1 DEF JobsOK
  <2> QED BY <2>1, <2>2
<1> QED BY <1>1, <1>2, <1>3, <1>4

LEMMA ReceiveStep ==
  ASSUME PreviewIInv, NEW t \in Threads,
         NEW text \in SeqOf(Pages, MaxSites), Receive(t, text)
  PROVE  PreviewIInv'
<1> USE DEF PreviewIInv
<1> DEFINE list == FindURLs(text)
<1>1. text \in Seq(Pages)
  BY DEF SeqOf
<1>2. list \in Seq(Pages)
  BY <1>1, SelectedFacts DEF FindURLs
<1>3. /\ messages' = Append(messages, list) /\ job' = [job EXCEPT ![t] = Len(messages')]
      /\ found' = [found EXCEPT ![t] = 0] /\ doing' = [doing EXCEPT ![t] = "fetching"]
      /\ UNCHANGED <<log, posts, thrown>>
  BY DEF Receive
<1> HIDE DEF list
<1>4. PICK n \in Nat : n = Len(messages) + 1
  BY DEF PreviewTypeOK
<1>5. /\ messages' \in Seq(Seq(Pages)) /\ Len(messages') = n
      /\ DOMAIN messages' = DOMAIN messages \cup {n} /\ n \notin DOMAIN messages /\ n # 0
      /\ messages'[n] = list /\ \A m \in DOMAIN messages : messages'[m] = messages[m]
  <2>1. messages \in Seq(Seq(Pages))
    BY DEF PreviewTypeOK
  <2> QED BY <1>2, <1>3, <1>4, <2>1, AppendedTo
<1>6. /\ job' = [job EXCEPT ![t] = n]
      /\ job'[t] = n /\ found'[t] = 0 /\ doing'[t] = "fetching"
      /\ \A u \in Threads :
           u # t => job'[u] = job[u] /\ found'[u] = found[u] /\ doing'[u] = doing[u]
  BY <1>3, <1>5 DEF PreviewTypeOK
<1>7. PreviewTypeOK'
  BY <1>3, <1>5, <1>6 DEF PreviewTypeOK
<1>8. OfMessages'
  BY <1>3, <1>5 DEF OfMessages
<1>9. Of(log, n) = {} /\ Cardinality({}) = 0 /\ \A m : Of(log, m)' = Of(log, m)
  BY <1>3, <1>5, FS_EmptySet DEF Of, OfMessages
<1>10. \A i \in DOMAIN posts : posts[i].message # n
  BY <1>5 DEF OfMessages
<1>11. \A u \in Threads : job[u] # n
  BY <1>5 DEF JobsOK
<1>12. JobsOK'
  <2> SUFFICES ASSUME NEW u \in Threads, job'[u] # 0
               PROVE  /\ job'[u] \in DOMAIN messages'
                      /\ \A w \in Threads : job'[w] = job'[u] => w = u
                      /\ Logged(u)' <= Len(messages'[job'[u]])
                      /\ doing'[u] = "posting" => found'[u] < MaxURLsInMessage
                      /\ Cardinality(Of(log, job'[u])) = Logged(u)'
                      /\ \A i \in DOMAIN posts :
                           posts[i].message = job'[u] => posts[i].site <= found'[u]
    BY <1>3, <1>9 DEF JobsOK
  <2>1. CASE u = t
    <3>1. 0 <= Len(list)
      BY <1>2
    <3>2. Logged(u)' = 0
      BY <1>6, <2>1 DEF Logged
    <3> QED BY <1>5, <1>6, <1>9, <1>10, <1>11, <2>1, <3>1, <3>2
  <2>2. CASE u # t
    <3>1. Logged(u)' = Logged(u)
      BY <1>6, <2>2 DEF Logged
    <3> QED BY <1>5, <1>6, <1>11, <2>2, <3>1 DEF JobsOK
  <2> QED BY <2>1, <2>2
<1>13. LoggedInOrder'
  BY <1>3, <1>5, <1>9 DEF LoggedInOrder, OfMessages
<1>14. AllLogged'
  <2> SUFFICES ASSUME NEW m \in DOMAIN messages', m \notin thrown,
                      \A u \in Threads : job'[u] # m
               PROVE  Cardinality(Of(log, m)) = Len(messages'[m])
    BY <1>3, <1>9 DEF AllLogged
  <2>1. m \in DOMAIN messages /\ m # n
    BY <1>5, <1>6
  <2>2. \A u \in Threads : job[u] # m \/ u = t
    BY <1>6
  <2>3. job[t] # m
    <3>1. job[t] = 0
      BY DEF Receive
    <3> QED BY <2>1, <3>1 DEF PreviewTypeOK
  <2> QED BY <1>5, <2>1, <2>2, <2>3 DEF AllLogged
<1>15. ShownInOrder'
  BY <1>3 DEF ShownInOrder
<1> QED BY <1>7, <1>8, <1>12, <1>13, <1>14, <1>15

LEMMA FetchAndLogStep ==
  ASSUME PreviewIInv, NEW t \in Threads, FetchAndLog(t)
  PROVE  PreviewIInv'
<1> USE DEF PreviewIInv
<1>1. PICK m \in DOMAIN messages : m = job[t] /\ m # 0
  BY DEF FetchAndLog, At, JobsOK
<1>2. PICK k \in Nat : k = found[t]
  BY DEF PreviewTypeOK
<1>3. messages[m] \in Seq(Pages) /\ m \in Nat
  BY <1>1 DEF PreviewTypeOK
<1>4. PICK url : url = messages[m][k + 1]
  OBVIOUS
<1>5. PICK e : e = [message |-> m, url |-> url]
  OBVIOUS
<1>6. /\ doing[t] = "fetching" /\ k < Len(messages[m])
      /\ doing' = [doing EXCEPT ![t] = "checking"] /\ log' = Append(log, e)
      /\ UNCHANGED <<messages, posts, job, found, thrown>>
  BY <1>1, <1>2, <1>4, <1>5 DEF FetchAndLog, At, Site, Sites
<1>7. url \in Pages /\ k + 1 <= Len(messages[m])
  BY <1>3, <1>4, <1>6
<1>8. e \in LogRows /\ e.message = m /\ e.url = url
  BY <1>3, <1>5, <1>7 DEF LogRows
<1>9. PICK last : last = Len(log) + 1
  OBVIOUS
<1>10. /\ log' \in Seq(LogRows) /\ DOMAIN log' = DOMAIN log \cup {last} /\ log'[last] = e
       /\ last \notin DOMAIN log /\ \A i \in DOMAIN log : log'[i] = log[i]
  <2>1. log \in Seq(LogRows)
    BY DEF PreviewTypeOK
  <2> QED BY <1>6, <1>8, <1>9, <2>1, AppendedTo
<1>11. /\ \A o : o # m => Of(log', o) = Of(log, o)
       /\ Cardinality(Of(log, m)) = k
       /\ Cardinality(Of(log', m)) = k + 1 /\ Rank(Of(log', m), last) = k + 1
       /\ \A o : \A i \in DOMAIN log : Rank(Of(log', o), i) = Rank(Of(log, o), i)
  <2>1. log \in Seq(LogRows)
    BY DEF PreviewTypeOK
  <2>2. Cardinality(Of(log, m)) = k
    BY <1>1, <1>2, <1>6 DEF JobsOK, Logged
  <2>3. log' = Append(log, e) /\ e \in LogRows
    BY <1>6, <1>8
  <2>4. OneMore(log, e, log')
    BY <2>1, <2>3, OneMoreRow
  <2>5. e.message = m
    BY <1>8
  <2> QED BY <1>9, <2>2, <2>4, <2>5 DEF OneMore
<1>12. /\ doing'[t] = "checking" /\ doing' \in [Threads -> {"fetching", "checking", "posting"}]
       /\ Logged(t)' = k + 1
       /\ \A u \in Threads : u # t => doing'[u] = doing[u] /\ Logged(u)' = Logged(u)
  BY <1>2, <1>6 DEF PreviewTypeOK, Logged
<1>13. PreviewTypeOK'
  BY <1>6, <1>10, <1>12 DEF PreviewTypeOK
<1>14. OfMessages'
  BY <1>6, <1>8, <1>10 DEF OfMessages
<1>15. JobsOK'
  <2> SUFFICES ASSUME NEW u \in Threads, job[u] # 0
               PROVE  /\ job[u] \in DOMAIN messages
                      /\ \A w \in Threads : job[w] = job[u] => w = u
                      /\ Logged(u)' <= Len(messages[job[u]])
                      /\ doing'[u] = "posting" => found[u] < MaxURLsInMessage
                      /\ Cardinality(Of(log', job[u])) = Logged(u)'
                      /\ \A i \in DOMAIN posts :
                           posts[i].message = job[u] => posts[i].site <= found[u]
    BY <1>6 DEF JobsOK, Of
  <2>1. CASE u = t
    BY <1>1, <1>7, <1>11, <1>12, <2>1 DEF JobsOK
  <2>2. CASE u # t
    <3>1. job[u] # m
      BY <1>1, <2>2 DEF JobsOK
    <3> QED BY <1>11, <1>12, <2>2, <3>1 DEF JobsOK
  <2> QED BY <2>1, <2>2
<1>16. LoggedInOrder'
  <2> SUFFICES ASSUME NEW i \in DOMAIN log'
               PROVE  log'[i].url = messages[log'[i].message][Rank(Of(log', log'[i].message), i)]
    BY <1>6 DEF LoggedInOrder, Of
  <2>1. CASE i = last
    BY <1>4, <1>8, <1>10, <1>11, <2>1
  <2>2. CASE i \in DOMAIN log
    BY <1>10, <1>11, <2>2 DEF LoggedInOrder
  <2> QED BY <1>10, <2>1, <2>2
<1>17. AllLogged'
  <2> SUFFICES ASSUME NEW o \in DOMAIN messages, o \notin thrown,
                      \A u \in Threads : job[u] # o
               PROVE  Cardinality(Of(log', o)) = Len(messages[o])
    BY <1>6 DEF AllLogged, Of
  <2> QED BY <1>1, <1>11 DEF AllLogged
<1>18. ShownInOrder'
  BY <1>6 DEF ShownInOrder
<1> QED BY <1>13, <1>14, <1>15, <1>16, <1>17, <1>18

\* A title that is shown is one of the first: CheckRules looks at the count, which
\* is the thread's own, so that it is still true when the title is posted.
LEMMA CheckRulesStep ==
  ASSUME PreviewIInv, NEW t \in Threads, CheckRules(t)
  PROVE  PreviewIInv'
<1> USE DEF PreviewIInv
<1>1. PICK k \in Nat : k = found[t]
  BY DEF PreviewTypeOK
<1>2. /\ doing[t] = "checking" /\ job[t] # 0
      /\ found \in [Threads -> Nat] /\ doing \in [Threads -> {"fetching", "checking", "posting"}]
      /\ UNCHANGED <<messages, log, posts, job, thrown>>
  BY DEF CheckRules, At, PreviewTypeOK
<1>3. \/ k < MaxURLsInMessage /\ doing' = [doing EXCEPT ![t] = "posting"] /\ found' = found
      \/ doing' = [doing EXCEPT ![t] = "fetching"] /\ found' = [found EXCEPT ![t] = k + 1]
  BY <1>1 DEF CheckRules
<1>4. /\ found' \in [Threads -> Nat] /\ doing' \in [Threads -> {"fetching", "checking", "posting"}]
      /\ \A u \in Threads : u # t => found'[u] = found[u] /\ doing'[u] = doing[u]
      /\ \/ k < MaxURLsInMessage /\ doing'[t] = "posting" /\ found'[t] = k
         \/ doing'[t] = "fetching" /\ found'[t] = k + 1
  <2>1. k + 1 \in Nat
    BY <1>1
  <2> HIDE DEF PreviewIInv
  <2> QED BY <1>1, <1>2, <1>3, <2>1
<1>5. PreviewTypeOK' /\ OfMessages'
  BY <1>2, <1>4 DEF PreviewTypeOK, OfMessages
<1>6. /\ \A u \in Threads : Logged(u)' = Logged(u)
      /\ \A o : Of(log, o)' = Of(log, o)
  BY <1>1, <1>2, <1>4 DEF Logged, Of
<1>7. JobsOK'
  <2> SUFFICES ASSUME NEW u \in Threads, job[u] # 0
               PROVE  /\ doing'[u] = "posting" => found'[u] < MaxURLsInMessage
                      /\ \A i \in DOMAIN posts :
                           posts[i].message = job[u] => posts[i].site <= found'[u]
    BY <1>2, <1>6 DEF JobsOK
  <2>1. CASE u # t
    BY <1>4, <2>1 DEF JobsOK
  <2>2. CASE u = t
    <3>1. \A i \in DOMAIN posts : posts[i].site \in Nat
      <4>1. posts \in Seq(Posts)
        BY DEF PreviewTypeOK
      <4>2. \A i \in DOMAIN posts : posts[i] \in Posts
        BY <4>1
      <4> QED BY <4>2 DEF Posts
    <3>2. ASSUME NEW i \in DOMAIN posts, posts[i].message = job[t]
          PROVE  posts[i].site <= k /\ posts[i].site <= k + 1
      <4>1. posts[i].site <= k
        BY <1>1, <1>2, <3>2 DEF JobsOK
      <4> QED BY <1>1, <3>1, <4>1
    <3> QED BY <1>4, <2>2, <3>2
  <2> QED BY <2>1, <2>2
<1>8. LoggedInOrder' /\ AllLogged' /\ ShownInOrder'
  BY <1>2, <1>6 DEF LoggedInOrder, AllLogged, ShownInOrder
<1> QED BY <1>5, <1>7, <1>8

LEMMA PostTitleStep ==
  ASSUME UrlsAssumption, PreviewIInv, NEW t \in Threads, PostTitle(t)
  PROVE  PreviewIInv'
<1> USE DEF PreviewIInv
<1>1. PICK m \in DOMAIN messages : m = job[t] /\ m # 0
  BY DEF PostTitle, At, JobsOK
<1>2. PICK k \in Nat : k = found[t]
  BY DEF PreviewTypeOK
<1>3. m \in Nat /\ MaxURLsInMessage \in Nat /\ doing[t] = "posting" /\ k < MaxURLsInMessage
  <2>1. m \in Nat /\ doing[t] = "posting"
    BY <1>1 DEF PostTitle, At, PreviewTypeOK
  <2>2. k < MaxURLsInMessage
    BY <1>1, <1>2, <2>1 DEF JobsOK
  <2> QED BY <2>1, <2>2 DEF UrlsAssumption
<1>4. PICK e : e = [message |-> m, site |-> k + 1]
  OBVIOUS
<1>5. e \in Posts /\ e.message = m /\ e.site = k + 1
  BY <1>2, <1>3, <1>4 DEF Posts
<1>6. /\ found' = [found EXCEPT ![t] = @ + 1]
      /\ doing' = [doing EXCEPT ![t] = "fetching"]
      /\ UNCHANGED <<messages, log, job, thrown>> /\ posts' = Append(posts, e)
  BY <1>1, <1>2, <1>4 DEF PostTitle, Site
<1>7. /\ found'[t] = k + 1 /\ found' \in [Threads -> Nat]
      /\ doing'[t] = "fetching" /\ doing' \in [Threads -> {"fetching", "checking", "posting"}]
      /\ \A u \in Threads : u # t => found'[u] = found[u] /\ doing'[u] = doing[u]
  <2>1. /\ found \in [Threads -> Nat] /\ found' = [found EXCEPT ![t] = k + 1]
        /\ doing \in [Threads -> {"fetching", "checking", "posting"}]
        /\ doing' = [doing EXCEPT ![t] = "fetching"]
    BY <1>2, <1>6 DEF PreviewTypeOK
  <2>2. k + 1 \in Nat
    BY <1>2
  <2> HIDE DEF PreviewIInv
  <2> QED BY <2>1, <2>2
<1>8. PICK last : last = Len(posts) + 1
  OBVIOUS
<1>9. posts \in Seq(Posts) /\ \A i \in DOMAIN posts : posts[i].site \in Nat /\ i \in Nat /\ i < last
  <2>1. posts \in Seq(Posts)
    BY DEF PreviewTypeOK
  <2>2. Len(posts) \in Nat /\ DOMAIN posts = 1..Len(posts)
    BY <2>1
  <2>3. \A i \in DOMAIN posts : posts[i] \in Posts
    BY <2>1
  <2>4. \A i \in DOMAIN posts : posts[i].site \in Nat
    BY <2>3 DEF Posts
  <2>5. \A i \in DOMAIN posts : i \in Nat /\ i < last
    BY <1>8, <2>2
  <2> QED BY <2>1, <2>4, <2>5
<1>10. posts' \in Seq(Posts) /\ \A i \in DOMAIN posts : i \in DOMAIN posts' /\ posts'[i] = posts[i]
  BY <1>5, <1>6, <1>9, AppendedTo
<1>11. \A i \in DOMAIN posts' : i \in DOMAIN posts \/ (i = last /\ posts'[i] = e)
  BY <1>5, <1>6, <1>8, <1>9, AppendedTo
<1>12. PreviewTypeOK'
  BY <1>6, <1>7, <1>10 DEF PreviewTypeOK
<1>13. OfMessages'
  BY <1>5, <1>6, <1>10, <1>11 DEF OfMessages
<1>14. \A i \in DOMAIN posts : posts[i].message = m => posts[i].site <= k
  BY <1>1, <1>2 DEF JobsOK
<1>15. \A o : Of(log, o)' = Of(log, o)
  BY <1>6 DEF Of
<1>16. JobsOK'
  <2> SUFFICES ASSUME NEW u \in Threads, job[u] # 0
               PROVE  /\ job[u] \in DOMAIN messages
                      /\ \A w \in Threads : job[w] = job[u] => w = u
                      /\ Logged(u)' <= Len(messages[job[u]])
                      /\ doing'[u] = "posting" => found'[u] < MaxURLsInMessage
                      /\ Cardinality(Of(log, job[u])) = Logged(u)'
                      /\ \A i \in DOMAIN posts' :
                           posts'[i].message = job[u] => posts'[i].site <= found'[u]
    BY <1>6, <1>15 DEF JobsOK
  <2>1. CASE u = t
    <3>1. k + 1 <= k + 1
      BY <1>2
    <3>2. Logged(u)' = Logged(u)
      BY <1>2, <1>3, <1>7, <2>1 DEF Logged
    <3>3. ASSUME NEW i \in DOMAIN posts', posts'[i].message = m PROVE posts'[i].site <= k + 1
      <4>1. CASE i \in DOMAIN posts
        <5>1. posts[i].site <= k /\ posts[i].site \in Nat /\ posts'[i] = posts[i]
          BY <1>9, <1>10, <1>14, <3>3, <4>1
        <5> QED BY <1>2, <5>1
      <4>2. CASE posts'[i] = e
        BY <1>5, <3>1, <4>2
      <4> QED BY <1>11, <4>1, <4>2
    <3> QED BY <1>1, <1>7, <2>1, <3>2, <3>3 DEF JobsOK
  <2>2. CASE u # t
    <3>1. job[u] # m /\ Logged(u)' = Logged(u)
      BY <1>1, <1>7, <2>2 DEF JobsOK, Logged
    <3> QED BY <1>5, <1>7, <1>10, <1>11, <2>2, <3>1 DEF JobsOK
  <2> QED BY <2>1, <2>2
<1>17. LoggedInOrder' /\ AllLogged'
  BY <1>6, <1>15 DEF LoggedInOrder, AllLogged
<1>18. ASSUME NEW i \in DOMAIN posts' PROVE posts'[i].site <= MaxURLsInMessage
  <2>1. CASE i \in DOMAIN posts
    BY <1>10, <2>1 DEF ShownInOrder
  <2>2. CASE posts'[i] = e
    BY <1>2, <1>3, <1>5, <2>2
  <2> QED BY <1>11, <2>1, <2>2
<1>19. ASSUME NEW i \in DOMAIN posts', NEW j \in DOMAIN posts', i < j,
              posts'[i].message = posts'[j].message
       PROVE  posts'[i].site < posts'[j].site
  <2>1. CASE i \in DOMAIN posts /\ j \in DOMAIN posts
    BY <1>10, <1>19, <2>1 DEF ShownInOrder
  <2>2. CASE i \in DOMAIN posts /\ posts'[j] = e
    <3>1. posts[i].message = m /\ posts[i].site \in Nat
      BY <1>5, <1>9, <1>10, <1>19, <2>2
    <3>2. posts[i].site <= k
      BY <1>14, <2>2, <3>1
    <3>3. posts'[i].site = posts[i].site /\ posts'[j].site = k + 1
      BY <1>5, <1>10, <2>2
    <3> QED BY <1>2, <3>1, <3>2, <3>3
  <2>3. CASE i = last
    <3>1. last \in Nat
      BY <1>8, <1>9
    <3> QED BY <1>9, <1>11, <1>19, <2>3, <3>1
  <2> QED BY <1>11, <2>1, <2>2, <2>3
<1>20. ShownInOrder'
  BY <1>18, <1>19 DEF ShownInOrder
<1> QED BY <1>12, <1>13, <1>16, <1>17, <1>20

LEMMA PreviewStep ==
  ASSUME UrlsAssumption, PreviewIInv, [PreviewNext]_previewVars
  PROVE  PreviewIInv'
<1>0. job \in [Threads -> Nat]
  BY DEF PreviewIInv, PreviewTypeOK
<1>1. ASSUME UNCHANGED <<messages, log, posts, job, found, doing, thrown>> PROVE PreviewIInv'
  BY <1>0, <1>1, QuietStep
<1>2. ASSUME NEW t \in Threads, PreviewThrows(t) PROVE PreviewIInv'
  <2>1. /\ UNCHANGED <<messages, log, posts, found, doing>> /\ thrown \subseteq thrown'
        /\ job[t] # 0
    BY <1>2 DEF PreviewThrows, At
  <2>2. CASE t = "stream"
    <3>1. /\ job' = [u \in Threads |-> 0]
          /\ thrown' = thrown \cup ({job[u] : u \in Threads} \ {0})
      BY <1>2, <2>2 DEF PreviewThrows
    <3>2. job' \in [Threads -> Nat] /\ \A u \in Threads : job'[u] = 0
      BY <3>1
    <3>3. \A u \in Threads : job[u] # 0 => job[u] \in thrown'
      BY <3>1
    <3> QED BY <2>1, <3>2, <3>3, QuietStep
  <2>3. CASE t # "stream"
    <3>1. job' = [job EXCEPT ![t] = 0] /\ thrown' = thrown \cup {job[t]}
      BY <1>2, <2>3 DEF PreviewThrows
    <3>2. /\ job' \in [Threads -> Nat] /\ job'[t] = 0
          /\ \A u \in Threads : u # t => job'[u] = job[u]
      BY <1>0, <3>1
    <3>3. \A u \in Threads : job'[u] # job[u] => job[u] \in thrown'
      BY <3>1, <3>2
    <3> QED BY <2>1, <3>2, <3>3, QuietStep
  <2> QED BY <2>2, <2>3
<1>3. ASSUME NEW t \in Threads, Done(t) PROVE PreviewIInv'
  <2>1. /\ UNCHANGED <<messages, log, posts, found, doing, thrown>>
        /\ job' = [job EXCEPT ![t] = 0] /\ job[t] # 0 /\ found[t] = Len(messages[job[t]])
    BY <1>3 DEF Done, Sites
  <2>2. /\ job' \in [Threads -> Nat] /\ job'[t] = 0
        /\ \A u \in Threads : u # t => job'[u] = job[u]
    BY <1>0, <2>1
  <2>3. Logged(t) = Len(messages[job[t]])
    <3>1. Logged(t) <= Len(messages[job[t]])
      BY <2>1 DEF PreviewIInv, JobsOK
    <3>2. found[t] \in Nat
      BY DEF PreviewIInv, PreviewTypeOK
    <3> QED BY <2>1, <3>1, <3>2 DEF Logged
  <2>4. \A u \in Threads : job'[u] # job[u] => Logged(u) = Len(messages[job[u]])
    BY <2>2, <2>3
  <2> QED BY <2>1, <2>2, <2>4, QuietStep
<1>4. CASE RestartProcess
  BY <1>1, <1>4 DEF RestartProcess
<1>5. ASSUME NEW t, NEW pattern, NEW blacklist,
             AddRuleToRuleset(t, pattern, blacklist)
      PROVE  PreviewIInv'
  BY <1>1, <1>5 DEF AddRuleToRuleset
<1>6. ASSUME NEW t, NEW id, DelRuleFromRuleset(t, id) PROVE PreviewIInv'
  BY <1>1, <1>6 DEF DelRuleFromRuleset
<1>7. CASE UNCHANGED previewVars
  BY <1>1, <1>7 DEF previewVars
<1> QED
  BY <1>2, <1>3, <1>4, <1>5, <1>6, <1>7, ReceiveStep, FetchAndLogStep,
     CheckRulesStep, PostTitleStep
     DEF PreviewNext

\* The invariant behind LoggedAndShown holds always.
THEOREM PreviewInvariance == PreviewSpec => []PreviewIInv
<1> USE UrlsAssumption
<1>1. PreviewInit => PreviewIInv
  <2> SUFFICES ASSUME PreviewInit PROVE PreviewIInv
    OBVIOUS
  <2>1. /\ messages = <<>> /\ log = <<>> /\ posts = <<>>
        /\ \A t \in Threads : job[t] = 0
        /\ job \in [Threads -> Nat] /\ found \in [Threads -> Nat]
        /\ doing \in [Threads -> {"fetching", "checking", "posting"}]
    BY DEF PreviewInit
  <2>2. PreviewTypeOK
    BY <2>1, ListsEmptied DEF PreviewTypeOK
  <2>3. DOMAIN messages = {} /\ DOMAIN log = {} /\ DOMAIN posts = {}
    BY <2>1, ListsEmptied
  <2> QED
    BY <2>1, <2>2, <2>3
       DEF PreviewIInv, OfMessages, JobsOK, LoggedInOrder, AllLogged, ShownInOrder
<1>2. PreviewIInv /\ [PreviewNext]_previewVars => PreviewIInv'
  BY PreviewStep
<1> QED BY <1>1, <1>2, PTL DEF PreviewSpec

\* Urls.LoggedAndShown, for any rules, any number of messages and any limit: the
\* loop of urlpreview.cpp's HandleMessage logs every URL of a message, and counts
\* the titles it must not show as if it had shown them.
THEOREM LoggedAndShownCorrect == PreviewSpec => []LoggedAndShown
BY PreviewInvariance, PreviewInvImplies, PTL
=============================================================================
