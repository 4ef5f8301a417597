---------------------------- MODULE CommandProofs ----------------------------
(***************************************************************************)
(* Proofs that TLAPS checks about two commands of the chat: Voting, for    *)
(* any people, themes, options and numbers of polls; and ShuntingYard, for *)
(* any tokens.                                                             *)
(*                                                                         *)
(* Voting.  InvitedOnce knows an invitation by the number of its poll, so   *)
(* it rests on NumbersOK: no two polls that run have one number, and no    *)
(* invitation is to one yet to come; and on HeldOK: what a thread is about *)
(* to erase, and what another has not erased meanwhile, it has told.       *)
(*                                                                         *)
(* The calculator.  What a yard holds is a line of tokens, the finished    *)
(* ones and then the stack: taking operators off the stack moves the       *)
(* border between the two and leaves the line as it is, and a new token is *)
(* put in at the border.                                                   *)
(***************************************************************************)
EXTENDS Voting, ShuntingYard, TLAPS, FiniteSetTheorems, SequenceTheorems

NumbersOK ==
  /\ \A id \in Active : polls[id].number <= added
  /\ \A i, j \in Active : polls[i].number = polls[j].number => i = j
  /\ \A i \in invited \cup spent : i[1] <= added

\* What the threads have in hand is there, or known to be gone, and what they are
\* about to erase has been told.
HeldOK ==
  /\ \A t \in Threads : pc[t] # "idle" => visitor[t] \in People
  /\ \A t \in Threads : pc[t] # "closing" => at[t] \in Active \cup {None, Gone}
  /\ \A t \in Threads : pc[t] = "erasing" => at[t] # None /\ found[t] # None
  /\ \A t \in Threads : todo[t] \subseteq Active
  /\ \A t \in Threads : pc[t] = "erasing" /\ at[t] # Gone /\ found[t] # Gone =>
       /\ <<polls[at[t]].number, found[t]>> \in spent
       /\ found[t] \in polls[at[t]].invitations

IInv ==
  /\ TypeOK
  /\ SingleChoice
  /\ NumbersOK
  /\ HeldOK
  /\ InvitedOnce

-----------------------------------------------------------------------------
\* No key and no address is taken for the absence of one.
LEMMA Keys ==
  /\ None \notin PollIds /\ Gone \notin PollIds
  /\ None \notin Invitees /\ Gone \notin Invitees
  /\ None # Gone
BY VotingAssumption DEF None, Gone

LEMMA InitIInv == Init => IInv
<1> SUFFICES ASSUME Init PROVE IInv OBVIOUS
<1>1. Active = {}
  BY DEF Init, Active
<1>2. TypeOK
  <2>1. /\ polls \in [PollIds -> Poll \cup {NoPoll}]
        /\ added \in 0..MaxPolls /\ closed \subseteq 1..MaxPolls
    BY VotingAssumption DEF Init
  <2>2. /\ pc \in [Threads -> {"idle", "walking", "erasing", "closing"}]
        /\ visitor \in [Threads -> People \cup {Nobody}]
        /\ todo \in [Threads -> SUBSET PollIds]
    BY DEF Init
  <2>3. /\ at \in [Threads -> PollIds \cup {None, Gone}]
        /\ found \in [Threads -> Invitees \cup {None, Gone}]
        /\ invited \subseteq Invitations /\ spent \subseteq Invitations /\ wild \in BOOLEAN
    BY DEF Init
  <2> QED BY <2>1, <2>2, <2>3 DEF TypeOK
<1> QED BY <1>1, <1>2, Keys DEF Init, IInv, SingleChoice, NumbersOK, HeldOK, InvitedOnce

\* What a poll is made of.
LEMMA PollType ==
  ASSUME TypeOK, NEW id \in Active
  PROVE  /\ id \in PollIds /\ polls[id] \in Poll
         /\ polls[id].number \in 1..MaxPolls /\ polls[id].multi \in BOOLEAN /\ polls[id].owner \in Jids
         /\ polls[id].votes \in [Options -> SUBSET Jids] /\ polls[id].invitations \subseteq Invitees
<1>1. id \in PollIds /\ polls[id] \in Poll
  BY DEF TypeOK, Active
<1> QED BY <1>1 DEF Poll

\* One poll changes, and neither its number nor whether it takes several votes.
LEMMA PollChanges ==
  ASSUME IInv, NEW id \in Active, NEW poll \in Poll, polls' = [polls EXCEPT ![id] = poll],
         poll.number = polls[id].number, poll.multi = polls[id].multi,
         ~poll.multi => \A o, p \in Options : o # p => poll.votes[o] \cap poll.votes[p] = {},
         added' = added, \A i \in invited' \cup spent' : i[1] <= added
  PROVE  /\ polls' \in [PollIds -> Poll \cup {NoPoll}]
         /\ Active' = Active /\ polls'[id] = poll /\ \A i \in Active \ {id} : polls'[i] = polls[i]
         /\ \A i \in Active : polls'[i].number = polls[i].number
         /\ SingleChoice' /\ NumbersOK'
<1>1. id \in PollIds /\ polls \in [PollIds -> Poll \cup {NoPoll}] /\ poll # NoPoll
  BY PollType, VotingAssumption DEF IInv, TypeOK
<1>2. /\ polls' \in [PollIds -> Poll \cup {NoPoll}]
      /\ polls'[id] = poll /\ \A i \in PollIds \ {id} : polls'[i] = polls[i]
  BY <1>1
<1>3. Active' = Active
  BY <1>1, <1>2 DEF Active
<1>4. \A i \in Active : i \in PollIds /\ polls'[i].number = polls[i].number
  BY <1>2 DEF Active
<1>5. SingleChoice'
  BY <1>2, <1>3, <1>4 DEF IInv, SingleChoice
<1>6. NumbersOK'
  BY <1>3, <1>4 DEF IInv, NumbersOK
<1> QED BY <1>2, <1>3, <1>4, <1>5, <1>6

\* A vote, or the withdrawal of votes: one poll has other votes.
LEMMA VotesChange ==
  ASSUME IInv, NEW id \in Active, NEW votes \in [Options -> SUBSET Jids],
         polls' = [polls EXCEPT ![id].votes = votes],
         UNCHANGED <<added, closed, walks, ghosts, wild>>,
         ~polls[id].multi => \A o, p \in Options : o # p => votes[o] \cap votes[p] = {}
  PROVE  IInv'
<1> DEFINE poll == [polls[id] EXCEPT !.votes = votes]
<1>1. /\ poll \in Poll /\ poll.number = polls[id].number /\ poll.multi = polls[id].multi
      /\ poll.votes = votes /\ poll.invitations = polls[id].invitations
      /\ polls' = [polls EXCEPT ![id] = poll]
  BY PollType DEF IInv, Poll
<1> HIDE DEF poll
<1>2. UNCHANGED <<added, closed, pc, visitor, at, found, todo, invited, spent, wild>>
  BY DEF walks, ghosts
<1>3. /\ polls' \in [PollIds -> Poll \cup {NoPoll}]
      /\ Active' = Active /\ polls'[id] = poll /\ \A i \in Active \ {id} : polls'[i] = polls[i]
      /\ \A i \in Active : polls'[i].number = polls[i].number
      /\ SingleChoice' /\ NumbersOK'
  BY <1>1, <1>2, PollChanges DEF IInv, NumbersOK
<1>4. TypeOK'
  BY <1>2, <1>3 DEF IInv, TypeOK
<1>6. \A i \in Active : polls'[i].invitations = polls[i].invitations
  BY <1>1, <1>3
<1>5. HeldOK'
  <2>1. \A t \in Threads : pc[t] = "erasing" /\ at[t] # Gone => at[t] \in Active
    BY DEF IInv, HeldOK
  <2> QED BY <1>2, <1>3, <1>6, <2>1 DEF IInv, HeldOK
<1>7. InvitedOnce'
  BY <1>2, <1>3, <1>6 DEF IInv, InvitedOnce
<1> QED BY <1>3, <1>4, <1>5, <1>7 DEF IInv

LEMMA VoteStep ==
  ASSUME IInv, NEW t \in Threads, NEW id \in PollIds, NEW option \in Options, NEW person \in People,
         Vote(t, id, option, person)
  PROVE  IInv'
<1> DEFINE votes == [polls[id].votes EXCEPT ![option] = polls[id].votes[option] \cup {person.jid}]
<1>1. /\ id \in Active /\ person.jid \in Jids
      /\ polls' = [polls EXCEPT ![id].votes = votes]
      /\ polls[id].multi \/ \A o \in Options : person.jid \notin polls[id].votes[o]
      /\ UNCHANGED <<added, closed, walks, ghosts, wild>>
  BY DEF Vote, Jids
<1>2. polls[id].votes \in [Options -> SUBSET Jids]
  BY <1>1, PollType DEF IInv
<1>3. votes \in [Options -> SUBSET Jids]
  BY <1>1, <1>2
<1>4. ~polls[id].multi => \A o, p \in Options : o # p => votes[o] \cap votes[p] = {}
  BY <1>1, <1>2 DEF IInv, SingleChoice
<1> HIDE DEF votes
<1> QED BY <1>1, <1>3, <1>4, VotesChange

LEMMA UnvoteStep ==
  ASSUME IInv, NEW t \in Threads, NEW id \in PollIds, NEW person \in People, Unvote(t, id, person)
  PROVE  IInv'
<1> DEFINE votes == [o \in Options |-> polls[id].votes[o] \ {person.jid}]
<1>1. /\ id \in Active
      /\ polls' = [polls EXCEPT ![id].votes = votes]
      /\ UNCHANGED <<added, closed, walks, ghosts, wild>>
  BY DEF Unvote
<1>2. polls[id].votes \in [Options -> SUBSET Jids]
  BY <1>1, PollType DEF IInv
<1>3. votes \in [Options -> SUBSET Jids]
  BY <1>2
<1>4. ~polls[id].multi => \A o, p \in Options : o # p => votes[o] \cap votes[p] = {}
  BY <1>1, <1>2 DEF IInv, SingleChoice
<1> HIDE DEF votes
<1> QED BY <1>1, <1>3, <1>4, VotesChange

\* A new poll has a number of its own, and what was in hand of the one it replaces
\* is gone.
LEMMA AddPollStep ==
  ASSUME IInv, NEW t \in Threads, NEW theme \in Themes, NEW person \in People,
         AddPoll(t, theme, person)
  PROVE  IInv'
<1> DEFINE poll == [number |-> added + 1, multi |-> theme \in MultiThemes, owner |-> person.jid,
                    votes |-> [o \in Options |-> {}], invitations |-> {}]
<1>0. PICK id \in PollIds : id = IdOf[theme]
  BY VotingAssumption
<1>1. added + 1 \in 1..MaxPolls /\ added \in Nat
  BY VotingAssumption DEF AddPoll, IInv, TypeOK
<1>2. /\ poll \in Poll /\ poll.number = added + 1 /\ poll.invitations = {}
      /\ \A o \in Options : poll.votes[o] = {}
  <2>1. person.jid \in Jids /\ [o \in Options |-> {}] \in [Options -> SUBSET Jids]
    BY DEF Jids
  <2>2. (theme \in MultiThemes) \in BOOLEAN
    OBVIOUS
  <2> QED BY <1>1, <2>1, <2>2 DEF Poll
<1>3. /\ polls' = [polls EXCEPT ![id] = poll] /\ added' = added + 1
      /\ UNCHANGED <<closed, pc, visitor, at, invited, spent, wild>>
      /\ found' = [u \in Threads |-> IF pc[u] = "erasing" /\ at[u] = id THEN Gone ELSE found[u]]
      /\ \E ahead \in SUBSET {u \in Threads : pc[u] \in {"walking", "erasing"}} :
           todo' = [u \in Threads |-> IF u \in ahead /\ id \notin Active
                                        THEN todo[u] \cup {id} ELSE todo[u]]
  BY <1>0 DEF AddPoll, ghosts
<1> HIDE DEF poll
<1>4. /\ polls' \in [PollIds -> Poll \cup {NoPoll}]
      /\ polls'[id] = poll /\ \A i \in PollIds \ {id} : polls'[i] = polls[i]
  BY <1>2, <1>3 DEF IInv, TypeOK
<1>5. Active' = Active \cup {id}
  BY <1>2, <1>4, VotingAssumption DEF Active
<1>6. \A u \in Threads : todo'[u] \subseteq todo[u] \cup {id} /\ todo' \in [Threads -> SUBSET PollIds]
  BY <1>3 DEF IInv, TypeOK
<1>7. TypeOK'
  <2>1. found' \in [Threads -> Invitees \cup {None, Gone}]
    BY <1>3 DEF IInv, TypeOK
  <2>2. todo' \in [Threads -> SUBSET PollIds]
    BY <1>3 DEF IInv, TypeOK
  <2> QED BY <1>1, <1>3, <1>4, <2>1, <2>2 DEF IInv, TypeOK
<1>8. SingleChoice'
  BY <1>2, <1>4, <1>5 DEF IInv, SingleChoice, Active
<1>9. /\ \A i \in Active : polls[i].number <= added /\ polls[i].number \in Nat
      /\ \A i \in invited \cup spent : i[1] <= added /\ i[1] \in Nat
  <2>1. \A i \in invited \cup spent : i[1] \in Nat
    BY DEF IInv, TypeOK, Invitations
  <2> QED BY <2>1, PollType DEF IInv, NumbersOK
<1>10. NumbersOK'
  <2>1. \A i \in Active' : polls'[i].number <= added'
    BY <1>1, <1>2, <1>3, <1>4, <1>5, <1>9 DEF Active
  <2>2. \A i, j \in Active' : polls'[i].number = polls'[j].number => i = j
    BY <1>1, <1>2, <1>4, <1>5, <1>9 DEF IInv, NumbersOK, Active
  <2>3. \A i \in invited' \cup spent' : i[1] <= added'
    BY <1>1, <1>3, <1>9
  <2> QED BY <2>1, <2>2, <2>3 DEF NumbersOK
<1>11. HeldOK'
  <2>1. \A u \in Threads : pc[u] = "erasing" => found'[u] # None
    BY <1>3, Keys DEF IInv, HeldOK
  <2>2. ASSUME NEW u \in Threads, pc[u] = "erasing", at[u] # Gone, found'[u] # Gone
        PROVE  <<polls'[at[u]].number, found'[u]>> \in spent /\ found'[u] \in polls'[at[u]].invitations
    <3>1. at[u] # id /\ found'[u] = found[u]
      BY <1>3, <2>2
    <3>2. at[u] \in PollIds
      BY <2>2 DEF IInv, HeldOK, Active
    <3> QED BY <1>4, <2>2, <3>1, <3>2 DEF IInv, HeldOK
  <2> QED BY <1>3, <1>5, <1>6, <2>1, <2>2 DEF IInv, HeldOK
<1>12. InvitedOnce'
  <2> SUFFICES ASSUME NEW i \in Active', NEW a \in Invitees
               PROVE  /\ <<polls'[i].number, a>> \in invited =>
                           a \in polls'[i].invitations \/ <<polls'[i].number, a>> \in spent
                      /\ a \in polls'[i].invitations /\ <<polls'[i].number, a>> \in spent =>
                           \E u \in Threads : pc[u] = "erasing" /\ at[u] = i /\ found'[u] = a
    BY <1>3 DEF InvitedOnce
  <2>1. CASE i = id
    <3>1. polls'[i].number = added + 1 /\ polls'[i].invitations = {}
      BY <1>2, <1>4, <2>1
    <3>2. <<added + 1, a>> \notin invited
      <4>1. <<added + 1, a>>[1] = added + 1
        OBVIOUS
      <4> QED BY <1>1, <1>9, <4>1
    <3> QED BY <3>1, <3>2
  <2>2. CASE i # id
    <3>1. i \in Active /\ polls'[i] = polls[i]
      BY <1>4, <1>5, <2>2 DEF Active
    <3>2. \A u \in Threads : pc[u] = "erasing" /\ at[u] = i => found'[u] = found[u]
      BY <1>3, <2>2
    <3> QED BY <3>1, <3>2 DEF IInv, InvitedOnce
  <2> QED BY <2>1, <2>2
<1> QED BY <1>7, <1>8, <1>10, <1>11, <1>12 DEF IInv

\* What is given anew has not been told.
LEMMA InviteStep ==
  ASSUME IInv, NEW t \in Threads, NEW id \in PollIds, NEW addresses \in SUBSET Invitees,
         Invite(t, id, addresses)
  PROVE  IInv'
<1> DEFINE poll == [polls[id] EXCEPT !.invitations = polls[id].invitations \cup addresses]
           new == {polls[id].number} \X (addresses \ polls[id].invitations)
<1>1. /\ id \in Active
      /\ polls' = [polls EXCEPT ![id] = poll]
      /\ invited' = invited \cup new /\ spent' = spent \ new
      /\ UNCHANGED <<added, closed, pc, visitor, at, found, todo, wild>>
  BY DEF Invite, walks
<1>2. /\ poll \in Poll /\ poll.number = polls[id].number /\ poll.multi = polls[id].multi
      /\ poll.votes = polls[id].votes
      /\ poll.invitations = polls[id].invitations \cup addresses
  BY <1>1, PollType DEF IInv, Poll
<1>3. PICK n \in 1..MaxPolls : n = polls[id].number
  BY <1>1, PollType DEF IInv
<1>4. \A i : i \in new <=> \E a \in addresses \ polls[id].invitations : i = <<n, a>>
  BY <1>3
<1> HIDE DEF poll, new
<1>5. \A m, a : <<m, a>> \in new <=> m = n /\ a \in addresses \ polls[id].invitations
  BY <1>4
<1>6. invited' \subseteq Invitations /\ spent' \subseteq Invitations
  BY <1>1, <1>4 DEF IInv, TypeOK, Invitations
<1>7. \A i \in invited' \cup spent' : i[1] <= added
  <2>1. \A i \in new : i[1] = n
    BY <1>4
  <2> QED BY <1>1, <1>3, <2>1 DEF IInv, NumbersOK
<1>8. /\ polls' \in [PollIds -> Poll \cup {NoPoll}]
      /\ Active' = Active /\ polls'[id] = poll /\ \A i \in Active \ {id} : polls'[i] = polls[i]
      /\ \A i \in Active : polls'[i].number = polls[i].number
      /\ SingleChoice' /\ NumbersOK'
  BY <1>1, <1>2, <1>7, PollChanges DEF IInv, SingleChoice
<1>9. TypeOK'
  BY <1>1, <1>6, <1>8 DEF IInv, TypeOK
<1>10. HeldOK'
  <2>1. ASSUME NEW u \in Threads, pc[u] = "erasing", at[u] # Gone, found[u] # Gone
        PROVE  /\ <<polls'[at[u]].number, found[u]>> \in spent'
               /\ found[u] \in polls'[at[u]].invitations
    <3>1. /\ at[u] \in Active /\ <<polls[at[u]].number, found[u]>> \in spent
          /\ found[u] \in polls[at[u]].invitations
      BY <2>1 DEF IInv, HeldOK
    <3>2. CASE at[u] = id
      BY <1>1, <1>2, <1>3, <1>5, <1>8, <3>1, <3>2
    <3>3. CASE at[u] # id
      <4>1. polls[at[u]].number # n
        BY <1>1, <1>3, <3>1, <3>3 DEF IInv, NumbersOK
      <4> QED BY <1>1, <1>5, <1>8, <3>1, <3>3, <4>1
    <3> QED BY <3>2, <3>3
  <2> QED BY <1>1, <1>8, <2>1 DEF IInv, HeldOK
<1>11. InvitedOnce'
  <2> SUFFICES ASSUME NEW i \in Active, NEW a \in Invitees
               PROVE  /\ <<polls[i].number, a>> \in invited' =>
                           a \in polls'[i].invitations \/ <<polls[i].number, a>> \in spent'
                      /\ a \in polls'[i].invitations /\ <<polls[i].number, a>> \in spent' =>
                           \E u \in Threads : pc[u] = "erasing" /\ at[u] = i /\ found[u] = a
    BY <1>1, <1>8 DEF InvitedOnce
  <2>1. CASE i = id
    <3>1. polls'[i].invitations = polls[i].invitations \cup addresses /\ polls[i].number = n
      BY <1>2, <1>3, <1>8, <2>1
    <3>2. CASE a \in addresses \ polls[id].invitations
      BY <1>1, <1>5, <2>1, <3>1, <3>2
    <3>3. CASE a \notin addresses \ polls[id].invitations
      BY <1>1, <1>5, <2>1, <3>1, <3>3 DEF IInv, InvitedOnce
    <3> QED BY <3>2, <3>3
  <2>2. CASE i # id
    <3>1. polls[i].number # n /\ polls'[i] = polls[i]
      BY <1>1, <1>3, <1>8, <2>2 DEF IInv, NumbersOK
    <3> QED BY <1>1, <1>5, <3>1 DEF IInv, InvitedOnce
  <2> QED BY <2>1, <2>2
<1> QED BY <1>8, <1>9, <1>10, <1>11 DEF IInv

\* The poll that is erased is gone for those who are at it.
LEMMA ClosePollStep ==
  ASSUME IInv, NEW t \in Threads, NEW id \in PollIds, ClosePoll(t, id)
  PROVE  IInv'
<1>1. /\ pc[t] = "closing" /\ at[t] = id
      /\ polls' = [polls EXCEPT ![id] = NoPoll]
      /\ pc' = [pc EXCEPT ![t] = "idle"] /\ visitor' = [visitor EXCEPT ![t] = Nobody]
      /\ at' = [u \in Threads |-> IF u = t THEN None
                                  ELSE IF at[u] = id /\ pc[u] # "closing" THEN Gone ELSE at[u]]
      /\ todo' = [u \in Threads |-> todo[u] \ {id}]
      /\ UNCHANGED <<added, closed, found, invited, spent, wild>>
  BY DEF ClosePoll, IsAt, Does, ghosts
<1>2. /\ Active' = Active \ {id}
      /\ \A i \in Active' : polls'[i] = polls[i]
  BY <1>1 DEF IInv, TypeOK, Active
<1>3. /\ pc'[t] = "idle"
      /\ \A u \in Threads \ {t} : pc'[u] = pc[u] /\ visitor'[u] = visitor[u]
  BY <1>1 DEF IInv, TypeOK
<1>4. TypeOK'
  <2>1. polls' \in [PollIds -> Poll \cup {NoPoll}]
    BY <1>1 DEF IInv, TypeOK
  <2>2. /\ pc' \in [Threads -> {"idle", "walking", "erasing", "closing"}]
        /\ visitor' \in [Threads -> People \cup {Nobody}]
    BY <1>1 DEF IInv, TypeOK
  <2>3. /\ at' \in [Threads -> PollIds \cup {None, Gone}]
        /\ todo' \in [Threads -> SUBSET PollIds]
    BY <1>1 DEF IInv, TypeOK
  <2> QED BY <1>1, <2>1, <2>2, <2>3 DEF IInv, TypeOK
<1>5. SingleChoice' /\ NumbersOK'
  <2>1. SingleChoice'
    BY <1>2 DEF IInv, SingleChoice
  <2>2. NumbersOK'
    BY <1>1, <1>2 DEF IInv, NumbersOK
  <2> QED BY <2>1, <2>2
<1>6. \A u \in Threads \ {t} : pc[u] # "closing" => at'[u] = IF at[u] = id THEN Gone ELSE at[u]
  BY <1>1
<1>7. HeldOK'
  <2>1. \A u \in Threads : pc'[u] # "closing" => at'[u] \in Active' \cup {None, Gone}
    <3> TAKE u \in Threads
    <3> HAVE pc'[u] # "closing"
    <3>1. CASE u = t
      BY <1>1, <3>1
    <3>2. CASE u # t
      <4>1. pc[u] # "closing" /\ at[u] \in Active \cup {None, Gone}
        BY <1>3, <3>2 DEF IInv, HeldOK
      <4> QED BY <1>2, <1>6, <3>2, <4>1
    <3> QED BY <3>1, <3>2
  <2>2. \A u \in Threads : pc'[u] = "erasing" =>
          /\ u # t /\ pc[u] = "erasing"
          /\ at'[u] # Gone => at'[u] = at[u] /\ at[u] \in Active'
    BY <1>2, <1>3, <1>6, Keys DEF IInv, HeldOK
  <2>3. \A u \in Threads : todo'[u] \subseteq Active'
    BY <1>1, <1>2 DEF IInv, HeldOK
  <2>4. \A u \in Threads : pc'[u] # "idle" => visitor'[u] \in People
    BY <1>3 DEF IInv, HeldOK
  <2>5. \A u \in Threads : pc'[u] = "erasing" => at'[u] # None /\ found[u] # None
    BY <1>6, <2>2, Keys DEF IInv, HeldOK
  <2>6. \A u \in Threads : pc'[u] = "erasing" /\ at'[u] # Gone /\ found[u] # Gone =>
          /\ <<polls'[at'[u]].number, found[u]>> \in spent
          /\ found[u] \in polls'[at'[u]].invitations
    BY <1>2, <2>2 DEF IInv, HeldOK
  <2> QED BY <1>1, <2>1, <2>3, <2>4, <2>5, <2>6 DEF HeldOK
<1>8. InvitedOnce'
  <2>1. ASSUME NEW i \in Active', NEW a,
               \E u \in Threads : pc[u] = "erasing" /\ at[u] = i /\ found[u] = a
        PROVE  \E u \in Threads : pc'[u] = "erasing" /\ at'[u] = i /\ found[u] = a
    <3>1. PICK u \in Threads : pc[u] = "erasing" /\ at[u] = i /\ found[u] = a
      BY <2>1
    <3>2. u # t /\ i # id
      BY <1>1, <1>2, <3>1
    <3> QED BY <1>3, <1>6, <3>1, <3>2
  <2> QED BY <1>1, <1>2, <2>1 DEF IInv, InvitedOnce
<1> QED BY <1>4, <1>5, <1>7, <1>8 DEF IInv

\* Steps that change no poll: a walk goes on, begins or ends, or results are shown.
LEMMA MoveStep ==
  ASSUME IInv, TypeOK', NEW t \in Threads, pc[t] # "erasing", pc'[t] # "erasing",
         UNCHANGED <<polls, added, found, ghosts>>,
         \A u \in Threads \ {t} :
           pc'[u] = pc[u] /\ visitor'[u] = visitor[u] /\ at'[u] = at[u] /\ todo'[u] = todo[u],
         pc'[t] # "idle" => visitor'[t] \in People,
         pc'[t] # "closing" => at'[t] \in Active \cup {None, Gone},
         todo'[t] \subseteq Active
  PROVE  IInv'
<1>1. Active' = Active /\ UNCHANGED <<polls, added, found, invited, spent>>
  BY DEF Active, ghosts
<1>2. SingleChoice' /\ NumbersOK'
  <2>1. SingleChoice'
    BY <1>1 DEF IInv, SingleChoice
  <2>2. NumbersOK'
    BY <1>1 DEF IInv, NumbersOK
  <2> QED BY <2>1, <2>2
<1>3. \A u \in Threads : pc'[u] = "erasing" <=> pc[u] = "erasing" /\ u # t
  OBVIOUS
<1>4. HeldOK'
  <2>1. \A u \in Threads : pc'[u] # "idle" => visitor'[u] \in People
    BY DEF IInv, HeldOK
  <2>2. \A u \in Threads : pc'[u] # "closing" => at'[u] \in Active \cup {None, Gone}
    BY DEF IInv, HeldOK
  <2>3. \A u \in Threads : todo'[u] \subseteq Active
    BY DEF IInv, HeldOK
  <2> QED BY <1>1, <1>3, <2>1, <2>2, <2>3 DEF IInv, HeldOK
<1>5. InvitedOnce'
  BY <1>1, <1>3 DEF IInv, InvitedOnce
<1> QED BY <1>2, <1>4, <1>5 DEF IInv

\* The invitation that is told is in hand.
LEMMA TellStep ==
  ASSUME IInv, NEW t \in Threads, NEW id \in PollIds, Tell(t, id)
  PROVE  IInv'
<1>1. PICK a \in Invitation(polls[id], visitor[t]) :
        /\ found' = [found EXCEPT ![t] = a]
        /\ spent' = spent \cup {<<polls[id].number, a>>}
  BY DEF Tell
<1>2. /\ pc[t] = "walking" /\ id \in todo[t]
      /\ at' = [at EXCEPT ![t] = id] /\ todo' = [todo EXCEPT ![t] = @ \ {id}]
      /\ pc' = [pc EXCEPT ![t] = "erasing"]
      /\ UNCHANGED <<polls, added, closed, visitor, invited, wild>>
  BY DEF Tell, Does
<1>3. id \in Active
  BY <1>2 DEF IInv, HeldOK
<1>4. a \in polls[id].invitations /\ a \in Invitees /\ polls[id].number \in 1..MaxPolls
  BY <1>1, <1>3, PollType DEF IInv, Invitation
<1>5. /\ pc'[t] = "erasing" /\ at'[t] = id /\ found'[t] = a /\ todo'[t] \subseteq todo[t]
      /\ \A u \in Threads \ {t} :
           pc'[u] = pc[u] /\ at'[u] = at[u] /\ found'[u] = found[u] /\ todo'[u] = todo[u]
  BY <1>1, <1>2 DEF IInv, TypeOK
<1>6. TypeOK'
  <2>1. spent' \subseteq Invitations
    BY <1>1, <1>4 DEF IInv, TypeOK, Invitations
  <2>2. /\ found' \in [Threads -> Invitees \cup {None, Gone}]
        /\ at' \in [Threads -> PollIds \cup {None, Gone}]
    BY <1>1, <1>2, <1>4 DEF IInv, TypeOK
  <2>3. /\ todo' \in [Threads -> SUBSET PollIds]
        /\ pc' \in [Threads -> {"idle", "walking", "erasing", "closing"}]
    BY <1>2 DEF IInv, TypeOK
  <2> QED BY <1>2, <2>1, <2>2, <2>3 DEF IInv, TypeOK
<1>7. Active' = Active
  BY <1>2 DEF Active
<1>8. SingleChoice' /\ NumbersOK'
  <2>1. SingleChoice'
    BY <1>2, <1>7 DEF IInv, SingleChoice
  <2>2. \A i \in invited \cup spent' : i[1] <= added
    <3>1. <<polls[id].number, a>>[1] = polls[id].number
      OBVIOUS
    <3> QED BY <1>1, <1>3, <3>1 DEF IInv, NumbersOK
  <2>3. NumbersOK'
    BY <1>2, <1>7, <2>2 DEF IInv, NumbersOK
  <2> QED BY <2>1, <2>3
<1>9. HeldOK'
  <2>1. \A u \in Threads : pc'[u] # "idle" => visitor[u] \in People
    BY <1>2, <1>5 DEF IInv, HeldOK
  <2>2. \A u \in Threads : pc'[u] # "closing" => at'[u] \in Active \cup {None, Gone}
    BY <1>3, <1>5 DEF IInv, HeldOK
  <2>3. \A u \in Threads : pc'[u] = "erasing" => at'[u] # None /\ found'[u] # None
    BY <1>4, <1>5, Keys DEF IInv, HeldOK
  <2>4. \A u \in Threads : todo'[u] \subseteq Active
    BY <1>5 DEF IInv, HeldOK
  <2>5. \A u \in Threads : pc'[u] = "erasing" /\ at'[u] # Gone /\ found'[u] # Gone =>
          /\ <<polls[at'[u]].number, found'[u]>> \in spent'
          /\ found'[u] \in polls[at'[u]].invitations
    <3> TAKE u \in Threads
    <3>1. CASE u = t
      BY <1>1, <1>4, <1>5, <3>1
    <3>2. CASE u # t
      BY <1>1, <1>5, <3>2 DEF IInv, HeldOK
    <3> QED BY <3>1, <3>2
  <2> QED BY <1>2, <1>7, <2>1, <2>2, <2>3, <2>4, <2>5 DEF HeldOK
<1>10. InvitedOnce'
  <2> SUFFICES ASSUME NEW i \in Active, NEW b \in Invitees
               PROVE  /\ <<polls[i].number, b>> \in invited =>
                           b \in polls[i].invitations \/ <<polls[i].number, b>> \in spent'
                      /\ b \in polls[i].invitations /\ <<polls[i].number, b>> \in spent' =>
                           \E u \in Threads : pc'[u] = "erasing" /\ at'[u] = i /\ found'[u] = b
    BY <1>2, <1>7 DEF InvitedOnce
  <2>1. CASE i = id /\ b = a
    BY <1>1, <1>5, <2>1
  <2>2. CASE ~(i = id /\ b = a)
    <3>1. <<polls[i].number, b>> # <<polls[id].number, a>>
      BY <1>3, <2>2 DEF IInv, NumbersOK
    <3>2. <<polls[i].number, b>> \in spent' <=> <<polls[i].number, b>> \in spent
      BY <1>1, <3>1
    <3>3. \A u \in Threads : pc[u] = "erasing" => u # t
      BY <1>2
    <3> QED BY <1>5, <3>2, <3>3 DEF IInv, InvitedOnce
  <2> QED BY <2>1, <2>2
<1> QED BY <1>6, <1>8, <1>9, <1>10 DEF IInv

\* The invitation that is erased was told, and is gone for whoever else holds it.
LEMMA EraseStep ==
  ASSUME IInv, NEW t \in Threads, NEW id \in PollIds, Erase(t, id)
  PROVE  IInv'
<1>0. PICK a : a = found[t]
  OBVIOUS
<1> DEFINE poll == [polls[id] EXCEPT !.invitations = polls[id].invitations \ {a}]
<1>1. /\ pc[t] = "erasing" /\ at[t] = id /\ a # Gone
      /\ polls' = [polls EXCEPT ![id] = poll]
      /\ found' = [u \in Threads |-> IF u = t THEN None
                                     ELSE IF pc[u] = "erasing" /\ at[u] = id /\ found[u] = a
                                       THEN Gone ELSE found[u]]
      /\ pc' = [pc EXCEPT ![t] = "walking"]
      /\ UNCHANGED <<added, closed, visitor, at, todo, invited, spent, wild>>
  BY <1>0 DEF Erase, IsAt, Does, ghosts
<1>2. /\ id \in Active /\ a \in polls[id].invitations /\ <<polls[id].number, a>> \in spent
  BY <1>0, <1>1, Keys DEF IInv, HeldOK
<1>3. /\ poll \in Poll /\ poll.number = polls[id].number /\ poll.multi = polls[id].multi
      /\ poll.votes = polls[id].votes
      /\ poll.invitations = polls[id].invitations \ {a}
  BY <1>2, PollType DEF IInv, Poll
<1> HIDE DEF poll
<1>4. \A i \in invited' \cup spent' : i[1] <= added
  BY <1>1 DEF IInv, NumbersOK
<1>5. /\ polls' \in [PollIds -> Poll \cup {NoPoll}]
      /\ Active' = Active /\ polls'[id] = poll /\ \A i \in Active \ {id} : polls'[i] = polls[i]
      /\ \A i \in Active : polls'[i].number = polls[i].number
      /\ SingleChoice' /\ NumbersOK'
  BY <1>1, <1>2, <1>3, <1>4, PollChanges DEF IInv, SingleChoice
<1>6. /\ pc'[t] = "walking" /\ \A u \in Threads \ {t} : pc'[u] = pc[u]
      /\ \A u \in Threads \ {t} :
           found'[u] = IF pc[u] = "erasing" /\ at[u] = id /\ found[u] = a THEN Gone ELSE found[u]
  BY <1>1 DEF IInv, TypeOK
<1>7. TypeOK'
  <2>1. found' \in [Threads -> Invitees \cup {None, Gone}]
    BY <1>1 DEF IInv, TypeOK
  <2>2. pc' \in [Threads -> {"idle", "walking", "erasing", "closing"}]
    BY <1>1 DEF IInv, TypeOK
  <2> QED BY <1>1, <1>5, <2>1, <2>2 DEF IInv, TypeOK
<1>8. \A i \in Active : \A b : b \in polls'[i].invitations <=>
        b \in polls[i].invitations /\ ~(i = id /\ b = a)
  BY <1>3, <1>5
<1>9. HeldOK'
  <2>1. \A u \in Threads : pc'[u] # "idle" => visitor[u] \in People
    BY <1>1, <1>6 DEF IInv, HeldOK
  <2>2. \A u \in Threads : pc'[u] # "closing" => at[u] \in Active \cup {None, Gone}
    BY <1>1, <1>6 DEF IInv, HeldOK
  <2>3. \A u \in Threads : pc'[u] = "erasing" => at[u] # None /\ found'[u] # None
    BY <1>6, Keys DEF IInv, HeldOK
  <2>4. ASSUME NEW u \in Threads, pc'[u] = "erasing", at[u] # Gone, found'[u] # Gone
        PROVE  /\ <<polls'[at[u]].number, found'[u]>> \in spent
               /\ found'[u] \in polls'[at[u]].invitations
    <3>1. u # t /\ pc[u] = "erasing" /\ found'[u] = found[u] /\ ~(at[u] = id /\ found[u] = a)
      BY <1>6, <2>4
    <3>2. /\ at[u] \in Active /\ <<polls[at[u]].number, found[u]>> \in spent
          /\ found[u] \in polls[at[u]].invitations
      BY <2>4, <3>1 DEF IInv, HeldOK
    <3> QED BY <1>5, <1>8, <3>1, <3>2
  <2>5. \A u \in Threads : todo[u] \subseteq Active
    BY DEF IInv, HeldOK
  <2> QED BY <1>1, <1>5, <2>1, <2>2, <2>3, <2>4, <2>5 DEF HeldOK
<1>10. InvitedOnce'
  <2> SUFFICES ASSUME NEW i \in Active, NEW b \in Invitees
               PROVE  /\ <<polls[i].number, b>> \in invited =>
                           b \in polls'[i].invitations \/ <<polls[i].number, b>> \in spent
                      /\ b \in polls'[i].invitations /\ <<polls[i].number, b>> \in spent =>
                           \E u \in Threads : pc'[u] = "erasing" /\ at[u] = i /\ found'[u] = b
    BY <1>1, <1>5 DEF InvitedOnce
  <2>1. CASE i = id /\ b = a
    BY <1>2, <1>8, <2>1
  <2>2. CASE ~(i = id /\ b = a)
    <3>1. b \in polls'[i].invitations <=> b \in polls[i].invitations
      BY <1>8, <2>2
    <3>2. ASSUME NEW u \in Threads, pc[u] = "erasing", at[u] = i, found[u] = b
          PROVE  pc'[u] = "erasing" /\ found'[u] = b
      <4>1. u # t
        BY <1>0, <1>1, <2>2, <3>2
      <4> QED BY <1>6, <2>2, <3>2, <4>1
    <3> QED BY <3>1, <3>2 DEF IInv, InvitedOnce
  <2> QED BY <2>1, <2>2
<1> QED BY <1>5, <1>7, <1>9, <1>10 DEF IInv

LEMMA NextStep == IInv /\ [Next]_vars => IInv'
<1> SUFFICES ASSUME IInv, [Next]_vars PROVE IInv'
  OBVIOUS
<1>0. TypeOK /\ HeldOK
  BY DEF IInv
<1>1. ASSUME NEW t \in Threads, NEW person \in People, Connect(t, person) PROVE IInv'
  <2>1. /\ pc[t] = "idle" /\ pc' = [pc EXCEPT ![t] = "walking"]
        /\ visitor' = [visitor EXCEPT ![t] = person] /\ todo' = [todo EXCEPT ![t] = Active]
        /\ UNCHANGED <<polls, added, closed, at, found, ghosts, wild>>
    BY <1>1 DEF Connect, Does
  <2>2. TypeOK'
    <3>1. Active \subseteq PollIds
      BY DEF Active
    <3>2. /\ todo' \in [Threads -> SUBSET PollIds]
          /\ visitor' \in [Threads -> People \cup {Nobody}]
          /\ pc' \in [Threads -> {"idle", "walking", "erasing", "closing"}]
      BY <1>0, <2>1, <3>1 DEF TypeOK
    <3> QED BY <1>0, <2>1, <3>2 DEF TypeOK, ghosts
  <2>3. /\ pc'[t] = "walking" /\ visitor'[t] = person /\ todo'[t] = Active
        /\ \A u \in Threads \ {t} : pc'[u] = pc[u] /\ visitor'[u] = visitor[u] /\ todo'[u] = todo[u]
    BY <1>0, <2>1 DEF TypeOK
  <2>4. at[t] \in Active \cup {None, Gone}
    BY <1>0, <2>1 DEF HeldOK
  <2> QED BY <2>1, <2>2, <2>3, <2>4, MoveStep
<1>2. ASSUME NEW t \in Threads, NEW id \in PollIds, Skip(t, id) PROVE IInv'
  <2>1. /\ pc[t] = "walking" /\ id \in todo[t]
        /\ at' = [at EXCEPT ![t] = id] /\ todo' = [todo EXCEPT ![t] = @ \ {id}]
        /\ UNCHANGED <<polls, added, closed, pc, visitor, found, ghosts, wild>>
    BY <1>2 DEF Skip, Does
  <2>2. TypeOK'
    <3>1. /\ todo' \in [Threads -> SUBSET PollIds]
          /\ at' \in [Threads -> PollIds \cup {None, Gone}]
      BY <1>0, <2>1 DEF TypeOK
    <3> QED BY <1>0, <2>1, <3>1 DEF TypeOK, ghosts
  <2>3. /\ at'[t] = id /\ todo'[t] \subseteq todo[t]
        /\ \A u \in Threads \ {t} : at'[u] = at[u] /\ todo'[u] = todo[u]
    BY <1>0, <2>1 DEF TypeOK
  <2>4. todo[t] \subseteq Active /\ visitor[t] \in People
    BY <1>0, <2>1 DEF HeldOK
  <2> QED BY <2>1, <2>2, <2>3, <2>4, MoveStep
<1>3. ASSUME NEW t \in Threads, EndOfWalk(t) PROVE IInv'
  <2>1. /\ pc[t] = "walking" /\ todo[t] = {}
        /\ pc' = [pc EXCEPT ![t] = "idle"] /\ visitor' = [visitor EXCEPT ![t] = Nobody]
        /\ at' = [at EXCEPT ![t] = None]
        /\ UNCHANGED <<polls, added, closed, found, todo, ghosts, wild>>
    BY <1>3 DEF EndOfWalk, Does
  <2>2. TypeOK'
    <3>1. /\ at' \in [Threads -> PollIds \cup {None, Gone}]
          /\ visitor' \in [Threads -> People \cup {Nobody}]
          /\ pc' \in [Threads -> {"idle", "walking", "erasing", "closing"}]
      BY <1>0, <2>1 DEF TypeOK
    <3> QED BY <1>0, <2>1, <3>1 DEF TypeOK, ghosts
  <2>3. /\ pc'[t] = "idle" /\ at'[t] = None
        /\ \A u \in Threads \ {t} : pc'[u] = pc[u] /\ visitor'[u] = visitor[u] /\ at'[u] = at[u]
    BY <1>0, <2>1 DEF TypeOK
  <2> QED BY <2>1, <2>2, <2>3, MoveStep
<1>4. ASSUME NEW t \in Threads, NEW id \in PollIds, NEW person \in People, ShowResults(t, id, person)
      PROVE  IInv'
  <2>1. /\ pc[t] = "idle" /\ id \in Active
        /\ closed' = closed \cup {polls[id].number}
        /\ pc' = [pc EXCEPT ![t] = "closing"] /\ at' = [at EXCEPT ![t] = id]
        /\ visitor' = [visitor EXCEPT ![t] = person]
        /\ UNCHANGED <<polls, added, found, todo, ghosts, wild>>
    BY <1>4 DEF ShowResults, Does
  <2>2. TypeOK'
    <3>1. /\ at' \in [Threads -> PollIds \cup {None, Gone}]
          /\ visitor' \in [Threads -> People \cup {Nobody}]
          /\ pc' \in [Threads -> {"idle", "walking", "erasing", "closing"}]
      BY <1>0, <2>1 DEF TypeOK
    <3>2. closed' \subseteq 1..MaxPolls
      BY <1>0, <2>1, PollType DEF TypeOK
    <3> QED BY <1>0, <2>1, <3>1, <3>2 DEF TypeOK, ghosts
  <2>3. /\ pc'[t] = "closing" /\ visitor'[t] = person
        /\ \A u \in Threads \ {t} : pc'[u] = pc[u] /\ visitor'[u] = visitor[u] /\ at'[u] = at[u]
    BY <1>0, <2>1 DEF TypeOK
  <2>4. todo[t] \subseteq Active
    BY <1>0 DEF HeldOK
  <2> QED BY <2>1, <2>2, <2>3, <2>4, MoveStep
<1>5. ASSUME UNCHANGED <<polls, added, closed, walks, ghosts>>, wild' \in BOOLEAN PROVE IInv'
  <2>1. TypeOK' /\ HeldOK' /\ SingleChoice'
    BY <1>0, <1>5 DEF walks, ghosts, TypeOK, HeldOK, IInv, SingleChoice, Active
  <2>2. NumbersOK' /\ InvitedOnce'
    BY <1>5 DEF walks, ghosts, IInv, NumbersOK, InvitedOnce, Active
  <2> QED BY <2>1, <2>2 DEF IInv
<1>6. ASSUME NEW t \in Threads, Dangling(t) PROVE IInv'
  BY <1>5, <1>6 DEF Dangling
<1>7. CASE UNCHANGED vars
  BY <1>0, <1>5, <1>7 DEF vars, TypeOK
<1>8. ASSUME NEW t \in Threads, NEW person \in People
      PROVE  /\ \A theme \in Themes : AddPoll(t, theme, person) => IInv'
             /\ \A id \in PollIds :
                  /\ \A option \in Options : Vote(t, id, option, person) => IInv'
                  /\ Unvote(t, id, person) => IInv'
  BY AddPollStep, VoteStep, UnvoteStep
<1>9. ASSUME NEW t \in Threads, NEW id \in PollIds
      PROVE  /\ \A addresses \in SUBSET Invitees : Invite(t, id, addresses) => IInv'
             /\ ClosePoll(t, id) => IInv'
             /\ Tell(t, id) => IInv'
             /\ Erase(t, id) => IInv'
  BY InviteStep, ClosePollStep, TellStep, EraseStep
<1>10. ASSUME Next PROVE IInv'
  <2> DEFINE Chat(t, person) ==
               \/ Connect(t, person)
               \/ \E theme \in Themes : AddPoll(t, theme, person)
               \/ \E id \in PollIds :
                    \/ \E option \in Options : Vote(t, id, option, person)
                    \/ Unvote(t, id, person) \/ ShowResults(t, id, person)
             Work(t, id) ==
               \/ \E addresses \in SUBSET Invitees \ {{}} : Invite(t, id, addresses)
               \/ ClosePoll(t, id)
               \/ Skip(t, id) \/ Tell(t, id) \/ Erase(t, id)
  <2>1. \E t \in Threads :
          \/ \E person \in People : Chat(t, person)
          \/ \E id \in PollIds : Work(t, id)
          \/ EndOfWalk(t) \/ Dangling(t)
    BY <1>10 DEF Next
  <2>2. ASSUME NEW t \in Threads, NEW person \in People, Chat(t, person) PROVE IInv'
    BY <1>1, <1>4, <1>8, <2>2
  <2>3. ASSUME NEW t \in Threads, NEW id \in PollIds, Work(t, id) PROVE IInv'
    BY <1>2, <1>9, <2>3
  <2> HIDE DEF Chat, Work
  <2> QED BY <1>3, <1>6, <2>1, <2>2, <2>3
<1> QED BY <1>7, <1>10

\* The inductive invariant holds in every reachable state.
THEOREM Invariance == Spec => []IInv
<1>1. IInv /\ [Next]_vars => IInv'
  BY NextStep
<1> QED BY InitIInv, <1>1, PTL DEF Spec

\* The polls and what the threads are about keep their types.
THEOREM TypeCorrect == Spec => []TypeOK
<1>1. IInv => TypeOK
  BY DEF IInv
<1> QED BY Invariance, <1>1, PTL

\* Nobody has two votes in a poll that takes one, whoever replaces or leaves
\* what poll in between, and also if several people show one jid (Voting::Vote).
THEOREM SingleChoiceCorrect == Spec => []SingleChoice
<1>1. IInv => SingleChoice
  BY DEF IInv
<1> QED BY Invariance, <1>1, PTL

\* An invitation is used up by telling it, whatever other threads do between the
\* find and the erase, and is not told again but by one that comes in there
\* (Voting::HandlePresence).
THEOREM InvitedOnceCorrect == Spec => []InvitedOnce
<1>1. IInv => InvitedOnce
  BY DEF IInv
<1> QED BY Invariance, <1>1, PTL

-----------------------------------------------------------------------------
(* The calculator.  DiceRoller::HandleMessage gives the yard one token after *)
(* the other, until one is refused.                                          *)

VARIABLES
  yard,  \* the ShuntingYard of the message
  given  \* the tokens it has been given

Push(kind) ==
  LET token == [kind |-> kind, at |-> Len(given) + 1]
  IN yard.ok /\ yard' = PushToken(yard, token) /\ given' = Append(given, token)

YardInit == yard = Empty /\ given = <<>>
YardNext == \E kind \in Kinds : Push(kind)
YardSpec == YardInit /\ [][YardNext]_<<yard, given>>

Yard == [rpn : Seq(Token), operators : Seq(Token), ok : BOOLEAN]

YardTypeOK ==
  /\ yard \in Yard
  /\ given \in Seq(Token)
  /\ \A k \in DOMAIN given : given[k].at = k

Parentheses == {"(", ")"}

\* On the stack no operator lies on one that is applied before it, unless an open
\* parenthesis is between the two; and nothing else is there.  What has left the
\* stack is no parenthesis.
WellStacked(sy) ==
  /\ \A k \in DOMAIN sy.rpn : sy.rpn[k].kind \notin Parentheses
  /\ \A k \in DOMAIN sy.operators : sy.operators[k].kind \in Operators \cup {"("}
  /\ \A k, l \in DOMAIN sy.operators :
       k < l /\ (\A m \in k..l : sy.operators[m].kind # "(") =>
         ~GoesBefore(sy.operators[k], sy.operators[l])

\* What a yard holds, the tokens in their final order if no more come.
Line(sy) == sy.rpn \o sy.operators

Proper(tokens) == {t \in Range(tokens) : t.kind \notin Parentheses}
Opened(tokens) == {t \in Range(tokens) : t.kind = "("}

EachOnce(tokens) == \A k, l \in DOMAIN tokens : tokens[k].at = tokens[l].at => k = l

\* The numbers are in the order of the text.
NumbersInOrder(tokens) ==
  \A k, l \in DOMAIN tokens :
    k < l /\ tokens[k].kind = "number" /\ tokens[l].kind = "number" =>
      tokens[k].at < tokens[l].at

\* Numbers and operators are neither lost nor doubled, and the parentheses on
\* the stack are those that wait to be closed.
YardInv ==
  /\ YardTypeOK
  /\ WellStacked(yard)
  /\ Range(Line(yard)) \subseteq Range(given)
  /\ Proper(Line(yard)) = Proper(given)
  /\ EachOnce(Line(yard))
  /\ NumbersInOrder(Line(yard))
  /\ Depth(given, 1, Len(given)) = IF yard.ok THEN Cardinality(Opened(Line(yard))) ELSE -1

-----------------------------------------------------------------------------
\* The natural numbers are well-founded.
LEMMA LeastNatural ==
  ASSUME NEW T \in SUBSET Nat, T # {}
  PROVE  \E m \in T : \A n \in T : m <= n
<1> DEFINE R == {ss \in Nat \X Nat : ss[1] < ss[2]}
<1>1. IsWellFoundedOn(R, Nat)
  BY NatLessThanWellFounded DEF OpToRel
<1>2. PICK m \in T : \A y \in T : ~ (<<y, m>> \in R)
  <2> HIDE DEF R
  <2> QED BY <1>1, WFMin
<1>3. ASSUME NEW n \in T PROVE m <= n
  <2>1. <<n, m>> \in Nat \X Nat /\ m \in Nat /\ n \in Nat
    OBVIOUS
  <2>2. ~(n < m)
    BY <2>1, <1>2
  <2> QED BY <2>1, <2>2
<1> QED BY <1>2, <1>3

\* The while loops of PushToken move the operators before the first one that stays.
LEMMA PoppedIs ==
  ASSUME NEW sy \in Yard, NEW goes
  PROVE  \E n \in 0..Len(sy.operators) :
           /\ Popped(sy, goes) =
                [rpn |-> sy.rpn \o SubSeq(sy.operators, 1, n),
                 operators |-> SubSeq(sy.operators, n + 1, Len(sy.operators)),
                 ok |-> sy.ok]
           /\ \A k \in 1..n : k \in goes
           /\ n < Len(sy.operators) => n + 1 \notin goes
<1> DEFINE ops == sy.operators
           stays == {k \in DOMAIN ops : k \notin goes} \cup {Len(ops) + 1}
           m == CHOOSE k \in stays : \A l \in stays : k <= l
<1>1. ops \in Seq(Token) /\ Len(ops) \in Nat /\ DOMAIN ops = 1..Len(ops)
  BY LenProperties DEF Yard
<1>2. stays \in SUBSET Nat /\ stays # {}
  BY <1>1
<1>3. m \in stays /\ \A l \in stays : m <= l
  <2> HIDE DEF stays
  <2> QED BY <1>2, LeastNatural
<1>4. m \in 1..(Len(ops) + 1)
  BY <1>1, <1>3
<1>5. \A k \in 1..(m - 1) : k \in goes
  BY <1>1, <1>3, <1>4
<1>6. m - 1 < Len(ops) => m \notin goes
  BY <1>1, <1>3, <1>4
<1>7. Popped(sy, goes) =
        [rpn |-> sy.rpn \o SubSeq(ops, 1, m - 1),
         operators |-> SubSeq(ops, (m - 1) + 1, Len(ops)), ok |-> sy.ok]
  <2>1. Popped(sy, goes) = [sy EXCEPT !.rpn = sy.rpn \o SubSeq(ops, 1, m - 1),
                                      !.operators = SubSeq(ops, (m - 1) + 1, Len(ops))]
    BY DEF Popped
  <2> HIDE DEF m
  <2> QED BY <2>1 DEF Yard
<1>8. m - 1 \in 0..Len(ops) /\ (m - 1) + 1 = m
  BY <1>1, <1>4
<1> HIDE DEF m
<1> QED BY <1>5, <1>6, <1>7, <1>8

LEMMA ConcatOfThree ==
  ASSUME NEW s \in Seq(Token), NEW t \in Seq(Token), NEW u \in Seq(Token)
  PROVE  (s \o t) \o u = s \o (t \o u)
BY ConcatAssociative

\* The border moves, the line does not.
LEMMA PoppedMoves ==
  ASSUME NEW sy \in Yard, NEW goes
  PROVE  \E n \in 0..Len(sy.operators) :
           /\ Popped(sy, goes) \in Yard
           /\ Popped(sy, goes).ok = sy.ok
           /\ Len(Popped(sy, goes).rpn) = Len(sy.rpn) + n
           /\ Len(Popped(sy, goes).operators) = Len(sy.operators) - n
           /\ \A k \in 1..Len(sy.rpn) : Popped(sy, goes).rpn[k] = sy.rpn[k]
           /\ \A k \in 1..n : Popped(sy, goes).rpn[Len(sy.rpn) + k] = sy.operators[k]
           /\ \A k \in 1..(Len(sy.operators) - n) :
                Popped(sy, goes).operators[k] = sy.operators[n + k]
           /\ \A k \in 1..n : k \in goes
           /\ n < Len(sy.operators) => n + 1 \notin goes
           /\ Line(Popped(sy, goes)) = Line(sy)
<1> DEFINE p == Popped(sy, goes)
           ops == sy.operators
<1>1. PICK n \in 0..Len(ops) :
        /\ p = [rpn |-> sy.rpn \o SubSeq(ops, 1, n),
                operators |-> SubSeq(ops, n + 1, Len(ops)), ok |-> sy.ok]
        /\ \A k \in 1..n : k \in goes
        /\ n < Len(ops) => n + 1 \notin goes
  BY PoppedIs
<1>2. /\ sy.rpn \in Seq(Token) /\ Len(sy.rpn) \in Nat
      /\ ops \in Seq(Token) /\ Len(ops) \in Nat
      /\ \A k \in 1..Len(ops) : ops[k] \in Token
      /\ n \in Nat /\ n <= Len(ops) /\ sy.ok \in BOOLEAN
  BY LenProperties, ElementOfSeq DEF Yard
<1> DEFINE moved == SubSeq(ops, 1, n)
           rest == SubSeq(ops, n + 1, Len(ops))
<1>3. /\ moved \in Seq(Token) /\ Len(moved) = n
      /\ \A k \in 1..n : moved[k] = ops[k]
  <2>1. \A k \in 1..n : ops[k] \in Token
    BY <1>2
  <2>2. /\ moved \in Seq(Token)
        /\ Len(moved) = IF 1 <= n THEN n - 1 + 1 ELSE 0
        /\ \A k \in 1..(n - 1 + 1) : moved[k] = ops[1 + k - 1]
    BY <1>2, <2>1, SubSeqProperties
  <2> HIDE DEF moved
  <2> QED BY <1>2, <2>2
<1>4. /\ rest \in Seq(Token) /\ Len(rest) = Len(ops) - n
      /\ \A k \in 1..(Len(ops) - n) : rest[k] = ops[n + k]
  <2>1. \A k \in (n + 1)..Len(ops) : ops[k] \in Token
    BY <1>2
  <2>2. /\ rest \in Seq(Token)
        /\ Len(rest) = IF n + 1 <= Len(ops) THEN Len(ops) - (n + 1) + 1 ELSE 0
        /\ \A k \in 1..(Len(ops) - (n + 1) + 1) : rest[k] = ops[(n + 1) + k - 1]
    <3>1. n + 1 \in Int /\ Len(ops) \in Int
      BY <1>2
    <3> QED BY <2>1, <3>1, SubSeqProperties
  <2> HIDE DEF rest
  <2>3. \A k \in 1..(Len(ops) - n) : k \in 1..(Len(ops) - (n + 1) + 1) /\ (n + 1) + k - 1 = n + k
    BY <1>2
  <2>4. Len(rest) = Len(ops) - n
    BY <1>2, <2>2
  <2> QED BY <2>2, <2>3, <2>4
<1>5. p.rpn = sy.rpn \o moved /\ p.operators = rest /\ p.ok = sy.ok
  <2>1. \A r, o, b : /\ [rpn |-> r, operators |-> o, ok |-> b].rpn = r
                     /\ [rpn |-> r, operators |-> o, ok |-> b].operators = o
                     /\ [rpn |-> r, operators |-> o, ok |-> b].ok = b
    OBVIOUS
  <2>2. p = [rpn |-> sy.rpn \o moved, operators |-> rest, ok |-> sy.ok]
    BY <1>1
  <2> HIDE DEF p, moved, rest
  <2> QED BY <2>1, <2>2
<1> HIDE DEF p, moved, rest
<1>6. /\ p.rpn \in Seq(Token)
      /\ Len(p.rpn) = Len(sy.rpn) + n
      /\ \A k \in 1..(Len(sy.rpn) + n) :
           p.rpn[k] = IF k <= Len(sy.rpn) THEN sy.rpn[k] ELSE moved[k - Len(sy.rpn)]
  <2>1. /\ sy.rpn \o moved \in Seq(Token)
        /\ Len(sy.rpn \o moved) = Len(sy.rpn) + Len(moved)
        /\ \A k \in 1..(Len(sy.rpn) + Len(moved)) :
             (sy.rpn \o moved)[k] =
               IF k <= Len(sy.rpn) THEN sy.rpn[k] ELSE moved[k - Len(sy.rpn)]
    <3>1. sy.rpn \in Seq(Token) /\ moved \in Seq(Token)
      BY <1>2, <1>3
    <3> QED BY <3>1, ConcatProperties
  <2> QED BY <2>1, <1>3, <1>5
<1>7. /\ \A k \in 1..Len(sy.rpn) : p.rpn[k] = sy.rpn[k]
      /\ \A k \in 1..n : p.rpn[Len(sy.rpn) + k] = ops[k]
  <2>1. \A k \in 1..Len(sy.rpn) : k \in 1..(Len(sy.rpn) + n) /\ k <= Len(sy.rpn)
    BY <1>2
  <2>2. \A k \in 1..n : /\ Len(sy.rpn) + k \in 1..(Len(sy.rpn) + n)
                        /\ ~(Len(sy.rpn) + k <= Len(sy.rpn))
                        /\ Len(sy.rpn) + k - Len(sy.rpn) = k
    BY <1>2
  <2>3. \A k \in 1..Len(sy.rpn) : p.rpn[k] = sy.rpn[k]
    BY <1>6, <2>1
  <2>4. \A k \in 1..n : p.rpn[Len(sy.rpn) + k] = moved[k]
    <3> TAKE k \in 1..n
    <3> DEFINE i == Len(sy.rpn) + k
    <3>1. i \in 1..(Len(sy.rpn) + n) /\ ~(i <= Len(sy.rpn)) /\ i - Len(sy.rpn) = k
      BY <2>2
    <3> HIDE DEF i
    <3>2. p.rpn[i] = moved[k]
      BY <1>6, <3>1
    <3> QED BY <3>2 DEF i
  <2> QED BY <1>3, <2>3, <2>4
<1>8. p \in Yard
  <2>1. p = [rpn |-> sy.rpn \o moved, operators |-> rest, ok |-> sy.ok]
    BY <1>1 DEF p, moved, rest
  <2>2. sy.rpn \o moved \in Seq(Token)
    BY <1>5, <1>6
  <2> QED BY <1>2, <1>4, <2>1, <2>2 DEF Yard
<1>9. Line(p) = Line(sy)
  <2>1. moved \o rest = ops
    <3>1. /\ moved \o rest \in Seq(Token)
          /\ Len(moved \o rest) = Len(moved) + Len(rest)
          /\ \A k \in 1..(Len(moved) + Len(rest)) :
               (moved \o rest)[k] = IF k <= Len(moved) THEN moved[k] ELSE rest[k - Len(moved)]
      BY <1>3, <1>4, ConcatProperties
    <3>2. Len(moved) + Len(rest) = Len(ops)
      BY <1>2, <1>3, <1>4
    <3>3. \A k \in 1..Len(ops) : (moved \o rest)[k] = ops[k]
      <4> TAKE k \in 1..Len(ops)
      <4>1. CASE k <= n
        <5>1. k \in 1..n
          BY <4>1, <1>2
        <5> QED BY <5>1, <3>1, <3>2, <1>3, <1>2
      <4>2. CASE ~(k <= n)
        <5>1. k - n \in 1..(Len(ops) - n) /\ n + (k - n) = k
          BY <4>2, <1>2
        <5>2. (moved \o rest)[k] = rest[k - n]
          BY <4>2, <3>1, <3>2, <1>3
        <5> QED BY <5>1, <5>2, <1>4
      <4> QED BY <4>1, <4>2
    <3>4. \A k \in 1..Len(moved \o rest) : (moved \o rest)[k] = ops[k]
      BY <3>1, <3>2, <3>3
    <3>5. Len(moved \o rest) = Len(ops) /\ moved \o rest \in Seq(Token) /\ ops \in Seq(Token)
      BY <3>1, <3>2, <1>2
    <3> QED BY <3>4, <3>5, SeqEqual
  <2>2. (sy.rpn \o moved) \o rest = sy.rpn \o (moved \o rest)
    <3>1. sy.rpn \in Seq(Token) /\ moved \in Seq(Token) /\ rest \in Seq(Token)
      BY <1>2, <1>3, <1>4
    <3> QED BY <3>1, ConcatOfThree
  <2> QED BY <2>1, <2>2, <1>5 DEF Line
<1> QED BY <1>1, <1>4, <1>5, <1>6, <1>7, <1>8, <1>9 DEF p

-----------------------------------------------------------------------------
\* new is line with one token more, after the first n.
Inserted(line, n, token, new) ==
  /\ Len(new) = Len(line) + 1
  /\ \A k \in 1..n : new[k] = line[k]
  /\ new[n + 1] = token
  /\ \A k \in (n + 1)..Len(line) : new[k + 1] = line[k]

LEMMA ConcatInserted ==
  ASSUME NEW s \in Seq(Token), NEW u \in Seq(Token), NEW token \in Token
  PROVE  /\ <<token>> \o u \in Seq(Token)
         /\ Inserted(s \o u, Len(s), token, s \o (<<token>> \o u))
<1> DEFINE line == s \o u
           one == <<token>>
           more == one \o u
           new == s \o more
<1>1. Len(s) \in Nat /\ Len(u) \in Nat
  BY LenProperties
<1>2. one \in Seq(Token) /\ Len(one) = 1 /\ one[1] = token
  OBVIOUS
<1>3. /\ line \in Seq(Token) /\ Len(line) = Len(s) + Len(u)
      /\ \A k \in 1..(Len(s) + Len(u)) : line[k] = IF k <= Len(s) THEN s[k] ELSE u[k - Len(s)]
  BY ConcatProperties
<1> HIDE DEF one
<1>4. /\ more \in Seq(Token) /\ Len(more) = 1 + Len(u)
      /\ \A k \in 1..(1 + Len(u)) : more[k] = IF k <= 1 THEN one[k] ELSE u[k - 1]
  <2>1. /\ more \in Seq(Token) /\ Len(more) = Len(one) + Len(u)
        /\ \A k \in 1..(Len(one) + Len(u)) :
             more[k] = IF k <= Len(one) THEN one[k] ELSE u[k - Len(one)]
    BY <1>2, ConcatProperties
  <2> QED BY <1>2, <2>1
<1> HIDE DEF line, more
<1>5. /\ new \in Seq(Token) /\ Len(new) = Len(s) + Len(more)
      /\ \A k \in 1..(Len(s) + Len(more)) : new[k] = IF k <= Len(s) THEN s[k] ELSE more[k - Len(s)]
  BY <1>4, ConcatProperties
<1> HIDE DEF new
<1>6. Len(new) = Len(line) + 1
  BY <1>1, <1>3, <1>4, <1>5
<1>7. \A k \in 1..Len(s) : new[k] = line[k]
  <2> TAKE k \in 1..Len(s)
  <2>1. k \in 1..(Len(s) + Len(u)) /\ k \in 1..(Len(s) + Len(more)) /\ k <= Len(s)
    BY <1>1, <1>4
  <2> QED BY <2>1, <1>3, <1>5
<1>8. new[Len(s) + 1] = token
  <2> DEFINE i == Len(s) + 1
  <2>1. i \in 1..(Len(s) + Len(more)) /\ ~(i <= Len(s)) /\ i - Len(s) = 1 /\ 1 \in 1..(1 + Len(u))
    BY <1>1, <1>4
  <2> HIDE DEF i
  <2>2. new[i] = more[1]
    BY <2>1, <1>5
  <2>3. more[1] = one[1]
    BY <2>1, <1>4
  <2> QED BY <2>2, <2>3, <1>2 DEF i
<1>9. \A k \in (Len(s) + 1)..Len(line) : new[k + 1] = line[k]
  <2> TAKE k \in (Len(s) + 1)..Len(line)
  <2> DEFINE i == k + 1
             j == k - Len(s)
             h == i - Len(s)
  <2>1. /\ i \in 1..(Len(s) + Len(more)) /\ ~(i <= Len(s))
        /\ k \in 1..(Len(s) + Len(u)) /\ ~(k <= Len(s))
        /\ h \in 1..(1 + Len(u)) /\ ~(h <= 1) /\ h - 1 = j
    BY <1>1, <1>3, <1>4
  <2>2. line[k] = u[j]
    BY <2>1, <1>3
  <2>3. new[i] = more[h]
    <3> HIDE DEF i
    <3> QED BY <2>1, <1>5 DEF h
  <2>4. more[h] = u[h - 1]
    <3> HIDE DEF h
    <3> QED BY <2>1, <1>4
  <2> QED BY <2>1, <2>2, <2>3, <2>4
<1> QED BY <1>4, <1>6, <1>7, <1>8, <1>9 DEF Inserted, line, more, new, one

\* With one token more: what is held, that each token is there once, and the
\* order of the numbers, and back.
LEMMA InsertedKeeps ==
  ASSUME NEW line \in Seq(Token), NEW new \in Seq(Token), NEW n \in 0..Len(line),
         NEW token \in Token, Inserted(line, n, token, new)
  PROVE  /\ Range(new) = Range(line) \cup {token}
         /\ EachOnce(new) => EachOnce(line) /\ token \notin Range(line)
         /\ EachOnce(line) /\ (\A k \in DOMAIN line : line[k].at # token.at) => EachOnce(new)
         /\ NumbersInOrder(new) => NumbersInOrder(line)
         /\ /\ NumbersInOrder(line)
            /\ token.kind = "number" =>
                 /\ \A k \in 1..n : line[k].kind = "number" => line[k].at < token.at
                 /\ \A k \in (n + 1)..Len(line) : line[k].kind # "number"
            => NumbersInOrder(new)
<1> DEFINE To(k) == IF k <= n THEN k ELSE k + 1
           From(k) == IF k <= n THEN k ELSE k - 1
<1>1. /\ Len(line) \in Nat /\ n \in Nat /\ n <= Len(line)
      /\ DOMAIN line = 1..Len(line) /\ DOMAIN new = 1..(Len(line) + 1)
  BY LenProperties DEF Inserted
<1>2. \A k \in 1..Len(line) : To(k) \in 1..(Len(line) + 1) /\ To(k) # n + 1 /\ new[To(k)] = line[k]
  BY <1>1 DEF Inserted
<1>3. \A k \in 1..(Len(line) + 1) :
        k # n + 1 => From(k) \in 1..Len(line) /\ new[k] = line[From(k)]
  <2> TAKE k \in 1..(Len(line) + 1)
  <2>1. CASE k <= n
    <3>1. k \in 1..n
      BY <2>1, <1>1
    <3> QED BY <2>1, <3>1, <1>1 DEF Inserted
  <2>2. CASE ~(k <= n) /\ k # n + 1
    <3>1. k - 1 \in (n + 1)..Len(line) /\ (k - 1) + 1 = k
      BY <2>2, <1>1
    <3>2. new[(k - 1) + 1] = line[k - 1]
      BY <3>1 DEF Inserted
    <3> QED BY <2>2, <3>1, <3>2, <1>1
  <2> QED BY <2>1, <2>2
<1>4. \A k, l \in 1..Len(line) : (To(k) = To(l) => k = l) /\ (k < l <=> To(k) < To(l))
  BY <1>1
<1>5. \A k, l \in 1..(Len(line) + 1) :
        k # n + 1 /\ l # n + 1 => (From(k) = From(l) => k = l) /\ (k < l <=> From(k) < From(l))
  BY <1>1
<1>6. new[n + 1] = token /\ n + 1 \in 1..(Len(line) + 1)
  BY <1>1 DEF Inserted
<1>7. \A k \in 1..(Len(line) + 1) : k < n + 1 => From(k) \in 1..n
  BY <1>1
<1>8. \A k \in 1..(Len(line) + 1) : n + 1 < k => From(k) \in (n + 1)..Len(line)
  BY <1>1
<1> HIDE DEF To, From
<1>9. Range(new) = Range(line) \cup {token}
  <2>1. ASSUME NEW t \in Range(new) PROVE t \in Range(line) \cup {token}
    <3>1. PICK k \in 1..(Len(line) + 1) : t = new[k]
      BY <1>1, <2>1 DEF Range
    <3> QED BY <3>1, <1>1, <1>3, <1>6 DEF Range
  <2>2. ASSUME NEW t \in Range(line) PROVE t \in Range(new)
    BY <2>2, <1>1, <1>2 DEF Range
  <2>3. token \in Range(new)
    BY <1>1, <1>6 DEF Range
  <2> QED BY <2>1, <2>2, <2>3
<1>10. EachOnce(new) => EachOnce(line) /\ token \notin Range(line)
  <2> SUFFICES ASSUME EachOnce(new) PROVE EachOnce(line) /\ token \notin Range(line)
    OBVIOUS
  <2>1. \A k, l \in 1..(Len(line) + 1) : new[k].at = new[l].at => k = l
    BY <1>1 DEF EachOnce
  <2>2. EachOnce(line)
    <3>1. ASSUME NEW k \in 1..Len(line), NEW l \in 1..Len(line), line[k].at = line[l].at
          PROVE  k = l
      <4>1. new[To(k)].at = new[To(l)].at /\ To(k) \in 1..(Len(line) + 1) /\ To(l) \in 1..(Len(line) + 1)
        BY <3>1, <1>2
      <4>2. To(k) = To(l)
        BY <4>1, <2>1
      <4> QED BY <4>2, <1>4
    <3> QED BY <3>1, <1>1 DEF EachOnce
  <2>3. ASSUME NEW k \in 1..Len(line), line[k] = token PROVE FALSE
    BY <2>3, <2>1, <1>2, <1>6
  <2> QED BY <2>2, <2>3, <1>1 DEF Range
<1>11. EachOnce(line) /\ (\A k \in DOMAIN line : line[k].at # token.at) => EachOnce(new)
  <2> SUFFICES ASSUME EachOnce(line), \A k \in 1..Len(line) : line[k].at # token.at,
                      NEW k \in 1..(Len(line) + 1), NEW l \in 1..(Len(line) + 1),
                      new[k].at = new[l].at
               PROVE  k = l
    BY <1>1 DEF EachOnce
  <2>1. CASE k # n + 1 /\ l # n + 1
    <3>1. line[From(k)].at = line[From(l)].at /\ From(k) \in 1..Len(line) /\ From(l) \in 1..Len(line)
      BY <2>1, <1>3
    <3>2. From(k) = From(l)
      BY <3>1, <1>1 DEF EachOnce
    <3> QED BY <2>1, <3>2, <1>5
  <2>2. CASE k = n + 1 /\ l # n + 1
    BY <2>2, <1>3, <1>6
  <2>3. CASE k # n + 1 /\ l = n + 1
    BY <2>3, <1>3, <1>6
  <2> QED BY <2>1, <2>2, <2>3
<1>12. NumbersInOrder(new) => NumbersInOrder(line)
  <2> SUFFICES ASSUME NumbersInOrder(new), NEW k \in 1..Len(line), NEW l \in 1..Len(line),
                      k < l, line[k].kind = "number", line[l].kind = "number"
               PROVE  line[k].at < line[l].at
    BY <1>1 DEF NumbersInOrder
  <2>1. /\ To(k) \in DOMAIN new /\ To(l) \in DOMAIN new /\ To(k) < To(l)
        /\ new[To(k)] = line[k] /\ new[To(l)] = line[l]
    BY <1>1, <1>2, <1>4
  <2> QED BY <2>1 DEF NumbersInOrder
<1>13. ASSUME NumbersInOrder(line),
              token.kind = "number" =>
                /\ \A k \in 1..n : line[k].kind = "number" => line[k].at < token.at
                /\ \A k \in (n + 1)..Len(line) : line[k].kind # "number"
       PROVE  NumbersInOrder(new)
  <2> SUFFICES ASSUME NEW k \in 1..(Len(line) + 1), NEW l \in 1..(Len(line) + 1),
                      k < l, new[k].kind = "number", new[l].kind = "number"
               PROVE  new[k].at < new[l].at
    BY <1>1 DEF NumbersInOrder
  <2>1. CASE k # n + 1 /\ l # n + 1
    <3>1. /\ From(k) \in DOMAIN line /\ From(l) \in DOMAIN line /\ From(k) < From(l)
          /\ new[k] = line[From(k)] /\ new[l] = line[From(l)]
      BY <2>1, <1>1, <1>3, <1>5
    <3> QED BY <3>1, <1>13 DEF NumbersInOrder
  <2>2. CASE k = n + 1
    <3>1. From(l) \in (n + 1)..Len(line) /\ new[l] = line[From(l)] /\ new[k] = token
      BY <2>2, <1>1, <1>3, <1>6, <1>8
    <3> QED BY <3>1, <1>13
  <2>3. CASE l = n + 1
    <3>1. From(k) \in 1..n /\ new[k] = line[From(k)] /\ new[l] = token
      BY <2>3, <1>1, <1>3, <1>6, <1>7
    <3> QED BY <3>1, <1>13
  <2> QED BY <2>1, <2>2, <2>3
<1> QED BY <1>9, <1>10, <1>11, <1>12, <1>13

-----------------------------------------------------------------------------
LEMMA Precedences ==
  ASSUME NEW token \in Token
  PROVE  /\ token.kind \in Operators => GetPrecedence(token) \in 8..10
         /\ token.kind \in Operators => (GetPrecedence(token) = 10 <=> ~LeftAssoc(token))
         /\ token.kind = "(" => GetPrecedence(token) = 0
         /\ token.kind \in Operators =>
              token.kind \notin Parentheses \cup {"number", "junk"}
BY OperatorsAssumption DEF GetPrecedence, LeftAssoc, AllOperators, Parentheses, Token

\* An operator that does not make the top of the stack go makes nothing under it
\* go either, as far as the next parenthesis.
LEMMA GoesBeforeFurther ==
  ASSUME NEW token \in Token, NEW top \in Token, NEW under \in Token,
         token.kind \in Operators, top.kind \in Operators, under.kind \in Operators,
         ~GoesBefore(token, top), ~GoesBefore(top, under)
  PROVE  ~GoesBefore(token, under)
<1>1. /\ GetPrecedence(token) \in 8..10 /\ (GetPrecedence(token) = 10 <=> ~LeftAssoc(token))
      /\ GetPrecedence(top) \in 8..10 /\ (GetPrecedence(top) = 10 <=> ~LeftAssoc(top))
      /\ GetPrecedence(under) \in 8..10
  BY Precedences
<1> QED BY <1>1 DEF GoesBefore

LEMMA ParenthesisStays ==
  ASSUME NEW token \in Token, NEW top \in Token, token.kind \in Operators, top.kind = "("
  PROVE  ~GoesBefore(token, top)
<1>1. GetPrecedence(token) \in 8..10 /\ GetPrecedence(top) = 0
  BY Precedences
<1> QED BY <1>1 DEF GoesBefore

\* The while loops leave the stack as it should be, if no parenthesis goes.
LEMMA PoppedWellStacked ==
  ASSUME NEW sy \in Yard, WellStacked(sy),
         NEW goes, \A k \in DOMAIN sy.operators : sy.operators[k].kind = "(" => k \notin goes
  PROVE  WellStacked(Popped(sy, goes))
<1> DEFINE p == Popped(sy, goes)
<1>1. PICK n \in 0..Len(sy.operators) :
        /\ p \in Yard
        /\ Len(p.rpn) = Len(sy.rpn) + n
        /\ Len(p.operators) = Len(sy.operators) - n
        /\ \A k \in 1..Len(sy.rpn) : p.rpn[k] = sy.rpn[k]
        /\ \A k \in 1..n : p.rpn[Len(sy.rpn) + k] = sy.operators[k]
        /\ \A k \in 1..(Len(sy.operators) - n) : p.operators[k] = sy.operators[n + k]
        /\ \A k \in 1..n : k \in goes
  <2> HIDE DEF p
  <2> QED BY PoppedMoves DEF p
<1> HIDE DEF p
<1>2. /\ Len(sy.rpn) \in Nat /\ Len(sy.operators) \in Nat /\ n \in Nat /\ n <= Len(sy.operators)
      /\ DOMAIN sy.rpn = 1..Len(sy.rpn) /\ DOMAIN sy.operators = 1..Len(sy.operators)
      /\ DOMAIN p.rpn = 1..Len(p.rpn) /\ DOMAIN p.operators = 1..Len(p.operators)
  BY <1>1, LenProperties DEF Yard
<1>3. ASSUME NEW k \in DOMAIN p.rpn PROVE p.rpn[k].kind \notin Parentheses
  <2>1. CASE k \in 1..Len(sy.rpn)
    BY <2>1, <1>1, <1>2 DEF WellStacked
  <2>2. CASE k \notin 1..Len(sy.rpn)
    <3> DEFINE j == k - Len(sy.rpn)
    <3>1. j \in 1..n /\ j \in DOMAIN sy.operators /\ Len(sy.rpn) + j = k
      <4>1. k \in 1..(Len(sy.rpn) + n) /\ k \notin 1..Len(sy.rpn)
        BY <2>2, <1>1, <1>2
      <4>2. j \in 1..n /\ Len(sy.rpn) + j = k
        BY <4>1, <1>2
      <4> QED BY <4>2, <1>2
    <3> HIDE DEF j
    <3>2. p.rpn[k] = sy.operators[j] /\ j \in goes
      BY <3>1, <1>1
    <3>3. sy.operators[j].kind \in Operators
      BY <3>1, <3>2 DEF WellStacked
    <3>4. sy.operators[j] \in Token
      BY <3>1, <1>2, ElementOfSeq DEF Yard
    <3> QED BY <3>2, <3>3, <3>4, Precedences
  <2> QED BY <2>1, <2>2
<1>4. ASSUME NEW k \in DOMAIN p.operators
      PROVE  n + k \in DOMAIN sy.operators /\ p.operators[k] = sy.operators[n + k]
  <2>1. \A a, b \in Nat : b <= a => \A j \in 1..(a - b) : b + j \in 1..a
    OBVIOUS
  <2>2. k \in 1..(Len(sy.operators) - n)
    BY <1>1, <1>2
  <2>3. n + k \in 1..Len(sy.operators)
    BY <2>1, <2>2, <1>2, Zenon
  <2> QED BY <2>2, <2>3, <1>1, <1>2
<1>5. ASSUME NEW k \in DOMAIN p.operators, NEW l \in DOMAIN p.operators,
             k < l, \A m \in k..l : p.operators[m].kind # "("
      PROVE  ~GoesBefore(p.operators[k], p.operators[l])
  <2>1. n + k \in DOMAIN sy.operators /\ n + l \in DOMAIN sy.operators /\ n + k < n + l
    BY <1>5, <1>2, <1>4
  <2>2. ASSUME NEW m \in (n + k)..(n + l) PROVE sy.operators[m].kind # "("
    <3> DEFINE i == m - n
    <3>1. i \in k..l /\ i \in DOMAIN p.operators /\ n + i = m
      BY <1>2
    <3> HIDE DEF i
    <3> QED BY <3>1, <1>4, <1>5
  <2>3. ~GoesBefore(sy.operators[n + k], sy.operators[n + l])
    BY <2>1, <2>2 DEF WellStacked
  <2> QED BY <2>3, <1>4
<1>6. \A k \in DOMAIN p.operators : p.operators[k].kind \in Operators \cup {"("}
  BY <1>4 DEF WellStacked
<1> QED BY <1>3, <1>5, <1>6 DEF WellStacked, p

\* A token on top of the stack, or on the finished ones.
LEMMA StackedWell ==
  ASSUME NEW sy \in Yard, WellStacked(sy), NEW token \in Token,
         token.kind \in Operators \cup {"("},
         token.kind \in Operators /\ Len(sy.operators) > 0 /\ sy.operators[1].kind \in Operators =>
           ~GoesBefore(token, sy.operators[1]),
         NEW new, new = [sy EXCEPT !.operators = <<token>> \o sy.operators]
  PROVE  /\ new \in Yard
         /\ WellStacked(new)
         /\ new.ok = sy.ok
         /\ Inserted(Line(sy), Len(sy.rpn), token, Line(new))
<1> DEFINE ops == sy.operators
           more == <<token>> \o ops
<1>1. /\ sy.rpn \in Seq(Token) /\ ops \in Seq(Token) /\ sy.ok \in BOOLEAN
      /\ Len(ops) \in Nat /\ DOMAIN ops = 1..Len(ops)
      /\ \A k \in 1..Len(ops) : ops[k] \in Token
  BY LenProperties, ElementOfSeq DEF Yard
<1>2. new.rpn = sy.rpn /\ new.operators = more /\ new.ok = sy.ok
  BY DEF Yard
<1>3. more \in Seq(Token) /\ Inserted(sy.rpn \o ops, Len(sy.rpn), token, sy.rpn \o more)
  BY <1>1, ConcatInserted
<1>4. /\ Len(more) = Len(ops) + 1
      /\ more[1] = token
      /\ \A k \in 2..(Len(ops) + 1) : k - 1 \in 1..Len(ops) /\ more[k] = ops[k - 1]
  <2> DEFINE one == <<token>>
  <2>1. one \in Seq(Token) /\ Len(one) = 1 /\ one[1] = token
    OBVIOUS
  <2> HIDE DEF one
  <2>2. /\ Len(one \o ops) = Len(one) + Len(ops)
        /\ \A k \in 1..(Len(one) + Len(ops)) :
             (one \o ops)[k] = IF k <= Len(one) THEN one[k] ELSE ops[k - Len(one)]
    BY <1>1, <2>1, ConcatProperties
  <2> QED BY <1>1, <2>1, <2>2 DEF one
<1>5. new \in Yard
  <2>1. new = [rpn |-> sy.rpn, operators |-> more, ok |-> sy.ok]
    BY DEF Yard
  <2>2. sy.rpn \in Seq(Token) /\ more \in Seq(Token) /\ sy.ok \in BOOLEAN
    BY <1>1, <1>3
  <2>3. \A r, o \in Seq(Token), b \in BOOLEAN : [rpn |-> r, operators |-> o, ok |-> b] \in Yard
    BY DEF Yard
  <2> HIDE DEF more
  <2>4. [rpn |-> sy.rpn, operators |-> more, ok |-> sy.ok] \in Yard
    BY <2>2, <2>3, Zenon
  <2> QED BY <2>1, <2>4, Zenon
<1> HIDE DEF more
<1>6. DOMAIN more = 1..(Len(ops) + 1)
  BY <1>3, <1>4, LenProperties
<1>7. \A k \in DOMAIN more : more[k].kind \in Operators \cup {"("}
  <2> TAKE k \in DOMAIN more
  <2>1. k = 1 \/ k \in 2..(Len(ops) + 1)
    BY <1>1, <1>6
  <2> QED BY <2>1, <1>1, <1>4 DEF WellStacked
<1>8. ASSUME NEW k \in DOMAIN more, NEW l \in DOMAIN more,
             k < l, \A m \in k..l : more[m].kind # "("
      PROVE  ~GoesBefore(more[k], more[l])
  <2>a. \A a \in Nat : \A b, c \in 1..(a + 1) : b < c =>
          c \in 2..(a + 1) /\ c - 1 \in 1..a /\ (b = 1 \/ b \in 2..(a + 1))
    OBVIOUS
  <2>b. k \in 1..(Len(ops) + 1) /\ l \in 1..(Len(ops) + 1) /\ Len(ops) \in Nat
    BY <1>1, <1>6
  <2>1. /\ l \in 2..(Len(ops) + 1) /\ l - 1 \in DOMAIN ops /\ more[l] = ops[l - 1]
        /\ k = 1 \/ k \in 2..(Len(ops) + 1)
    <3>1. l \in 2..(Len(ops) + 1) /\ l - 1 \in 1..Len(ops) /\ (k = 1 \/ k \in 2..(Len(ops) + 1))
      BY <2>a, <2>b, <1>8, Zenon
    <3> QED BY <3>1, <1>1, <1>4
  <2>2. ASSUME NEW h \in 1..Len(ops), NEW m \in h..(l - 1), k <= h + 1
        PROVE  ops[m].kind # "("
    <3>1. m + 1 \in k..l /\ m + 1 \in 2..(Len(ops) + 1) /\ (m + 1) - 1 = m
      BY <2>b, <2>2, SMTT(30)
    <3> QED BY <3>1, <1>4, <1>8
  <2>3. more[k].kind # "(" /\ more[l].kind # "("
    <3>1. k \in k..l /\ l \in k..l
      BY <1>6, <1>8
    <3> QED BY <3>1, <1>8
  <2>4. CASE k \in 2..(Len(ops) + 1)
    <3>1. k - 1 \in DOMAIN ops /\ more[k] = ops[k - 1] /\ k - 1 < l - 1 /\ k <= (k - 1) + 1
      BY <2>4, <1>1, <1>4, <1>6, <1>8
    <3>2. \A m \in (k - 1)..(l - 1) : ops[m].kind # "("
      BY <3>1, <1>1, <2>2
    <3>3. ~GoesBefore(ops[k - 1], ops[l - 1])
      BY <3>1, <3>2, <2>1 DEF WellStacked
    <3> QED BY <3>1, <3>3, <2>1
  <2>5. CASE k = 1
    <3>1. more[k] = token /\ token.kind \in Operators
      BY <2>5, <2>3, <1>4
    <3>2. 1 \in DOMAIN ops /\ ops[1] \in Token /\ ops[l - 1] \in Token /\ Len(ops) > 0
      BY <2>1, <1>1
    <3>3. \A m \in 1..(l - 1) : ops[m].kind # "("
      BY <2>5, <3>2, <1>1, <2>2
    <3>4. ops[1].kind \in Operators /\ ops[l - 1].kind \in Operators
      <4>1. 1 \in 1..(l - 1) /\ l - 1 \in 1..(l - 1)
        BY <2>1, <1>1
      <4> QED BY <4>1, <3>2, <3>3, <2>1 DEF WellStacked
    <3>5. ~GoesBefore(token, ops[1])
      BY <3>1, <3>2, <3>4
    <3>6. CASE l - 1 = 1
      BY <3>1, <3>5, <3>6, <2>1
    <3>7. CASE l - 1 # 1
      <4>1. 1 < l - 1
        BY <3>7, <2>1, <1>1
      <4>2. ~GoesBefore(ops[1], ops[l - 1])
        BY <4>1, <3>2, <3>3, <2>1 DEF WellStacked
      <4>3. ~GoesBefore(token, ops[l - 1])
        BY <4>2, <3>1, <3>2, <3>4, <3>5, GoesBeforeFurther
      <4> QED BY <4>3, <3>1, <2>1
    <3> QED BY <3>6, <3>7
  <2> QED BY <2>1, <2>4, <2>5
<1>9. WellStacked(new)
  <2>1. new.operators = more /\ new.rpn = sy.rpn
    BY <1>2
  <2>2. \A k \in DOMAIN new.rpn : new.rpn[k].kind \notin Parentheses
    BY <2>1 DEF WellStacked
  <2>3. \A k \in DOMAIN new.operators : new.operators[k].kind \in Operators \cup {"("}
    BY <2>1, <1>7
  <2>4. \A k, l \in DOMAIN new.operators :
          k < l /\ (\A m \in k..l : new.operators[m].kind # "(") =>
            ~GoesBefore(new.operators[k], new.operators[l])
    BY <2>1, <1>8
  <2> QED BY <2>2, <2>3, <2>4, Zenon DEF WellStacked
<1> QED BY <1>2, <1>3, <1>5, <1>9 DEF Line

LEMMA YardIs ==
  ASSUME NEW r \in Seq(Token), NEW o \in Seq(Token), NEW b \in BOOLEAN
  PROVE  /\ [rpn |-> r, operators |-> o, ok |-> b] \in Yard
         /\ [rpn |-> r, operators |-> o, ok |-> b].rpn = r
         /\ [rpn |-> r, operators |-> o, ok |-> b].operators = o
         /\ [rpn |-> r, operators |-> o, ok |-> b].ok = b
BY DEF Yard

LEMMA Appended ==
  ASSUME NEW sy \in Yard, WellStacked(sy), NEW token \in Token,
         token.kind \notin Parentheses,
         NEW new, new = [sy EXCEPT !.rpn = Append(sy.rpn, token)]
  PROVE  /\ new \in Yard
         /\ WellStacked(new)
         /\ new.ok = sy.ok
         /\ Inserted(Line(sy), Len(sy.rpn), token, Line(new))
<1> DEFINE s == sy.rpn
           ops == sy.operators
           one == <<token>>
           more == Append(s, token)
<1>1. s \in Seq(Token) /\ ops \in Seq(Token) /\ sy.ok \in BOOLEAN /\ Len(s) \in Nat
  BY LenProperties DEF Yard
<1>2. new = [rpn |-> more, operators |-> ops, ok |-> sy.ok]
  BY DEF Yard
<1>3. one \in Seq(Token)
  OBVIOUS
<1>4. /\ more \in Seq(Token) /\ more = s \o one
      /\ Len(more) = Len(s) + 1
      /\ \A k \in 1..Len(s) : more[k] = s[k]
      /\ more[Len(s) + 1] = token
  BY <1>1, AppendProperties, AppendIsConcat
<1>5. Inserted(s \o ops, Len(s), token, s \o (one \o ops))
  BY <1>1, ConcatInserted
<1>6. (s \o one) \o ops = s \o (one \o ops)
  BY <1>1, <1>3, ConcatOfThree
<1> HIDE DEF s, ops, one, more
<1>7. new \in Yard /\ new.rpn = more /\ new.operators = ops /\ new.ok = sy.ok
  <2>1. /\ [rpn |-> more, operators |-> ops, ok |-> sy.ok] \in Yard
        /\ [rpn |-> more, operators |-> ops, ok |-> sy.ok].rpn = more
        /\ [rpn |-> more, operators |-> ops, ok |-> sy.ok].operators = ops
        /\ [rpn |-> more, operators |-> ops, ok |-> sy.ok].ok = sy.ok
    BY <1>1, <1>4, YardIs
  <2> QED BY <2>1, <1>2, Zenon
<1>8. WellStacked(new)
  <2>1. DOMAIN more = 1..(Len(s) + 1) /\ DOMAIN s = 1..Len(s)
    BY <1>1, <1>4, LenProperties
  <2>2. ASSUME NEW k \in DOMAIN more PROVE more[k].kind \notin Parentheses
    <3>1. CASE k \in 1..Len(s)
      BY <3>1, <2>1, <1>4 DEF WellStacked, s
    <3>2. CASE k \notin 1..Len(s)
      <4>1. k = Len(s) + 1
        BY <3>2, <2>1, <1>1
      <4> QED BY <4>1, <1>1, <1>4
    <3> QED BY <3>1, <3>2
  <2> QED BY <2>2, <1>7 DEF WellStacked, ops
<1>9. Line(new) = s \o (one \o ops)
  BY <1>4, <1>6, <1>7 DEF Line
<1> QED BY <1>5, <1>7, <1>8, <1>9 DEF Line, s, ops

\* A closing parenthesis takes the nearest open one off the stack, or finds none.
LEMMA Closed ==
  ASSUME NEW sy \in Yard, WellStacked(sy), sy.ok
  PROVE  /\ Close(sy) \in Yard
         /\ WellStacked(Close(sy))
         /\ ~Close(sy).ok => Line(Close(sy)) = Line(sy) /\ Opened(Line(sy)) = {}
         /\ Close(sy).ok =>
              \E n \in 0..Len(Line(Close(sy))), token \in Token :
                /\ token.kind = "("
                /\ Inserted(Line(Close(sy)), n, token, Line(sy))
<1> DEFINE goes == {k \in DOMAIN sy.operators : sy.operators[k].kind # "("}
           p == Popped(sy, goes)
           q == p.operators
           c == Close(sy)
<1>1. PICK n \in 0..Len(sy.operators) :
        /\ p \in Yard
        /\ p.ok = sy.ok
        /\ Len(q) = Len(sy.operators) - n
        /\ \A k \in 1..(Len(sy.operators) - n) : q[k] = sy.operators[n + k]
        /\ n < Len(sy.operators) => n + 1 \notin goes
        /\ Line(p) = Line(sy)
  <2> HIDE DEF goes
  <2>1. PICK n \in 0..Len(sy.operators) :
          /\ Popped(sy, goes) \in Yard
          /\ Popped(sy, goes).ok = sy.ok
          /\ Len(Popped(sy, goes).rpn) = Len(sy.rpn) + n
          /\ Len(Popped(sy, goes).operators) = Len(sy.operators) - n
          /\ \A k \in 1..Len(sy.rpn) : Popped(sy, goes).rpn[k] = sy.rpn[k]
          /\ \A k \in 1..n : Popped(sy, goes).rpn[Len(sy.rpn) + k] = sy.operators[k]
          /\ \A k \in 1..(Len(sy.operators) - n) :
               Popped(sy, goes).operators[k] = sy.operators[n + k]
          /\ \A k \in 1..n : k \in goes
          /\ n < Len(sy.operators) => n + 1 \notin goes
          /\ Line(Popped(sy, goes)) = Line(sy)
    BY PoppedMoves, Zenon
  <2> QED BY <2>1, Zenon
<1>2. WellStacked(p)
  <2>1. \A k \in DOMAIN sy.operators : sy.operators[k].kind = "(" => k \notin goes
    OBVIOUS
  <2> HIDE DEF goes
  <2> QED BY <2>1, PoppedWellStacked
<1> HIDE DEF goes
<1>3. c = IF q = <<>> THEN [p EXCEPT !.ok = FALSE] ELSE [p EXCEPT !.operators = Tail(q)]
  BY DEF Close, goes
<1>4. /\ p.rpn \in Seq(Token) /\ q \in Seq(Token) /\ p.ok = TRUE
      /\ Len(sy.operators) \in Nat /\ DOMAIN sy.operators = 1..Len(sy.operators)
      /\ Len(q) \in Nat /\ DOMAIN q = 1..Len(q) /\ Len(p.rpn) \in Nat /\ n \in Nat
      /\ p = [rpn |-> p.rpn, operators |-> q, ok |-> TRUE]
  <2>1. p.rpn \in Seq(Token) /\ q \in Seq(Token) /\ sy.operators \in Seq(Token) /\ sy.ok \in BOOLEAN
    BY <1>1 DEF Yard
  <2>2. p.ok = TRUE
    BY <1>1, <2>1
  <2>3. p = [rpn |-> p.rpn, operators |-> p.operators, ok |-> p.ok]
    <3> HIDE DEF p
    <3> QED BY <1>1 DEF Yard
  <2> HIDE DEF p
  <2>4. /\ Len(sy.operators) \in Nat /\ DOMAIN sy.operators = 1..Len(sy.operators)
        /\ Len(q) \in Nat /\ DOMAIN q = 1..Len(q) /\ Len(p.rpn) \in Nat
    BY <2>1, LenProperties
  <2> QED BY <2>1, <2>2, <2>3, <2>4
<1>5. q # <<>> => Len(q) > 0 /\ q[1] \in Token /\ q[1].kind = "("
  <2> SUFFICES ASSUME q # <<>> PROVE Len(q) > 0 /\ q[1] \in Token /\ q[1].kind = "("
    OBVIOUS
  <2> HIDE DEF p
  <2>1. Len(q) > 0
    BY <1>4, EmptySeq
  <2>2. q[1] \in Token
    BY <2>1, <1>4, ElementOfSeq
  <2>3. 1 \in 1..(Len(sy.operators) - n) /\ n < Len(sy.operators) /\ n + 1 \in DOMAIN sy.operators
    BY <2>1, <1>1, <1>4
  <2>4. q[1] = sy.operators[n + 1] /\ n + 1 \notin goes
    BY <2>3, <1>1
  <2> QED BY <2>1, <2>2, <2>3, <2>4 DEF goes
<1> HIDE DEF p, c
<1>6. CASE q = <<>>
  <2>1. c = [rpn |-> p.rpn, operators |-> q, ok |-> FALSE]
    BY <1>3, <1>4, <1>6
  <2>2. c \in Yard /\ c.rpn = p.rpn /\ c.operators = q /\ c.ok = FALSE
    <3>1. /\ [rpn |-> p.rpn, operators |-> q, ok |-> FALSE] \in Yard
          /\ [rpn |-> p.rpn, operators |-> q, ok |-> FALSE].rpn = p.rpn
          /\ [rpn |-> p.rpn, operators |-> q, ok |-> FALSE].operators = q
          /\ [rpn |-> p.rpn, operators |-> q, ok |-> FALSE].ok = FALSE
      BY <1>4, YardIs
    <3> QED BY <3>1, <2>1, Zenon
  <2>3. WellStacked(c)
    BY <1>2, <2>2 DEF WellStacked
  <2>4. Line(c) = Line(sy)
    BY <1>1, <2>2 DEF Line
  <2>5. Opened(Line(sy)) = {}
    <3>1. Line(p) = p.rpn
      BY <1>4, <1>6, ConcatEmptySeq DEF Line
    <3>2. \A k \in DOMAIN p.rpn : p.rpn[k].kind # "("
      BY <1>2 DEF WellStacked, Parentheses
    <3> QED BY <3>1, <3>2, <1>1 DEF Opened, Range
  <2> QED BY <2>2, <2>3, <2>4, <2>5 DEF c
<1>7. CASE q # <<>>
  <2> DEFINE u == Tail(q)
             t == q[1]
  <2>1. c = [rpn |-> p.rpn, operators |-> u, ok |-> TRUE]
    BY <1>3, <1>4, <1>7
  <2>2. /\ u \in Seq(Token) /\ Len(u) = Len(q) - 1
        /\ \A k \in 1..Len(u) : u[k] = q[k + 1]
    BY <1>4, <1>7, HeadTailProperties
  <2>3. t \in Token /\ t.kind = "(" /\ Len(q) > 0
    BY <1>5, <1>7
  <2> HIDE DEF u
  <2>4. c \in Yard /\ c.rpn = p.rpn /\ c.operators = u /\ c.ok = TRUE
    <3>1. /\ [rpn |-> p.rpn, operators |-> u, ok |-> TRUE] \in Yard
          /\ [rpn |-> p.rpn, operators |-> u, ok |-> TRUE].rpn = p.rpn
          /\ [rpn |-> p.rpn, operators |-> u, ok |-> TRUE].operators = u
          /\ [rpn |-> p.rpn, operators |-> u, ok |-> TRUE].ok = TRUE
      BY <1>4, <2>2, YardIs
    <3> QED BY <3>1, <2>1, Zenon
  <2>5. \A k \in DOMAIN u : k + 1 \in DOMAIN q /\ u[k] = q[k + 1]
    <3>1. DOMAIN u = 1..Len(u)
      BY <2>2, LenProperties
    <3> QED BY <3>1, <2>2, <2>3, <1>4
  <2>6. WellStacked(c)
    <3>1. \A k \in DOMAIN u : u[k].kind \in Operators \cup {"("}
      BY <2>5, <1>2 DEF WellStacked
    <3>2. ASSUME NEW k \in DOMAIN u, NEW l \in DOMAIN u,
                 k < l, \A m \in k..l : u[m].kind # "("
          PROVE  ~GoesBefore(u[k], u[l])
      <4>1. k \in Nat /\ l \in Nat /\ DOMAIN u = 1..Len(u) /\ Len(u) \in Nat
        BY <2>2, LenProperties
      <4>2. k + 1 < l + 1 /\ k + 1 \in DOMAIN q /\ l + 1 \in DOMAIN q
        BY <3>2, <4>1, <2>5
      <4>3. ASSUME NEW m \in (k + 1)..(l + 1) PROVE q[m].kind # "("
        <5> DEFINE i == m - 1
        <5>1. i \in k..l /\ i \in DOMAIN u /\ i + 1 = m
          BY <4>1
        <5> HIDE DEF i
        <5> QED BY <5>1, <2>5, <3>2
      <4>4. ~GoesBefore(q[k + 1], q[l + 1])
        BY <4>2, <4>3, <1>2 DEF WellStacked
      <4> QED BY <4>4, <2>5
    <3> QED BY <3>1, <3>2, <1>2, <2>4 DEF WellStacked
  <2>7. <<t>> \o u = q
    <3> DEFINE one == <<t>>
    <3>1. one \in Seq(Token) /\ Len(one) = 1 /\ one[1] = t
      BY <2>3
    <3> HIDE DEF one
    <3>2. /\ one \o u \in Seq(Token)
          /\ Len(one \o u) = Len(one) + Len(u)
          /\ \A k \in 1..(Len(one) + Len(u)) :
               (one \o u)[k] = IF k <= Len(one) THEN one[k] ELSE u[k - Len(one)]
      <4>1. one \in Seq(Token) /\ u \in Seq(Token)
        BY <3>1, <2>2
      <4> QED BY <4>1, ConcatProperties
    <3>3. Len(one \o u) = Len(q)
      BY <3>1, <3>2, <2>2, <1>4
    <3>4. \A k \in 1..Len(one \o u) : (one \o u)[k] = q[k]
      <4> TAKE k \in 1..Len(one \o u)
      <4>1. (one \o u)[k] = IF k <= 1 THEN one[k] ELSE u[k - 1]
        BY <3>1, <3>2
      <4>2. CASE k <= 1
        <5>1. k = 1
          BY <4>2, <3>3, <1>4
        <5> QED BY <4>1, <5>1, <3>1
      <4>3. CASE ~(k <= 1)
        <5>1. k - 1 \in 1..Len(u) /\ (k - 1) + 1 = k
          BY <4>3, <3>3, <2>2, <1>4
        <5>2. u[k - 1] = q[(k - 1) + 1]
          BY <5>1, <2>2
        <5> QED BY <4>1, <4>3, <5>1, <5>2
      <4> QED BY <4>2, <4>3
    <3>5. one \o u = q
      BY <3>2, <3>3, <3>4, <1>4, SeqEqual
    <3> QED BY <3>5 DEF one
  <2>8. Inserted(p.rpn \o u, Len(p.rpn), t, p.rpn \o (<<t>> \o u))
    <3> HIDE DEF t
    <3> QED BY <1>4, <2>2, <2>3, ConcatInserted
  <2>9. Line(c) = p.rpn \o u /\ Line(sy) = p.rpn \o (<<t>> \o u)
    BY <2>4, <2>7, <1>1 DEF Line
  <2>10. Len(p.rpn) \in 0..Len(Line(c))
    <3>1. Len(p.rpn \o u) = Len(p.rpn) + Len(u) /\ Len(u) \in Nat
      BY <1>4, <2>2, ConcatProperties, LenProperties
    <3> QED BY <3>1, <2>9, <1>4
  <2> HIDE DEF t
  <2> QED BY <2>3, <2>4, <2>6, <2>8, <2>9, <2>10 DEF c
<1> QED BY <1>6, <1>7 DEF c

\* PushToken puts the token in at the border, or closes a parenthesis.
LEMMA PushTokenMoves ==
  ASSUME NEW sy \in Yard, WellStacked(sy), sy.ok, NEW token \in Token
  PROVE  /\ PushToken(sy, token) \in Yard
         /\ WellStacked(PushToken(sy, token))
         /\ token.kind = ")" => PushToken(sy, token) = Close(sy)
         /\ token.kind # ")" =>
              /\ PushToken(sy, token).ok
              /\ \E n \in 0..Len(Line(sy)) :
                   /\ Inserted(Line(sy), n, token, Line(PushToken(sy, token)))
                   /\ token.kind = "number" => n = Len(sy.rpn)
<1> DEFINE new == PushToken(sy, token)
<1>1. /\ sy.rpn \in Seq(Token) /\ sy.operators \in Seq(Token)
      /\ Len(sy.rpn) \in Nat /\ Len(sy.operators) \in Nat
      /\ Len(Line(sy)) = Len(sy.rpn) + Len(sy.operators)
  <2>1. sy.rpn \in Seq(Token) /\ sy.operators \in Seq(Token)
    BY DEF Yard
  <2> QED BY <2>1, LenProperties, ConcatProperties DEF Line
<1>2. Len(sy.rpn) \in 0..Len(Line(sy))
  <2>1. \A a, b \in Nat : a \in 0..(a + b)
    OBVIOUS
  <2> QED BY <1>1, <2>1, Zenon
<1>3. CASE token.kind = "("
  <2>1. new = [sy EXCEPT !.operators = <<token>> \o sy.operators]
    BY <1>3 DEF PushToken
  <2>2. token.kind \notin Operators /\ token.kind # "number"
    BY <1>3, Precedences DEF Parentheses
  <2> HIDE DEF new
  <2>3. /\ new \in Yard /\ WellStacked(new) /\ new.ok = sy.ok
        /\ Inserted(Line(sy), Len(sy.rpn), token, Line(new))
    BY <1>3, <2>1, <2>2, StackedWell
  <2> QED BY <1>2, <1>3, <2>2, <2>3 DEF new
<1>4. CASE token.kind = ")"
  <2>1. new = Close(sy)
    BY <1>4 DEF PushToken
  <2>2. Close(sy) \in Yard /\ WellStacked(Close(sy))
    BY Closed
  <2> QED BY <1>4, <2>1, <2>2
<1>5. CASE token.kind \in {"number", "junk"}
  <2>1. new = [sy EXCEPT !.rpn = Append(sy.rpn, token)]
    BY <1>5 DEF PushToken
  <2>2. token.kind \notin Parentheses
    BY <1>5 DEF Parentheses
  <2> HIDE DEF new
  <2>3. /\ new \in Yard /\ WellStacked(new) /\ new.ok = sy.ok
        /\ Inserted(Line(sy), Len(sy.rpn), token, Line(new))
    BY <2>1, <2>2, Appended
  <2>4. token.kind # ")"
    BY <2>2 DEF Parentheses
  <2> QED BY <1>2, <2>3, <2>4 DEF new
<1>6. CASE token.kind \in Operators
  <2> DEFINE goes == {k \in DOMAIN sy.operators : GoesBefore(token, sy.operators[k])}
             p == Popped(sy, goes)
  <2>1. token.kind \notin Parentheses \cup {"number", "junk"}
    BY <1>6, Precedences
  <2>2. new = [p EXCEPT !.operators = <<token>> \o p.operators]
    BY <2>1 DEF PushToken, Parentheses
  <2>3. \A k \in DOMAIN sy.operators : sy.operators[k] \in Token
    BY <1>1, LenProperties, ElementOfSeq
  <2>4. \A k \in DOMAIN sy.operators : sy.operators[k].kind = "(" => k \notin goes
    BY <1>6, <2>3, ParenthesisStays
  <2> HIDE DEF goes
  <2>5. WellStacked(p)
    BY <2>4, PoppedWellStacked
  <2>6. PICK n \in 0..Len(sy.operators) :
          /\ p \in Yard
          /\ p.ok = sy.ok
          /\ Len(p.rpn) = Len(sy.rpn) + n
          /\ Len(p.operators) = Len(sy.operators) - n
          /\ \A k \in 1..Len(sy.rpn) : p.rpn[k] = sy.rpn[k]
          /\ \A k \in 1..n : p.rpn[Len(sy.rpn) + k] = sy.operators[k]
          /\ \A k \in 1..(Len(sy.operators) - n) : p.operators[k] = sy.operators[n + k]
          /\ \A k \in 1..n : k \in goes
          /\ n < Len(sy.operators) => n + 1 \notin goes
          /\ Line(p) = Line(sy)
    BY PoppedMoves, Zenon
  <2> HIDE DEF p, new
  <2>7. Len(p.operators) > 0 => ~GoesBefore(token, p.operators[1])
    <3> SUFFICES ASSUME Len(p.operators) > 0 PROVE ~GoesBefore(token, p.operators[1])
      OBVIOUS
    <3>1. 1 \in 1..(Len(sy.operators) - n) /\ n < Len(sy.operators) /\ n + 1 \in 1..Len(sy.operators)
      BY <1>1, <2>6
    <3>2. DOMAIN sy.operators = 1..Len(sy.operators)
      BY <1>1, LenProperties
    <3>3. p.operators[1] = sy.operators[n + 1] /\ n + 1 \notin goes /\ n + 1 \in DOMAIN sy.operators
      BY <3>1, <3>2, <2>6
    <3> QED BY <3>3 DEF goes
  <2>8. /\ new \in Yard /\ WellStacked(new) /\ new.ok = p.ok
        /\ Inserted(Line(p), Len(p.rpn), token, Line(new))
    BY <1>6, <2>2, <2>5, <2>6, <2>7, StackedWell
  <2>9. Len(p.rpn) \in 0..Len(Line(sy))
    <3>1. \A a, b \in Nat : \A c \in 0..b : a + c \in 0..(a + b)
      OBVIOUS
    <3>2. Len(sy.rpn) + n \in 0..(Len(sy.rpn) + Len(sy.operators))
      BY <1>1, <3>1, Zenon
    <3> QED BY <1>1, <2>6, <3>2, Zenon
  <2>10. token.kind # ")" /\ token.kind # "number"
    BY <2>1 DEF Parentheses
  <2> QED BY <2>6, <2>8, <2>9, <2>10 DEF new
<1>7. token.kind \in Operators \cup {"number", "junk", "(", ")"}
  BY DEF Token, Kinds
<1> QED BY <1>3, <1>4, <1>5, <1>6, <1>7

-----------------------------------------------------------------------------
LEMMA DepthOfAppend ==
  ASSUME NEW tokens \in Seq(Token), NEW token \in Token
  PROVE  /\ Depth(tokens, 1, Len(tokens)) \in Int
         /\ Depth(Append(tokens, token), 1, Len(Append(tokens, token))) =
              Depth(tokens, 1, Len(tokens)) +
                (IF token.kind = "(" THEN 1 ELSE IF token.kind = ")" THEN -1 ELSE 0)
<1> DEFINE n == Len(tokens)
           more == Append(tokens, token)
           Old(kind) == {l \in 1..n : tokens[l].kind = kind}
           New(kind) == {l \in 1..(n + 1) : more[l].kind = kind}
<1>1. /\ n \in Nat /\ Len(more) = n + 1
      /\ \A l \in 1..n : more[l] = tokens[l]
      /\ more[n + 1] = token
  BY LenProperties, AppendProperties
<1> HIDE DEF n, more
<1>2. \A kind : /\ New(kind) = Old(kind) \cup (IF token.kind = kind THEN {n + 1} ELSE {})
                /\ n + 1 \notin Old(kind)
  BY <1>1
<1>3. \A kind : IsFiniteSet(Old(kind)) /\ Cardinality(Old(kind)) \in Nat
  <2> TAKE kind
  <2>1. IsFiniteSet(1..n) /\ Old(kind) \subseteq 1..n
    BY <1>1, FS_Interval
  <2> HIDE DEF Old
  <2> QED BY <2>1, FS_Subset, FS_CardinalityType
<1> HIDE DEF Old, New
<1>4. \A kind : Cardinality(New(kind)) =
                  Cardinality(Old(kind)) + (IF token.kind = kind THEN 1 ELSE 0)
  <2> TAKE kind
  <2>1. CASE token.kind = kind
    <3>1. New(kind) = Old(kind) \cup {n + 1}
      BY <1>2, <2>1
    <3>2. Cardinality(Old(kind) \cup {n + 1}) = Cardinality(Old(kind)) + 1
      BY <1>2, <1>3, FS_AddElement
    <3> QED BY <2>1, <3>1, <3>2
  <2>2. CASE token.kind # kind
    <3>1. New(kind) = Old(kind)
      BY <1>2, <2>2
    <3> QED BY <1>3, <2>2, <3>1
  <2> QED BY <2>1, <2>2
<1>5. Depth(tokens, 1, n) = Cardinality(Old("(")) - Cardinality(Old(")"))
  BY DEF Depth, Old
<1>6. Depth(more, 1, n + 1) = Cardinality(New("(")) - Cardinality(New(")"))
  BY DEF Depth, New
<1>7. /\ Cardinality(New("(")) = Cardinality(Old("(")) + (IF token.kind = "(" THEN 1 ELSE 0)
      /\ Cardinality(New(")")) = Cardinality(Old(")")) + (IF token.kind = ")" THEN 1 ELSE 0)
      /\ Cardinality(Old("(")) \in Nat /\ Cardinality(Old(")")) \in Nat
  BY <1>3, <1>4
<1>8. Depth(more, 1, Len(more)) = Depth(more, 1, n + 1)
  BY <1>1
<1>9. Depth(tokens, 1, n) \in Int
  BY <1>5, <1>7
<1>10. Depth(more, 1, n + 1) = Depth(tokens, 1, n) +
         (IF token.kind = "(" THEN 1 ELSE IF token.kind = ")" THEN -1 ELSE 0)
  BY <1>5, <1>6, <1>7
<1> QED BY <1>8, <1>9, <1>10 DEF n, more

LEMMA OpenedIsFinite ==
  ASSUME NEW line \in Seq(Token)
  PROVE  IsFiniteSet(Opened(line)) /\ Cardinality(Opened(line)) \in Nat
<1>1. DOMAIN line = 1..Len(line) /\ Len(line) \in Nat /\ line \in [1..Len(line) -> Token]
  BY LenProperties
<1>2. IsFiniteSet(1..Len(line))
  BY <1>1, FS_Interval
<1>3. IsFiniteSet(Range(line))
  <2>1. line \in Surjection(1..Len(line), Range(line))
    BY <1>1 DEF Surjection, Range
  <2> QED BY <1>2, <2>1, FS_Surjection
<1>4. Opened(line) \subseteq Range(line)
  BY DEF Opened
<1> QED BY <1>3, <1>4, FS_Subset, FS_CardinalityType

LEMMA InitYardInv == YardInit => YardInv
<1> SUFFICES ASSUME YardInit PROVE YardInv OBVIOUS
<1>1. yard = Empty /\ given = <<>>
  BY DEF YardInit
<1>2. YardTypeOK
  BY <1>1 DEF YardTypeOK, Yard, Empty
<1>3. Line(yard) = <<>>
  BY <1>1 DEF Line, Empty
<1>4. Range(<<>>) = {}
  BY DEF Range
<1>5. WellStacked(yard)
  BY <1>1 DEF WellStacked, Empty
<1>6. EachOnce(Line(yard)) /\ NumbersInOrder(Line(yard))
  BY <1>3 DEF EachOnce, NumbersInOrder
<1>7. Proper(Line(yard)) = Proper(given) /\ Range(Line(yard)) \subseteq Range(given)
  BY <1>1, <1>3, Zenon
<1>8. Depth(given, 1, Len(given)) = 0
  <2>1. Len(given) = 0 /\ 1..0 = {}
    BY <1>1
  <2>2. {l \in 1..0 : given[l].kind = "("} = {} /\ {l \in 1..0 : given[l].kind = ")"} = {}
    BY <2>1
  <2> QED BY <2>1, <2>2, FS_EmptySet DEF Depth
<1>9. Opened(Line(yard)) = {} /\ yard.ok = TRUE
  BY <1>1, <1>3, <1>4 DEF Opened, Empty
<1>10. Depth(given, 1, Len(given)) = IF yard.ok THEN Cardinality(Opened(Line(yard))) ELSE -1
  BY <1>8, <1>9, FS_EmptySet
<1> QED BY <1>2, <1>5, <1>6, <1>7, <1>10 DEF YardInv

LEMMA PushKeeps ==
  ASSUME YardInv, NEW kind \in Kinds, Push(kind)
  PROVE  YardInv'
<1> DEFINE n == Len(given)
           token == [kind |-> kind, at |-> n + 1]
           line == Line(yard)
           new == PushToken(yard, token)
           more == Append(given, token)
<1>1. /\ yard \in Yard /\ given \in Seq(Token) /\ n \in Nat /\ DOMAIN given = 1..n
      /\ \A k \in 1..n : given[k].at = k
      /\ WellStacked(yard) /\ EachOnce(line) /\ NumbersInOrder(line)
      /\ Range(line) \subseteq Range(given) /\ Proper(line) = Proper(given)
      /\ yard.ok
  BY LenProperties DEF YardInv, YardTypeOK, Push
<1>2. yard' = new /\ given' = more
  BY DEF Push
<1>3. token \in Token /\ token.kind = kind /\ token.at = n + 1
  BY <1>1 DEF Token
<1>4. Depth(given, 1, n) = Cardinality(Opened(line))
  BY <1>1 DEF YardInv
<1> HIDE DEF n, token, line, new, more
<1>5. /\ more \in Seq(Token) /\ Len(more) = n + 1 /\ DOMAIN more = 1..(n + 1)
      /\ \A k \in 1..n : more[k] = given[k]
      /\ more[n + 1] = token
  BY <1>1, <1>3, AppendProperties, LenProperties DEF n, more
<1>6. Range(more) = Range(given) \cup {token}
  <2>1. ASSUME NEW t \in Range(more) PROVE t \in Range(given) \cup {token}
    <3>1. PICK k \in 1..(n + 1) : t = more[k]
      BY <2>1, <1>5 DEF Range
    <3>2. k \in 1..n \/ k = n + 1
      BY <1>1
    <3> QED BY <3>1, <3>2, <1>1, <1>5 DEF Range
  <2>2. ASSUME NEW t \in Range(given) PROVE t \in Range(more)
    <3>1. PICK k \in 1..n : t = given[k]
      BY <2>2, <1>1 DEF Range
    <3>2. k \in 1..(n + 1)
      BY <1>1
    <3> QED BY <3>1, <3>2, <1>5 DEF Range
  <2>3. token \in Range(more)
    <3>1. n + 1 \in 1..(n + 1)
      BY <1>1
    <3> QED BY <3>1, <1>5 DEF Range
  <2> QED BY <2>1, <2>2, <2>3
<1>7. \A k \in 1..(n + 1) : more[k].at = k
  <2> TAKE k \in 1..(n + 1)
  <2>1. k \in 1..n \/ k = n + 1
    BY <1>1
  <2> QED BY <2>1, <1>1, <1>3, <1>5
<1>8. line \in Seq(Token) /\ Len(line) = Len(yard.rpn) + Len(yard.operators)
      /\ DOMAIN line = 1..Len(line) /\ Len(yard.rpn) \in Nat /\ Len(yard.operators) \in Nat
      /\ DOMAIN yard.operators = 1..Len(yard.operators)
      /\ \A k \in 1..Len(line) :
           line[k] = IF k <= Len(yard.rpn) THEN yard.rpn[k] ELSE yard.operators[k - Len(yard.rpn)]
  <2>1. yard.rpn \in Seq(Token) /\ yard.operators \in Seq(Token)
    BY <1>1 DEF Yard
  <2>2. /\ Len(yard.rpn) \in Nat /\ Len(yard.operators) \in Nat
        /\ DOMAIN yard.operators = 1..Len(yard.operators)
    BY <2>1, LenProperties
  <2>3. line = yard.rpn \o yard.operators
    BY DEF Line, line
  <2>4. /\ line \in Seq(Token) /\ Len(line) = Len(yard.rpn) + Len(yard.operators)
        /\ \A k \in 1..(Len(yard.rpn) + Len(yard.operators)) :
             line[k] = IF k <= Len(yard.rpn) THEN yard.rpn[k]
                       ELSE yard.operators[k - Len(yard.rpn)]
    BY <2>1, <2>3, ConcatProperties
  <2>5. DOMAIN line = 1..Len(line)
    BY <2>4, LenProperties
  <2> QED BY <2>2, <2>4, <2>5
<1>9. \A t \in Range(given) : t.at \in 1..n
  BY <1>1 DEF Range
<1>10. \A k \in DOMAIN line : line[k].at \in 1..n
  BY <1>1, <1>9 DEF Range
<1>11. new \in Yard /\ WellStacked(new)
  BY <1>1, <1>3, PushTokenMoves DEF new
<1>12. YardTypeOK'
  BY <1>2, <1>5, <1>7, <1>11 DEF YardTypeOK
<1>13. Line(new) \in Seq(Token)
  <2>1. new.rpn \in Seq(Token) /\ new.operators \in Seq(Token)
    BY <1>11 DEF Yard
  <2> QED BY <2>1, ConcatProperties DEF Line
<1>14. /\ Depth(given, 1, n) \in Int
       /\ Depth(more, 1, Len(more)) =
            Depth(given, 1, n) + (IF kind = "(" THEN 1 ELSE IF kind = ")" THEN -1 ELSE 0)
  BY <1>1, <1>3, DepthOfAppend DEF n, more
<1>15. IsFiniteSet(Opened(line)) /\ Cardinality(Opened(line)) \in Nat
  BY <1>8, OpenedIsFinite
<1>16. CASE kind # ")"
  <2>1. PICK i \in 0..Len(line) :
          Inserted(line, i, token, Line(new)) /\ (kind = "number" => i = Len(yard.rpn))
    BY <1>1, <1>3, <1>16, PushTokenMoves DEF new, line
  <2>2. new.ok
    BY <1>1, <1>3, <1>16, PushTokenMoves DEF new
  <2>3. \A k \in DOMAIN line : line[k].at # token.at /\ line[k].at < token.at
    BY <1>1, <1>3, <1>10
  <2>4. kind = "number" => \A k \in (i + 1)..Len(line) : line[k].kind # "number"
    <3> SUFFICES ASSUME kind = "number", NEW k \in (i + 1)..Len(line)
                 PROVE  line[k].kind # "number"
      OBVIOUS
    <3>1. k \in 1..Len(line) /\ ~(k <= Len(yard.rpn)) /\ k - Len(yard.rpn) \in DOMAIN yard.operators
      <4>1. \A a, b \in Nat : \A j \in (a + 1)..(a + b) :
              j \in 1..(a + b) /\ ~(j <= a) /\ j - a \in 1..b
        OBVIOUS
      <4>2. k \in (Len(yard.rpn) + 1)..(Len(yard.rpn) + Len(yard.operators))
        BY <1>8, <2>1, Zenon
      <4> QED BY <4>1, <4>2, <1>8, Zenon
    <3>2. line[k].kind \in Operators \cup {"("}
      BY <3>1, <1>1, <1>8 DEF WellStacked
    <3> QED BY <3>2, OperatorsAssumption DEF AllOperators
  <2>5. kind = "number" => \A k \in 1..i : line[k].kind = "number" => line[k].at < token.at
    <3>1. \A m \in Nat : \A j \in 0..m : 1..j \subseteq 1..m
      OBVIOUS
    <3>2. Len(line) \in Nat
      BY <1>8, LenProperties
    <3>3. 1..i \subseteq DOMAIN line
      BY <1>8, <2>1, <3>1, <3>2, Zenon
    <3> QED BY <2>3, <3>3
  <2>6. /\ Range(Line(new)) = Range(line) \cup {token}
        /\ EachOnce(Line(new))
        /\ NumbersInOrder(Line(new))
    <3>1. line \in Seq(Token) /\ Line(new) \in Seq(Token) /\ token \in Token
      BY <1>3, <1>8, <1>13
    <3>2. Inserted(line, i, token, Line(new))
      BY <2>1
    <3>3. Range(Line(new)) = Range(line) \cup {token}
      BY <3>1, <3>2, InsertedKeeps, Zenon
    <3>4. EachOnce(Line(new))
      <4>1. EachOnce(line) /\ \A k \in DOMAIN line : line[k].at # token.at
        BY <1>1, <2>3
      <4> DEFINE after == Line(new)
      <4>2. after \in Seq(Token) /\ Inserted(line, i, token, after)
        BY <3>1, <3>2
      <4> HIDE DEF after
      <4>3. EachOnce(after)
        BY <4>1, <4>2, <3>1, InsertedKeeps, SMTT(20)
      <4> QED BY <4>3 DEF after
    <3>5. NumbersInOrder(Line(new))
      <4>1. /\ NumbersInOrder(line)
            /\ token.kind = "number" =>
                 /\ \A k \in 1..i : line[k].kind = "number" => line[k].at < token.at
                 /\ \A k \in (i + 1)..Len(line) : line[k].kind # "number"
        BY <1>1, <1>3, <2>4, <2>5
      <4> QED BY <4>1, <3>1, <3>2, InsertedKeeps, Zenon
    <3> QED BY <3>3, <3>4, <3>5
  <2>7. Proper(Line(new)) = Proper(more) /\ Range(Line(new)) \subseteq Range(more)
    BY <1>1, <1>6, <2>6 DEF Proper
  <2>8. Depth(more, 1, Len(more)) = Cardinality(Opened(Line(new)))
    <3>1. CASE kind = "("
      <4>1. Opened(Line(new)) = Opened(line) \cup {token}
        BY <3>1, <1>3, <2>6 DEF Opened
      <4>2. token \notin Opened(line)
        BY <1>1, <1>3, <1>9 DEF Opened
      <4>3. Cardinality(Opened(line) \cup {token}) = Cardinality(Opened(line)) + 1
        BY <4>2, <1>15, FS_AddElement
      <4> QED BY <4>1, <4>3, <3>1, <1>4, <1>14
    <3>2. CASE kind # "("
      <4>1. Opened(Line(new)) = Opened(line)
        BY <3>2, <1>3, <2>6 DEF Opened
      <4> QED BY <4>1, <3>2, <1>4, <1>14, <1>16
    <3> QED BY <3>1, <3>2
  <2> QED BY <1>2, <1>11, <1>12, <2>2, <2>6, <2>7, <2>8 DEF YardInv
<1>17. CASE kind = ")"
  <2>1. new = Close(yard)
    BY <1>1, <1>3, <1>17, PushTokenMoves DEF new
  <2>2. Proper(more) = Proper(given)
    BY <1>3, <1>6, <1>17 DEF Proper, Parentheses
  <2>3. CASE ~new.ok
    <3>1. Line(new) = line /\ Opened(line) = {}
      BY <1>1, <2>1, <2>3, Closed DEF line
    <3>2. Depth(more, 1, Len(more)) = -1
      BY <3>1, <1>4, <1>14, <1>17, FS_EmptySet
    <3>3. Range(line) \subseteq Range(more)
      BY <1>1, <1>6
    <3> QED BY <1>1, <1>2, <1>11, <1>12, <2>2, <2>3, <3>1, <3>2, <3>3 DEF YardInv
  <2>4. CASE new.ok
    <3>1. PICK i \in 0..Len(Line(new)), t \in Token :
            t.kind = "(" /\ Inserted(Line(new), i, t, line)
      BY <1>1, <2>1, <2>4, Closed DEF line
    <3>2. /\ Range(line) = Range(Line(new)) \cup {t} /\ t \notin Range(Line(new))
          /\ EachOnce(Line(new)) /\ NumbersInOrder(Line(new))
      BY <1>1, <1>8, <1>13, <3>1, InsertedKeeps
    <3>3. Proper(Line(new)) = Proper(line) /\ Range(Line(new)) \subseteq Range(more)
      BY <1>1, <1>6, <3>1, <3>2 DEF Proper, Parentheses
    <3>4. Opened(Line(new)) = Opened(line) \ {t} /\ t \in Opened(line)
      BY <3>1, <3>2 DEF Opened
    <3>5. Cardinality(Opened(line) \ {t}) = Cardinality(Opened(line)) - 1
      BY <3>4, <1>15, FS_RemoveElement
    <3>6. Depth(more, 1, Len(more)) = Cardinality(Opened(Line(new)))
      BY <3>4, <3>5, <1>4, <1>14, <1>15, <1>17
    <3> QED BY <1>1, <1>2, <1>11, <1>12, <2>2, <2>4, <3>2, <3>3, <3>6 DEF YardInv
  <2> QED BY <2>3, <2>4
<1> QED BY <1>16, <1>17

\* What Finalize makes of it.
YardFinishes ==
  LET final == Finalize(yard)
  IN /\ final.ok => /\ Proper(final.rpn) = Proper(given)
                    /\ EachOnce(final.rpn)
                    /\ NumbersInOrder(final.rpn)
     /\ yard.ok /\ Depth(given, 1, Len(given)) = 0 =>
          final.ok /\ Range(final.rpn) = Proper(given)

LEMMA Finished == YardInv => YardFinishes
<1> SUFFICES ASSUME YardInv PROVE YardFinishes OBVIOUS
<1> DEFINE final == Finalize(yard)
           line == Line(yard)
<1>1. /\ yard \in Yard /\ yard.rpn \in Seq(Token) /\ yard.operators \in Seq(Token)
      /\ line \in Seq(Token) /\ WellStacked(yard)
      /\ Proper(line) = Proper(given) /\ EachOnce(line) /\ NumbersInOrder(line)
      /\ Range(line) \subseteq Range(given)
  <2>1. yard \in Yard /\ yard.rpn \in Seq(Token) /\ yard.operators \in Seq(Token)
    BY DEF YardInv, YardTypeOK, Yard
  <2>2. line \in Seq(Token)
    BY <2>1, ConcatProperties DEF Line
  <2> QED BY <2>1, <2>2 DEF YardInv
<1>2. CASE yard.operators # <<>> /\ Last(yard.operators).kind = "("
  <2>1. final = [yard EXCEPT !.ok = FALSE]
    BY <1>2 DEF Finalize
  <2>2. ~final.ok
    BY <2>1, <1>1 DEF Yard
  <2>3. yard.ok => Depth(given, 1, Len(given)) # 0
    <3> SUFFICES ASSUME yard.ok PROVE Cardinality(Opened(line)) # 0
      BY DEF YardInv
    <3> DEFINE t == Last(yard.operators)
    <3>1. Len(yard.operators) \in 1..Len(yard.operators) /\ t = yard.operators[Len(yard.operators)]
      BY <1>1, <1>2, EmptySeq DEF Last
    <3>2. PICK a \in Nat, b \in Nat : a = Len(yard.rpn) /\ b = Len(yard.operators)
      BY <1>1, LenProperties
    <3> DEFINE i == a + b
    <3>3. i \in 1..i /\ ~(i <= a) /\ i - a = b
      <4>1. b \in 1..b
        BY <3>1, <3>2
      <4>2. \A c, d \in Nat : d \in 1..d =>
              c + d \in 1..(c + d) /\ ~(c + d <= c) /\ (c + d) - c = d
        OBVIOUS
      <4>3. a \in Nat /\ b \in Nat
        BY <3>2
      <4> QED BY <4>1, <4>2, <4>3
    <3>4. /\ Len(line) = i
          /\ \A k \in 1..i : line[k] = IF k <= a THEN yard.rpn[k] ELSE yard.operators[k - a]
      <4>1. line = yard.rpn \o yard.operators
        BY DEF Line
      <4> HIDE DEF line
      <4>a. yard.rpn \in Seq(Token) /\ yard.operators \in Seq(Token)
        BY <1>1
      <4>2. /\ Len(line) = Len(yard.rpn) + Len(yard.operators)
            /\ \A k \in 1..(Len(yard.rpn) + Len(yard.operators)) :
                 line[k] = IF k <= Len(yard.rpn) THEN yard.rpn[k]
                           ELSE yard.operators[k - Len(yard.rpn)]
        BY <4>1, <4>a, ConcatProperties
      <4> QED BY <3>2, <4>2
    <3> HIDE DEF i, t
    <3>5. line[i] = t
      BY <3>1, <3>2, <3>3, <3>4
    <3>6. i \in DOMAIN line
      BY <1>1, <3>3, <3>4, LenProperties
    <3>7. t \in Opened(line)
      BY <1>2, <3>5, <3>6 DEF Opened, Range, t
    <3>8. IsFiniteSet(Opened(line))
      BY <1>1, OpenedIsFinite
    <3> QED BY <3>7, <3>8, FS_EmptySet
  <2> HIDE DEF final
  <2> QED BY <2>2, <2>3 DEF YardFinishes, final
<1>3. CASE ~(yard.operators # <<>> /\ Last(yard.operators).kind = "(")
  <2>1. final = [yard EXCEPT !.rpn = yard.rpn \o yard.operators, !.operators = <<>>]
    BY <1>3 DEF Finalize
  <2>2. final.rpn = line /\ final.ok = yard.ok
    BY <2>1, <1>1 DEF Yard, Line
  <2>3. ASSUME yard.ok, Depth(given, 1, Len(given)) = 0
        PROVE  Range(line) = Proper(given)
    <3>1. Cardinality(Opened(line)) = 0
      BY <2>3 DEF YardInv
    <3>2. Opened(line) = {}
      BY <1>1, <3>1, OpenedIsFinite, FS_EmptySet
    <3>3. ASSUME NEW k \in DOMAIN line PROVE line[k].kind \notin Parentheses
      <4>1. line[k].kind # "("
        BY <3>2 DEF Opened, Range
      <4>2. /\ Len(yard.rpn) \in Nat /\ Len(yard.operators) \in Nat
            /\ DOMAIN yard.rpn = 1..Len(yard.rpn)
            /\ DOMAIN yard.operators = 1..Len(yard.operators)
            /\ DOMAIN line = 1..(Len(yard.rpn) + Len(yard.operators))
            /\ line[k] = IF k <= Len(yard.rpn) THEN yard.rpn[k]
                         ELSE yard.operators[k - Len(yard.rpn)]
        BY <1>1, ConcatProperties, LenProperties DEF Line
      <4>3. CASE k <= Len(yard.rpn)
        <5>1. k \in DOMAIN yard.rpn
          BY <4>2, <4>3
        <5> QED BY <5>1, <4>2, <4>3, <1>1 DEF WellStacked
      <4>4. CASE ~(k <= Len(yard.rpn))
        <5>1. k - Len(yard.rpn) \in DOMAIN yard.operators
          <6>1. \A a, b \in Nat : \A j \in 1..(a + b) : ~(j <= a) => j - a \in 1..b
            OBVIOUS
          <6> QED BY <6>1, <4>2, <4>4, Zenon
        <5>2. line[k].kind \in Operators \cup {"("}
          BY <5>1, <4>2, <4>4, <1>1 DEF WellStacked
        <5> QED BY <5>2, <4>1, OperatorsAssumption DEF AllOperators, Parentheses
      <4> QED BY <4>3, <4>4
    <3>4. Proper(line) = Range(line)
      BY <3>3 DEF Proper, Range
    <3> QED BY <3>4, <1>1
  <2> HIDE DEF final, line
  <2> QED BY <2>2, <2>3, <1>1 DEF YardFinishes, final
<1> QED BY <1>2, <1>3

-----------------------------------------------------------------------------
\* The yard keeps what it has been given: no number and no operator is lost or
\* doubled, the numbers stay in the order of the text, and no operator waits under
\* one of lower precedence, or of the same if it is applied from the left
\* (ShuntingYard::PushToken).
THEOREM YardInvariance == YardSpec => []YardInv
<1>1. YardInv /\ [YardNext]_<<yard, given>> => YardInv'
  <2> SUFFICES ASSUME YardInv, [YardNext]_<<yard, given>> PROVE YardInv'
    OBVIOUS
  <2>1. CASE YardNext
    BY <2>1, PushKeeps DEF YardNext
  <2>2. CASE UNCHANGED <<yard, given>>
    BY <2>2 DEF YardInv, YardTypeOK
  <2> QED BY <2>1, <2>2
<1> QED BY InitYardInv, <1>1, PTL DEF YardSpec

\* PushToken refuses a token where, and only where, more parentheses have been
\* closed than opened.
THEOREM RefusedIsUnbalanced == YardSpec => [](yard.ok <=> Depth(given, 1, Len(given)) >= 0)
<1>1. YardInv => (yard.ok <=> Depth(given, 1, Len(given)) >= 0)
  <2> SUFFICES ASSUME YardInv PROVE yard.ok <=> Depth(given, 1, Len(given)) >= 0
    OBVIOUS
  <2>1. Depth(given, 1, Len(given)) = IF yard.ok THEN Cardinality(Opened(Line(yard))) ELSE -1
    BY DEF YardInv
  <2>2. Line(yard) \in Seq(Token)
    <3>1. yard.rpn \in Seq(Token) /\ yard.operators \in Seq(Token)
      BY DEF YardInv, YardTypeOK, Yard
    <3> QED BY <3>1, ConcatProperties DEF Line
  <2>3. Cardinality(Opened(Line(yard))) \in Nat
    BY <2>2, OpenedIsFinite
  <2> QED BY <2>1, <2>3
<1> QED BY YardInvariance, <1>1, PTL

\* What the calculator evaluates holds every number and operator of the text once,
\* the numbers in their order; and if the parentheses are balanced, it is not
\* refused and no parenthesis is left in it (ShuntingYard::Finalize).
THEOREM NothingLostInTheYard == YardSpec => []YardFinishes
BY YardInvariance, Finished, PTL
=============================================================================
