------------------------------- MODULE Voting -------------------------------
(***************************************************************************)
(* Polls (src/handlers/vote.cpp).  They live in memory, under an id that   *)
(* is cut from the hash of the theme; people are known by their jids, which *)
(* may be one and the same for several (or for all, where the room hides   *)
(* them), and invited by jid or by nick.                                   *)
(*                                                                         *)
(* The XMPP thread and the gateway's both handle messages and presences.   *)
(* Where SendMessage waits between a find and an erase, the other may come *)
(* in; a thread that then uses an iterator to what is gone does whatever   *)
(* it does, and is not followed further.  What a handler does between two  *)
(* messages is one step, and no table grows so that it is rehashed.        *)
(***************************************************************************)
EXTENDS Naturals, Sequences, FiniteSets

CONSTANTS
  Threads,     \* those that handle messages and presences
  People,      \* records of a nick and a jid
  Themes,      \* themes of polls
  MultiThemes, \* those that start with a '#'
  PollIds,     \* four digits each
  IdOf,        \* the id of each theme
  NumOptions,  \* options of a poll
  Invitees,    \* what people type after !invite: jids and nicks
  MaxPolls,    \* bound: polls added
  NoPoll       \* "_activePolls has no such key"

None == "none"
Gone == "gone"

Jids == {p.jid : p \in People}
Nobody == [nick |-> None, jid |-> None]
Options == 0..(NumOptions - 1)
Poll == [number : 1..MaxPolls, multi : BOOLEAN, owner : Jids,
         votes : [Options -> SUBSET Jids], invitations : SUBSET Invitees]
Invitations == (1..MaxPolls) \X Invitees

ASSUME VotingAssumption ==
  /\ MultiThemes \subseteq Themes
  /\ IdOf \in [Themes -> PollIds]
  /\ NumOptions \in Nat \ {0, 1} /\ MaxPolls \in Nat
  /\ {None, Gone} \cap (PollIds \cup Invitees) = {}
  /\ NoPoll \notin Poll

VARIABLES
  polls,    \* Voting::_activePolls
  added,    \* how many polls have been added: each keeps its number
  closed,   \* numbers of the polls whose results were shown at their end
  pc,       \* where each thread is
  visitor,  \* whose presence, or !closepoll, it handles
  at,       \* the poll it is at, Gone if that has been erased
  found,    \* the invitation it has found there, Gone if that has been erased
  todo,     \* the polls its walk has yet to come to
  invited,    \* ghost: the invitations to the polls
  spent,    \* ghost: those that were told, and not given again since
  wild      \* a thread has used an iterator to what was erased

walks == <<pc, visitor, at, found, todo>>
ghosts == <<invited, spent>>
vars == <<polls, added, closed, walks, ghosts, wild>>

TypeOK ==
  /\ polls \in [PollIds -> Poll \cup {NoPoll}]
  /\ added \in 0..MaxPolls /\ closed \subseteq 1..MaxPolls
  /\ pc \in [Threads -> {"idle", "walking", "erasing", "closing"}]
  /\ visitor \in [Threads -> People \cup {Nobody}]
  /\ at \in [Threads -> PollIds \cup {None, Gone}]
  /\ found \in [Threads -> Invitees \cup {None, Gone}]
  /\ todo \in [Threads -> SUBSET PollIds]
  /\ invited \subseteq Invitations /\ spent \subseteq Invitations
  /\ wild \in BOOLEAN

Active == {id \in PollIds : polls[id] # NoPoll}

Init ==
  /\ polls = [id \in PollIds |-> NoPoll] /\ added = 0 /\ closed = {}
  /\ pc = [t \in Threads |-> "idle"] /\ visitor = [t \in Threads |-> Nobody]
  /\ at = [t \in Threads |-> None] /\ found = [t \in Threads |-> None]
  /\ todo = [t \in Threads |-> {}]
  /\ invited = {} /\ spent = {} /\ wild = FALSE

Does(t, what) == ~wild /\ pc[t] = what
IsAt(t, what, id) == Does(t, what) /\ at[t] = id

-----------------------------------------------------------------------------
\* !addpoll.  A poll with the same id is replaced, whoever owns it, and its
\* invitations are gone; a new one may come before or after a walk's place.
AddPoll(t, theme, person) ==
  LET id == IdOf[theme]
  IN /\ Does(t, "idle") /\ added < MaxPolls
     /\ added' = added + 1
     /\ polls' = [polls EXCEPT ![id] =
                    [number |-> added', multi |-> theme \in MultiThemes, owner |-> person.jid,
                     votes |-> [o \in Options |-> {}], invitations |-> {}]]
     /\ found' = [u \in Threads |-> IF pc[u] = "erasing" /\ at[u] = id THEN Gone ELSE found[u]]
     /\ \E ahead \in SUBSET {u \in Threads : pc[u] \in {"walking", "erasing"}} :
          todo' = [u \in Threads |-> IF u \in ahead /\ id \notin Active
                                       THEN todo[u] \cup {id} ELSE todo[u]]
     /\ UNCHANGED <<closed, pc, visitor, at, ghosts, wild>>

\* Faulty variant: only the chosen option is looked at.
Vote_SameOption(t, id, option, person) ==
  /\ Does(t, "idle")
  /\ id \in Active /\ option \in Options
  /\ polls[id].multi \/ person.jid \notin polls[id].votes[option]
  /\ polls' = [polls EXCEPT ![id].votes[option] = @ \cup {person.jid}]
  /\ UNCHANGED <<added, closed, walks, ghosts, wild>>

\* !vote.  Without a poll, or with an option that is not there, the answer is a
\* refusal and nothing changes; so it is for a second vote, unless the poll
\* takes several.
Vote(t, id, option, person) ==
  /\ Does(t, "idle")
  /\ id \in Active /\ option \in Options
  /\ polls[id].multi \/ \A o \in Options : person.jid \notin polls[id].votes[o]
  /\ polls' = [polls EXCEPT ![id].votes[option] = @ \cup {person.jid}]
  /\ UNCHANGED <<added, closed, walks, ghosts, wild>>

Unvote(t, id, person) ==
  /\ Does(t, "idle")
  /\ id \in Active
  /\ polls' = [polls EXCEPT ![id].votes = [o \in Options |-> @[o] \ {person.jid}]]
  /\ UNCHANGED <<added, closed, walks, ghosts, wild>>

\* !invite: one call may name several.
Invite(t, id, addresses) ==
  /\ Does(t, "idle")
  /\ id \in Active
  /\ polls' = [polls EXCEPT ![id].invitations = @ \cup addresses]
  /\ LET new == {polls[id].number} \X (addresses \ polls[id].invitations)
     IN invited' = invited \cup new /\ spent' = spent \ new
  /\ UNCHANGED <<added, closed, walks, wild>>

\* !closepoll: the results are shown.
ShowResults(t, id, person) ==
  /\ Does(t, "idle")
  /\ id \in Active
  /\ polls[id].owner = person.jid
  /\ closed' = closed \cup {polls[id].number}
  /\ pc' = [pc EXCEPT ![t] = "closing"] /\ at' = [at EXCEPT ![t] = id]
  /\ visitor' = [visitor EXCEPT ![t] = person]
  /\ UNCHANGED <<polls, added, found, todo, ghosts, wild>>

\* _activePolls.erase(args): whatever has that id by now.
ClosePoll(t, id) ==
  /\ IsAt(t, "closing", id)
  /\ polls' = [polls EXCEPT ![id] = NoPoll]
  /\ pc' = [pc EXCEPT ![t] = "idle"] /\ visitor' = [visitor EXCEPT ![t] = Nobody]
  /\ at' = [u \in Threads |-> IF u = t THEN None
                              ELSE IF at[u] = id /\ pc[u] # "closing" THEN Gone ELSE at[u]]
  /\ todo' = [u \in Threads |-> todo[u] \ {id}]
  /\ UNCHANGED <<added, closed, found, ghosts, wild>>

-----------------------------------------------------------------------------
(* Voting::HandlePresence for somebody who has just connected.             *)

\* The invitation of a poll that is found for a person: by jid, else by nick.
Invitation(poll, person) ==
  IF person.jid \in poll.invitations THEN {person.jid}
  ELSE poll.invitations \cap {person.nick}

Connect(t, person) ==
  /\ Does(t, "idle")
  /\ pc' = [pc EXCEPT ![t] = "walking"] /\ visitor' = [visitor EXCEPT ![t] = person]
  /\ todo' = [todo EXCEPT ![t] = Active]
  /\ UNCHANGED <<polls, added, closed, at, found, ghosts, wild>>

\* The next poll, to which the visitor is not invited.
Skip(t, id) ==
  /\ Does(t, "walking") /\ at[t] # Gone /\ id \in todo[t]
  /\ Invitation(polls[id], visitor[t]) = {}
  /\ at' = [at EXCEPT ![t] = id] /\ todo' = [todo EXCEPT ![t] = @ \ {id}]
  /\ UNCHANGED <<polls, added, closed, pc, visitor, found, ghosts, wild>>

\* The next poll, to which the visitor is invited: SendMessage.
Tell(t, id) ==
  /\ Does(t, "walking") /\ at[t] # Gone /\ id \in todo[t]
  /\ \E address \in Invitation(polls[id], visitor[t]) :
       /\ found' = [found EXCEPT ![t] = address]
       /\ spent' = spent \cup {<<polls[id].number, address>>}
  /\ at' = [at EXCEPT ![t] = id] /\ todo' = [todo EXCEPT ![t] = @ \ {id}]
  /\ pc' = [pc EXCEPT ![t] = "erasing"]
  /\ UNCHANGED <<polls, added, closed, visitor, invited, wild>>

\* Faulty variant: the invitation is kept.
Erase_KeepsInvitation(t, id) ==
  /\ IsAt(t, "erasing", id) /\ found[t] # Gone
  /\ found' = [found EXCEPT ![t] = None]
  /\ pc' = [pc EXCEPT ![t] = "walking"]
  /\ UNCHANGED <<polls, added, closed, visitor, at, todo, ghosts, wild>>

\* _invitations.erase(invite); another thread may hold the same.
Erase(t, id) ==
  /\ IsAt(t, "erasing", id) /\ found[t] # Gone
  /\ polls' = [polls EXCEPT ![id].invitations = @ \ {found[t]}]
  /\ found' = [u \in Threads |-> IF u = t THEN None
                                 ELSE IF pc[u] = "erasing" /\ at[u] = id /\ found[u] = found[t]
                                   THEN Gone ELSE found[u]]
  /\ pc' = [pc EXCEPT ![t] = "walking"]
  /\ UNCHANGED <<added, closed, visitor, at, todo, ghosts, wild>>

EndOfWalk(t) ==
  /\ Does(t, "walking") /\ at[t] # Gone /\ todo[t] = {}
  /\ pc' = [pc EXCEPT ![t] = "idle"] /\ visitor' = [visitor EXCEPT ![t] = Nobody]
  /\ at' = [at EXCEPT ![t] = None]
  /\ UNCHANGED <<polls, added, closed, found, todo, ghosts, wild>>

\* The iterator to a poll is moved on, or used, or that to an invitation is erased,
\* after another thread has erased what it points to.
Dangling(t) ==
  /\ \/ Does(t, "walking") /\ at[t] = Gone
     \/ Does(t, "erasing") /\ Gone \in {at[t], found[t]}
  /\ wild' = TRUE
  /\ UNCHANGED <<polls, added, closed, walks, ghosts>>

Next ==
  \E t \in Threads :
    \/ \E person \in People :
         \/ Connect(t, person)
         \/ \E theme \in Themes : AddPoll(t, theme, person)
         \/ \E id \in PollIds :
              \/ \E option \in Options : Vote(t, id, option, person)
              \/ Unvote(t, id, person) \/ ShowResults(t, id, person)
    \/ \E id \in PollIds :
         \/ \E addresses \in SUBSET Invitees \ {{}} : Invite(t, id, addresses)
         \/ ClosePoll(t, id)
         \/ Skip(t, id) \/ Tell(t, id) \/ Erase(t, id)
    \/ EndOfWalk(t) \/ Dangling(t)

Spec == Init /\ [][Next]_vars

-----------------------------------------------------------------------------
(* Properties                                                              *)

\* In a poll that takes one option nobody has voted for two, whatever votes,
\* withdrawals and replacements of the poll led here.
SingleChoice ==
  \A id \in Active : ~polls[id].multi =>
    \A o, p \in Options : o # p => polls[id].votes[o] \cap polls[id].votes[p] = {}

\* An invitation to a poll that runs is used up by telling it, and by nothing else:
\* neither by the presence of somebody else nor by a second thread's walk; and once
\* it has been told it is there no more, so that it is not told again, except while
\* a thread that has told it is waiting before it erases it.
InvitedOnce ==
  \A id \in Active, address \in Invitees :
    LET there == address \in polls[id].invitations
        told == <<polls[id].number, address>> \in spent
    IN /\ <<polls[id].number, address>> \in invited => there \/ told
       /\ there /\ told =>
            \E t \in Threads : pc[t] = "erasing" /\ at[t] = id /\ found[t] = address

\* "Only owner can close a poll": a poll stays until its owner closes it.
PollsStay ==
  \A n \in 1..added : n \in closed \/ \E id \in Active : polls[id].number = n

\* The same of the poll that a !closepoll erases.
OnlyOwnersClose ==
  [][\A t \in Threads, id \in Active :
       pc[t] = "closing" /\ pc'[t] = "idle" /\ at[t] = id => polls[id].owner = visitor[t].jid]_vars

\* The two threads do not get into each other's way.
StaysTame == ~wild
=============================================================================
