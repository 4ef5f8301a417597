----------------------------- MODULE Broadcast -----------------------------
(***************************************************************************)
(* What Bot::SendMessage promises its callers, whatever threads they run   *)
(* on: messages are posted to the room one at a time, and only the message *)
(* that was posted last may still be echoed to Discord.  Sender implements *)
(* this with a mutex that is held across the throttle and the REST calls.  *)
(***************************************************************************)
EXTENDS Naturals, Sequences

CONSTANT Messages

VARIABLES
  posted,  \* messages in the order in which the room gets them
  echoed   \* messages that Discord has got, or the beginning of them

Init ==
  /\ posted = <<>>
  /\ echoed = {}

Post(m) ==
  /\ \A k \in DOMAIN posted : posted[k] # m
  /\ posted' = Append(posted, m)
  /\ UNCHANGED echoed

Echo(m) ==
  /\ posted # <<>> /\ m = posted[Len(posted)]
  /\ m \notin echoed
  /\ echoed' = echoed \cup {m}
  /\ UNCHANGED posted

Next == \E m \in Messages : Post(m) \/ Echo(m)

Spec == Init /\ [][Next]_<<posted, echoed>>
=============================================================================
