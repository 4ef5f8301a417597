------------------------------ MODULE MCVoting ------------------------------
(* Two threads; two people, whom the room shows with one jid; two themes,     *)
(* each of which may be put to the vote a second time; eve can be invited by  *)
(* nick, by jid, or by both.  With a jid of his own for bob TLC finds what    *)
(* OnlyOwnersClose speaks of; the instance is then too large to exhaust.      *)
EXTENDS Voting, TLC

MCPeople ==
  {[nick |-> "bob", jid |-> "unknown@unknown"],
   [nick |-> "eve", jid |-> "unknown@unknown"]}
MCThemes == {"tea", "#cake"}
MCMultiThemes == {"#cake"}
MCInvitees == {"eve", "unknown@unknown"}
MCPollIds == {"1234", "5678"}
MCIdOf == [t \in MCThemes |-> IF t = "tea" THEN "1234" ELSE "5678"]

Symmetry == Permutations(Threads)
=============================================================================
