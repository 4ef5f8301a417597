------------------------------ MODULE MCPager ------------------------------
(* Two threads and two people; the nick of one contains a '@' and is the jid *)
(* of the other, which is what the test in HandlePresence is there for.      *)
EXTENDS Pager, TLC

MCUsers == {[nick |-> "alice", jid |-> "alice@host"], [nick |-> "alice@host", jid |-> "mallory@host"]}
MCAtNicks == {"alice@host"}
MCAddresses == {"alice", "alice@host"}
Symmetry == Permutations(Threads)
=============================================================================
