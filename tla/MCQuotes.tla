------------------------------ MODULE MCQuotes ------------------------------
(* Two sides that are told apart by nothing but the order of their steps.  *)
EXTENDS Quotes, TLC

CONSTANTS xmpp, discord

MCThreads == {xmpp, discord}
MCSymmetry == Permutations(MCThreads)
=============================================================================
