-------------------------- MODULE MCLeagueLookup --------------------------
(* The two threads that handle messages, and a list that may be longer than *)
(* a lookup looks at.                                                       *)
EXTENDS LeagueLookup

MCCallers == {"xmpp", "gateway"}
MCCatching == {"gateway"}
=============================================================================
