----------------------------- MODULE MCLastSeen -----------------------------
(* Two nicks of the room, a person, an account that several may share, and *)
(* a user of Discord who has one of these nicks.                           *)
EXTENDS LastSeen

CONSTANTS nn1, nn2, jj1, jj2, uu1

MCXNicks == {nn1, nn2}
MCXJids == {jj1, jj2}
MCSharedJids == {jj2}
MCIds == {uu1}
MCDNicks == {nn1}

\* No step reads what the last one told the handlers: states that differ in
\* nothing else are one.
View == <<room, renaming, nick2jid, jid2nick, users, fromDiscord, seenVars>>
=============================================================================
