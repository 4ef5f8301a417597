----------------------------- MODULE MCProcess -----------------------------
(* Four of the eleven handlers, one of each kind, in the order of           *)
(* Bot::RegisterAllHandlers, and the kinds of settings that differ; the     *)
(* delivered config.toml still names a module that is gone, teamspeak.      *)
EXTENDS Process

MCOrder == <<"discord", "dice", "github", "rss">>
MCAlphabetical == <<"dice", "discord", "github", "rss", "teamspeak">>
MCPosting == {"rss"}
MCServing == {"github"}
MCListening == {"github"}
MCFragile == {"dice"}
MCConfigs ==
  {[modules |-> {}, blacklist |-> {}, webhook |-> TRUE, idmap |-> TRUE],
   [modules |-> {"dice", "discord", "github", "teamspeak"}, blacklist |-> {"dice"},
    webhook |-> TRUE, idmap |-> FALSE]}

\* The file as it is delivered: every handler is enabled.
MCDefaultConfig == {[modules |-> {}, blacklist |-> {}, webhook |-> FALSE, idmap |-> TRUE]}
=============================================================================
