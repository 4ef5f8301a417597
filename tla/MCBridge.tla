------------------------------ MODULE MCBridge ------------------------------
(* The handlers as they are built, and as a list of modules in the config  *)
(* file orders them: by name, with "dice" before "discord".                *)
EXTENDS Bridge

MCAsBuilt == <<"discord", "answers">>
MCByName == <<"answers", "discord">>
=============================================================================
