------------------------------- MODULE MCUrls -------------------------------
(* Two pages.  "(" is no regular expression; "Watch" matches the page that   *)
(* has the word in its address only as it is written, not in lower case.     *)
EXTENDS Urls, TLC

MCPages == {"news", "Watch"}
MCPatterns == {"news", "("}
MCBroken == {"("}
MCMatches == "news" :> {"news"}
MCCasePatterns == {"Watch"}
MCCaseMatches == "Watch" :> {"Watch"}
MCCaseLowered == "Watch" :> {}
=============================================================================
