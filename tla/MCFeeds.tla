------------------------------ MODULE MCFeeds ------------------------------
(* Two feeds and two rows, so that one feed can be added, removed and added *)
(* again.                                                                  *)
EXTENDS Feeds

CONSTANTS news, blog

MCUrls == {news, blog}
MCStream == {Stream}
=============================================================================
