------------------------------ MODULE MCSender ------------------------------
(* Two threads, two calls each, of empty texts and of texts that need one, *)
(* two or three pieces (4 ends with an empty one, as the limit divides it). *)
EXTENDS Sender

CONSTANTS xmppThread, gatewayThread

MCThreads == {xmppThread, gatewayThread}
MCLengths == {0, 1, 3, 4}
=============================================================================
