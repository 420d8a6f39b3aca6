--------------------------- MODULE MC_RINAManager ---------------------------
(* Instantiates RINAManager for TLC: two requester threads, one thread     *)
(* answering peer requests, two peer ports. The model values are given in *)
(* the .cfg files; the bounds below are shared by all runs.                *)
EXTENDS RINAManager

\* Two sequence numbers let both requesters have a request in flight at
\* once (replies may come back in either order).
MCMaxSeq == 2

\* Two peer-originated messages: two requests in flight at once, or a
\* request and a notification, so every reader path is reached.
MCMaxPeerMsgs == 2
=============================================================================
