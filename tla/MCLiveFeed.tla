----------------------------- MODULE MCLiveFeed -----------------------------
(* Two clients, one of each endpoint: the first can be slow while the second *)
(* waits for its frame.                                                       *)
EXTENDS LiveFeed

CONSTANTS w1, w2

MCSockets == {w1, w2}
MCAlertSockets == {w2}
=============================================================================
