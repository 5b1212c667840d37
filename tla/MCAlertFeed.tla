------------------------------ MODULE MCAlertFeed ------------------------------
(* A model-checking instance of AlertFeed: two alerts, two overlapping polls. *)
EXTENDS AlertFeed

CONSTANTS a1, a2, p1, p2

MCAlerts == {a1, a2}
MCPolls == {p1, p2}
=============================================================================
