-------------------------- MODULE MCAlertPersistence --------------------------
(* Model-checking instances of AlertPersistence: three alerts, a queue they  *)
(* overflow and a live list they age out of.                                 *)
EXTENDS AlertPersistence, TLC

CONSTANTS a1, a2, a3

MCAlerts == {a1, a2, a3}
=============================================================================
