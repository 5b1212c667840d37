----------------------------- MODULE MCSourcePanel -----------------------------
(* A model-checking instance of SourcePanel: two alerts of one source. *)
EXTENDS SourcePanel

CONSTANTS a1, a2, s1

MCAlerts == {a1, a2}
MCSources == {s1}
MCSrcOf == [a \in MCAlerts |-> s1]
=============================================================================
