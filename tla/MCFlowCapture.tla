--------------------------- MODULE MCFlowCapture ---------------------------
(* Model-checking instances of FlowCapture.                                *)
EXTENDS FlowCapture, TLC

CONSTANTS p1, p2, p3

MCPackets == {p1, p2, p3}
MCSymmetry == Permutations(MCPackets)
=============================================================================
