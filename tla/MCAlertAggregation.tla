------------------------- MODULE MCAlertAggregation -------------------------
(* Model-checking instance of AlertAggregation.                            *)
EXTENDS AlertAggregation, TLC

CONSTANTS k1, k2, s1, s2, s3

MCKeys == {k1, k2}
MCSources == {s1, s2, s3}

\* Only equality of source addresses matters.
SourceSymmetry == Permutations(MCSources)
=============================================================================
