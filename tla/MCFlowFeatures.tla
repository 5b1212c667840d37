--------------------------- MODULE MCFlowFeatures ---------------------------
(* Model-checking instances of FlowFeatures and the tables under it.       *)
EXTENDS FlowFeatures, TLC

CONSTANTS a, b, c, d, f1, f2, f3, f4, f5

MCHosts == {a, b, c, d}
MCFlows == {f1, f2, f3, f4, f5}

\* Host a probes two ports of the target c, b opens a connection to each of c
\* and the external host d, and the target answers a.
MCSrc == (f1 :> a) @@ (f2 :> a) @@ (f3 :> b) @@ (f4 :> c) @@ (f5 :> b)
MCDst == (f1 :> c) @@ (f2 :> c) @@ (f3 :> c) @@ (f4 :> a) @@ (f5 :> d)
MCDstPort == (f1 :> 22) @@ (f2 :> 80) @@ (f3 :> 80) @@ (f4 :> 9) @@ (f5 :> 53)
MCProto == [f \in MCFlows |-> IF f = f5 THEN "udp" ELSE "tcp"]
MCSmall == {f1, f2}
MCSizeless == {f3}
MCInternal == {a, b, c}
=============================================================================
