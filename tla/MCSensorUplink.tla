--------------------------- MODULE MCSensorUplink ---------------------------
(* Model-checking instances of SensorUplink.                               *)
EXTENDS SensorUplink, TLC

CONSTANTS tap, live, file, k1, k2

\* Four packets pass the standalone sensor, the second in the direction its local_ip
\* filter drops, and three the live one; a file holds three flows.
MCOf == [p \in 1 .. 4 |-> tap] @@ [p \in 5 .. 7 |-> live] @@ [p \in 8 .. 10 |-> file]
MCKey == (1 :> k1) @@ (2 :> k2) @@ (3 :> k2) @@ (4 :> k1)
         @@ (5 :> k1) @@ (6 :> k2) @@ (7 :> k2) @@ [p \in 8 .. 10 |-> p]
=============================================================================
