------------------------- MODULE MCDetectionPipeline -------------------------
(* Model-checking instances of DetectionPipeline: a UDP exchange and a TCP  *)
(* probe answered by an RST; the UDP exchange alone, with a second request. *)
EXTENDS DetectionPipeline, TLC

CONSTANTS c1, c2, req1, req2, reply, probe, reset, udpOut, udpBack, tcpOut, tcpBack

TwoConsumers == {c1, c2}

MCFlows == {udpOut, udpBack, tcpOut, tcpBack}
MCReverse == (udpOut :> udpBack) @@ (udpBack :> udpOut)
             @@ (tcpOut :> tcpBack) @@ (tcpBack :> tcpOut)
MCInitiators == {udpOut, tcpOut}

AllRecords == {req1, reply, probe, reset}
AllFlowOf == (req1 :> udpOut) @@ (reply :> udpBack)
             @@ (probe :> tcpOut) @@ (reset :> tcpBack)
MCSyn == {probe}
MCTcpRst == {reset}
=============================================================================
