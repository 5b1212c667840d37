---------------------------- MODULE FlowFeatures ----------------------------
(***************************************************************************)
(* FeatureExtractor: what the detection rules are told about the           *)
(* connections around a flow, read from the tables of FlowTables in the    *)
(* same step that records the flow.                                        *)
(*                                                                         *)
(* The tracker keeps a connection for minutes so that it can be looked up; *)
(* the features must forget it after seconds, or a finished scan marks     *)
(* every later flow of its source.  Each feature is therefore taken over   *)
(* the connections seen within a window, of the tables as capping and      *)
(* expiry have left them.  quiet is history: how long ago a flow was       *)
(* really reported, which no table records once an entry is gone.          *)
(*                                                                         *)
(* Features of one flow alone (rates, flag ratios, cadence, entropy of a   *)
(* name) are arithmetic on the entry and are left out.  A connection's     *)
(* byte counters appear as the sets of connections they are summed over,   *)
(* and its mean size as whether its records are Small or of no size.       *)
(***************************************************************************)
EXTENDS FlowTables

CONSTANTS
    DstPort,    \* the destination port of each flow
    Proto,      \* the protocol of each flow
    Small,      \* flows whose records average less than 64 bytes
    Sizeless,   \* flows whose records carry no byte count
    Internal,   \* addresses _is_internal accepts
    PairWindow, \* _PAIR_AGGREGATION_WINDOW_SEC (30 s)
    FreqWindow  \* _CONN_FREQ_WINDOW_SEC (60 s)

ASSUME FeaturesAssumption ==
    /\ Small \subseteq Flows \ Sizeless /\ Sizeless \subseteq Flows /\ Internal \subseteq Hosts
    /\ DOMAIN DstPort = Flows /\ DOMAIN Proto = Flows
    /\ PairWindow \in Nat /\ FreqWindow \in Nat
    /\ PairWindow <= FreqWindow /\ FreqWindow <= ConnExpiry

VARIABLE quiet  \* time since each flow was last reported

featureVars == <<vars, quiet>>

-----------------------------------------------------------------------------
(* What the tracker answers. *)

Tracked(conns) == conns \cap Present(connAge)

connections_for_src(h) == Tracked(bySrc[h])
connections_for_dst(h) == Tracked(byDst[h])
connections_between(f) == {g \in connections_for_src(Src[f]) : Dst[g] = Dst[f]}

\* Mutant: whatever the tracker still holds counts as recent.
StillTracked(conns) == conns

\* _recent_connections
Recent(conns) == {g \in conns : connAge[g] <= PairWindow}

recent_connections_from_src(h) ==
    {g \in connections_for_src(h) : connAge[g] <= FreqWindow}

-----------------------------------------------------------------------------
(* What the extractor makes of it.  pair, out and into are the connections *)
(* of the flow's pair, from its source and to its destination; minute is   *)
(* the longer window.                                                      *)

AtLeastOne(n) == IF n < 1 THEN 1 ELSE n

Measure(f, pair, out, into, minute) ==
    LET same == {g \in pair : Proto[g] = Proto[f]}
    IN [unique_dst_ports |-> Cardinality({DstPort[g] : g \in same}),
        dst_port_conn_freq |-> Cardinality({g \in same : DstPort[g] = DstPort[f]}),
        unique_dst_ips |-> AtLeastOne(Cardinality({Dst[g] : g \in out})),
        small_packet_ratio |-> <<Cardinality(out \cap Small), Cardinality(out \ Sizeless)>>,
        connection_frequency |-> Cardinality(minute),
        source_entropy |->
            IF Cardinality(into) < 2 THEN {}
            ELSE {<<Src[g], Cardinality({e \in into : Src[e] = Src[g]})>> : g \in into}]

\* extract_from_entry: the windowed features of f.
Features(f) ==
    Measure(f,
            Recent(connections_between(f)),
            Recent(connections_for_src(Src[f])),
            Recent(connections_for_dst(Dst[f])),
            recent_connections_from_src(Src[f]))

\* The connections whose bytes outbound_inbound_ratio sums for a host; the
\* only feature without a window.
Outbound(h) == {g \in connections_for_src(h) : Dst[g] \notin Internal}

-----------------------------------------------------------------------------
FeaturesInit == Init /\ quiet = [f \in Flows |-> AgeCap]

RecordAndExtract(f) == Record(f) /\ quiet' = [quiet EXCEPT ![f] = 0]

FeaturesNext ==
    \/ Tick /\ quiet' = [f \in Flows |-> Older(quiet[f])]
    \/ Sweep /\ UNCHANGED quiet
    \/ \E f \in Flows : RecordAndExtract(f)

FeaturesSpec == FeaturesInit /\ [][FeaturesNext]_featureVars

\* The sweep runs every five seconds for as long as the process lives.
FeaturesFairSpec ==
    FeaturesSpec /\ WF_featureVars(Sweep /\ UNCHANGED quiet)

-----------------------------------------------------------------------------
(* Properties *)

\* The flows whose features process extracts in this state.
Extracted == {f \in Flows : flowAge[f] = 0 /\ connAge[f] = 0}

\* The reports of the last w time units, whether or not a table kept them.
Reported(w) == {f \in Flows : quiet[f] <= w}

\* What the features would be if every report were remembered.
TrueFeatures(f) ==
    LET now == Reported(PairWindow)
        out == {g \in now : Src[g] = Src[f]}
    IN Measure(f,
               {g \in out : Dst[g] = Dst[f]},
               out,
               {g \in now : Dst[g] = Dst[f]},
               {g \in Reported(FreqWindow) : Src[g] = Src[f]})

\* A connection that was reported within its expiry time and is no longer
\* tracked gave way to CapLow connections that are all at least as recent:
\* capping during one flood, re-insertion and later floods together never
\* forget more than that.
ForgottenOnlyUnderFlood ==
    \A f \in Reported(ConnExpiry) \ Present(connAge) :
        Cardinality({g \in Present(connAge) : connAge[g] <= quiet[f]}) >= CapLow

\* The features of a flow describe the traffic of the last seconds, no more
\* and no less: a finished scan leaves no trace in them although the tracker
\* still holds its connections, and as long as no recent connection gave way
\* under a flood nothing recent is missed.
FeaturesFollowTraffic ==
    Reported(FreqWindow) \subseteq Present(connAge) =>
        \A f \in Extracted : Features(f) = TrueFeatures(f)

\* What _outbound_inbound_ratio's docstring says: the flow whose features are
\* extracted never adds its own bytes to its host's outbound traffic.
OwnBytesNotOutbound == \A f \in Extracted : f \notin Outbound(Src[f])
=============================================================================
