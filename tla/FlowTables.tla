----------------------------- MODULE FlowTables -----------------------------
(***************************************************************************)
(* The two tables the feature extractor reads: FlowState (one entry per    *)
(* flow) and ConnectionTracker (one state per connection, indexed by       *)
(* source and by destination address), with the ExpiryManager that sweeps  *)
(* both.                                                                   *)
(*                                                                         *)
(* flow_hash and conn_key are injective functions of the same directed     *)
(* 5-tuple, so one element of Flows names the entry in either table.  All  *)
(* callers run on the event loop and none awaits between the calls         *)
(* DetectionPipeline.process makes into the tables, so a record is one     *)
(* step and a sweep is one step.                                           *)
(*                                                                         *)
(* An entry is represented by its age, the time since its last_seen, so    *)
(* that time itself needs no bound; ages stop growing at AgeCap, which is  *)
(* beyond every timeout.                                                   *)
(***************************************************************************)
EXTENDS Integers, FiniteSets

CONSTANTS
    Flows,       \* directed 5-tuples
    Hosts,       \* addresses
    Src, Dst,    \* the source and the destination of each flow
    MaxFlows,    \* settings.max_concurrent_flows, the cap of both tables
    IdleGrace,   \* a flow must be idle longer than this to be evicted (10 s)
    EvictBatch,  \* flows evicted at most per insertion (100)
    FlowTimeout, \* settings.flow_timeout_sec
    ConnExpiry,  \* settings.connection_expiry_sec
    AgeCap       \* bound: ages saturate here

ASSUME TablesAssumption ==
    /\ IsFiniteSet(Flows)
    /\ Src \in [Flows -> Hosts]
    /\ Dst \in [Flows -> Hosts]
    /\ MaxFlows \in Nat /\ MaxFlows >= 2
    /\ IdleGrace \in Nat /\ EvictBatch \in Nat
    /\ FlowTimeout \in Nat /\ ConnExpiry \in Nat /\ AgeCap \in Nat
    /\ IdleGrace <= FlowTimeout
    /\ FlowTimeout < AgeCap /\ ConnExpiry < AgeCap

VARIABLES
    flowAge,    \* FlowState._flows: time since last_seen, or Absent
    connAge,    \* ConnectionTracker._connections, likewise
    bySrc,      \* _by_src_ip: connections indexed under each address
    byDst       \* _by_dst_ip

indexVars == <<bySrc, byDst>>
vars == <<flowAge, connAge, indexVars>>

Absent == -1

Ages == 0..AgeCap

Present(age) == {f \in Flows : age[f] # Absent}

Init ==
    /\ flowAge = [f \in Flows |-> Absent]
    /\ connAge = [f \in Flows |-> Absent]
    /\ bySrc = [h \in Hosts |-> {}]
    /\ byDst = [h \in Hosts |-> {}]

-----------------------------------------------------------------------------
Older(a) == IF a = Absent \/ a = AgeCap THEN a ELSE a + 1

Drop(age, gone) == [f \in Flows |-> IF f \in gone THEN Absent ELSE age[f]]

\* Mutant: the connection goes, its index entries stay.
UnindexNothing(index, gone) == index

Unindex(index, gone) == [h \in Hosts |-> index[h] \ gone]

\* Mutant: the sort is descending, so the freshest entries go.
Freshest(pool, age, n) ==
    {gone \in SUBSET pool :
        /\ Cardinality(gone) = IF Cardinality(pool) < n THEN Cardinality(pool) ELSE n
        /\ \A f \in gone, g \in pool \ gone : age[f] <= age[g]}

\* The subsets of pool that sorting by last_seen and slicing n entries off the
\* front can yield; entries of one age are in no particular order.
Oldest(pool, age, n) ==
    {gone \in SUBSET pool :
        /\ Cardinality(gone) = IF Cardinality(pool) < n THEN Cardinality(pool) ELSE n
        /\ \A f \in gone, g \in pool \ gone : age[f] >= age[g]}

\* Mutant: the eviction does not ask how long a flow has been idle.
StaleOrNot ==
    IF Cardinality(Present(flowAge)) >= MaxFlows
    THEN Oldest(Present(flowAge), flowAge, EvictBatch)
    ELSE {{}}

\* _evict_stale_locked: what an insertion into a full flow table removes.
StaleFlows ==
    LET idle == {f \in Flows : flowAge[f] > IdleGrace}
    IN IF Cardinality(Present(flowAge)) >= MaxFlows
       THEN Oldest(idle, flowAge, EvictBatch)
       ELSE {{}}

CapHigh == (3 * MaxFlows) \div 2
CapLow == (4 * MaxFlows) \div 5

\* _enforce_cap_locked, run just after f was inserted.  f is the newest entry
\* and sorts last, so only the others are at risk.
OverCap(f) ==
    LET others == Present(connAge)
        size == Cardinality(others) + 1
    IN IF size > CapHigh THEN Oldest(others, connAge, size - CapLow) ELSE {{}}

-----------------------------------------------------------------------------
\* Mutant: only a new entry is stamped.
SeeNewFlow(f) ==
    \/ flowAge[f] # Absent /\ UNCHANGED flowAge
    \/ /\ flowAge[f] = Absent
       /\ \E gone \in StaleFlows :
            flowAge' = [Drop(flowAge, gone) EXCEPT ![f] = 0]

\* get_or_create and update: the entry exists and has just been seen.
SeeFlow(f) ==
    \/ /\ flowAge[f] # Absent
       /\ flowAge' = [flowAge EXCEPT ![f] = 0]
    \/ /\ flowAge[f] = Absent
       /\ \E gone \in StaleFlows :
            flowAge' = [Drop(flowAge, gone) EXCEPT ![f] = 0]

\* ConnectionTracker.touch.
TouchConn(f) ==
    \/ /\ connAge[f] # Absent
       /\ connAge' = [connAge EXCEPT ![f] = 0]
       /\ UNCHANGED indexVars
    \/ /\ connAge[f] = Absent
       /\ \E gone \in OverCap(f) :
            /\ connAge' = [Drop(connAge, gone) EXCEPT ![f] = 0]
            /\ bySrc' = Unindex([bySrc EXCEPT ![Src[f]] = @ \cup {f}], gone)
            /\ byDst' = Unindex([byDst EXCEPT ![Dst[f]] = @ \cup {f}], gone)

\* The table part of DetectionPipeline.process for one flow record.
Record(f) == SeeFlow(f) /\ TouchConn(f)

\* Mutant: the sweep stops after the connections.
SweepConnections ==
    LET idle == {f \in Flows : connAge[f] > ConnExpiry}
    IN /\ connAge' = Drop(connAge, idle)
       /\ bySrc' = Unindex(bySrc, idle)
       /\ byDst' = Unindex(byDst, idle)
       /\ UNCHANGED flowAge

\* ExpiryManager.sweep: evict_expired, then remove each expiry candidate.
Sweep ==
    LET idleFlows == {f \in Flows : flowAge[f] > FlowTimeout}
        idleConns == {f \in Flows : connAge[f] > ConnExpiry}
    IN /\ flowAge' = Drop(flowAge, idleFlows)
       /\ connAge' = Drop(connAge, idleConns)
       /\ bySrc' = Unindex(bySrc, idleConns)
       /\ byDst' = Unindex(byDst, idleConns)

Tick ==
    /\ flowAge' = [f \in Flows |-> Older(flowAge[f])]
    /\ connAge' = [f \in Flows |-> Older(connAge[f])]
    /\ UNCHANGED indexVars

Next == Tick \/ Sweep \/ \E f \in Flows : Record(f)

Spec == Init /\ [][Next]_vars

\* The sweep runs every five seconds for as long as the process lives.
FairSpec == Spec /\ WF_vars(Sweep)

-----------------------------------------------------------------------------
(* Properties *)

\* The tables map flows to ages and the indexes addresses to sets of flows.
TypeOK ==
    /\ flowAge \in [Flows -> Ages \cup {Absent}]
    /\ connAge \in [Flows -> Ages \cup {Absent}]
    /\ bySrc \in [Hosts -> SUBSET Flows]
    /\ byDst \in [Hosts -> SUBSET Flows]

\* The two indexes name exactly the tracked connections of each address: a
\* connection that was capped or expired is in neither, a tracked one in both.
\* connections_for_src and connections_for_dst, and with them the fan-in and
\* fan-out features, are right only if this holds.
IndexExact ==
    /\ \A h \in Hosts : bySrc[h] = {f \in Present(connAge) : Src[f] = h}
    /\ \A h \in Hosts : byDst[h] = {f \in Present(connAge) : Dst[f] = h}

\* A flow that both tables hold was last seen at one time in both, although
\* each table stamps, caps and expires its entries on its own.
TablesAgree ==
    \A f \in Present(flowAge) \cap Present(connAge) : flowAge[f] = connAge[f]

\* The connection table never holds more than one and a half times its cap.
ConnectionsBounded == Cardinality(Present(connAge)) <= CapHigh

\* No step forgets a flow that is not idle: a full table under a flood grows
\* rather than dropping the flows that are being updated.
OnlyIdleFlowsForgotten ==
    [][\A f \in Present(flowAge) \ Present(flowAge') : flowAge[f] > IdleGrace]_vars

\* A connection is forgotten when it expired, or in favour of CapLow
\* connections that are all at least as fresh.
FreshConnectionsSurvive ==
    [][\A f \in Present(connAge) \ Present(connAge') :
          \/ connAge[f] > ConnExpiry
          \/ /\ \A g \in Present(connAge') : connAge'[g] <= connAge[f]
             /\ Cardinality(Present(connAge')) >= CapLow]_vars

\* The flow table behaves as the detection pipeline assumes it does.
Memory == INSTANCE FlowMemory WITH known <- Present(flowAge), MayForget <- TRUE

\* Whatever its ages, caps and timeouts, the flow table holds every flow from the
\* record that reports it until the flow is evicted or expires, and no flow
\* enters it but the one being reported.
ImplementsMemory == Memory!MemorySpec

\* An idle entry of either table is seen again or expires, each by its own
\* timeout.
IdleEntriesExpire ==
    \A f \in Flows :
        /\ flowAge[f] > FlowTimeout ~> flowAge[f] \in {Absent, 0}
        /\ connAge[f] > ConnExpiry ~> connAge[f] \in {Absent, 0}
=============================================================================
