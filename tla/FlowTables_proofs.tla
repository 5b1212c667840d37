-------------------------- MODULE FlowTables_proofs --------------------------
(***************************************************************************)
(* Proofs about FlowTables and about FlowFeatures, which reads its tables, *)
(* for every set of flows and hosts and every cap, timeout and window.     *)
(***************************************************************************)
EXTENDS FlowFeatures, FiniteSetTheorems, TLAPS

-----------------------------------------------------------------------------
(* What the eviction operators choose from. *)

\* Evicting from a full flow table removes only idle flows.
LEMMA StaleFlowsIdle ==
    ASSUME NEW gone \in StaleFlows
    PROVE  gone \subseteq {f \in Flows : flowAge[f] > IdleGrace}
BY DEF StaleFlows, Oldest

\* Enforcing the cap removes only tracked connections.
LEMMA OverCapTracked ==
    ASSUME NEW f \in Flows, NEW gone \in OverCap(f)
    PROVE  gone \subseteq Present(connAge)
BY DEF OverCap, Oldest

-----------------------------------------------------------------------------
\* The tables are empty and well typed at the start.
LEMMA InitInv == Init => TypeOK /\ IndexExact /\ TablesAgree
BY TablesAssumption DEF Init, TypeOK, IndexExact, TablesAgree, Present, Absent, Ages

\* Aging keeps the tables well typed, and agreeing.
LEMMA TickStep ==
    ASSUME TypeOK, IndexExact, TablesAgree, Tick
    PROVE  TypeOK' /\ IndexExact' /\ TablesAgree'
<1>0. \A x \in Ages \cup {Absent} : Older(x) \in Ages \cup {Absent}
  BY TablesAssumption DEF Older, Ages, Absent
<1>1. \A x \in Ages \cup {Absent} : (Older(x) = Absent) <=> (x = Absent)
  BY TablesAssumption DEF Older, Ages, Absent
<1>2. TypeOK'
  <2>1. flowAge' \in [Flows -> Ages \cup {Absent}]
    <3>1. flowAge \in [Flows -> Ages \cup {Absent}]
      BY DEF TypeOK
    <3>2. \A f \in Flows : Older(flowAge[f]) \in Ages \cup {Absent}
      BY <1>0, <3>1
    <3>3. flowAge' = [f \in Flows |-> Older(flowAge[f])]
      BY DEF Tick
    <3>4. QED
      BY <3>2, <3>3
  <2>2. connAge' \in [Flows -> Ages \cup {Absent}]
    <3>1. connAge \in [Flows -> Ages \cup {Absent}]
      BY DEF TypeOK
    <3>2. \A f \in Flows : Older(connAge[f]) \in Ages \cup {Absent}
      BY <1>0, <3>1
    <3>3. connAge' = [f \in Flows |-> Older(connAge[f])]
      BY DEF Tick
    <3>4. QED
      BY <3>2, <3>3
  <2>3. QED
    BY <2>1, <2>2 DEF Tick, TypeOK, indexVars
<1>3. Present(connAge') = Present(connAge) /\ Present(flowAge') = Present(flowAge)
  BY <1>1 DEF Tick, TypeOK, Present
<1>4. IndexExact'
  BY <1>3 DEF Tick, IndexExact, indexVars
<1>5. TablesAgree'
  BY <1>3 DEF Tick, TablesAgree, Present
<1>6. QED
  BY <1>2, <1>4, <1>5

\* A sweep keeps them too: an expired connection leaves both indexes.
LEMMA SweepStep ==
    ASSUME TypeOK, IndexExact, TablesAgree, Sweep
    PROVE  TypeOK' /\ IndexExact' /\ TablesAgree'
<1> DEFINE idleFlows == {f \in Flows : flowAge[f] > FlowTimeout}
           idleConns == {f \in Flows : connAge[f] > ConnExpiry}
<1>1. /\ flowAge' = Drop(flowAge, idleFlows)
      /\ connAge' = Drop(connAge, idleConns)
      /\ bySrc' = Unindex(bySrc, idleConns)
      /\ byDst' = Unindex(byDst, idleConns)
  BY DEF Sweep
<1> HIDE DEF idleFlows, idleConns
<1>2. TypeOK'
  BY <1>1 DEF TypeOK, Drop, Unindex
<1>3. Present(connAge') = Present(connAge) \ idleConns
  BY <1>1 DEF Present, Drop
<1>4. IndexExact'
  BY <1>1, <1>3 DEF IndexExact, Unindex
<1>5. TablesAgree'
  BY <1>1 DEF TablesAgree, Present, Drop
<1>6. QED
  BY <1>2, <1>4, <1>5

\* Seeing a flow stamps it, whether or not others were evicted to admit it.
LEMMA SeeFlowEffect ==
    ASSUME TypeOK, NEW f \in Flows, SeeFlow(f)
    PROVE  /\ flowAge' \in [Flows -> Ages \cup {Absent}]
           /\ flowAge'[f] = 0
           /\ \A g \in Flows \ {f} : flowAge'[g] = flowAge[g] \/ flowAge'[g] = Absent
<1>1. 0 \in Ages
  BY TablesAssumption DEF Ages
<1>2. CASE flowAge' = [flowAge EXCEPT ![f] = 0]
  BY <1>1, <1>2 DEF TypeOK
<1>3. ASSUME NEW gone \in StaleFlows, flowAge' = [Drop(flowAge, gone) EXCEPT ![f] = 0]
      PROVE  /\ flowAge' \in [Flows -> Ages \cup {Absent}]
             /\ flowAge'[f] = 0
             /\ \A g \in Flows \ {f} : flowAge'[g] = flowAge[g] \/ flowAge'[g] = Absent
  BY <1>1, <1>3 DEF TypeOK, Drop
<1>4. QED
  BY <1>2, <1>3 DEF SeeFlow

\* Touching a connection stamps it and keeps both indexes exact, whether the
\* connection was known, new, or new and displacing the oldest ones.
LEMMA TouchConnEffect ==
    ASSUME TypeOK, IndexExact, NEW f \in Flows, TouchConn(f)
    PROVE  /\ connAge' \in [Flows -> Ages \cup {Absent}]
           /\ connAge'[f] = 0
           /\ \A g \in Flows \ {f} : connAge'[g] = connAge[g] \/ connAge'[g] = Absent
           /\ bySrc' \in [Hosts -> SUBSET Flows] /\ byDst' \in [Hosts -> SUBSET Flows]
           /\ IndexExact'
<1>1. 0 \in Ages /\ 0 # Absent /\ Src[f] \in Hosts /\ Dst[f] \in Hosts
  BY TablesAssumption DEF Ages, Absent
<1>2. CASE /\ connAge[f] # Absent
           /\ connAge' = [connAge EXCEPT ![f] = 0]
           /\ UNCHANGED indexVars
  <2>1. Present(connAge') = Present(connAge)
    BY <1>1, <1>2 DEF Present, TypeOK
  <2>2. IndexExact'
    BY <1>2, <2>1 DEF IndexExact, indexVars
  <2>3. QED
    BY <1>1, <1>2, <2>2 DEF TypeOK, indexVars
<1>3. ASSUME connAge[f] = Absent,
             NEW gone \in OverCap(f),
             connAge' = [Drop(connAge, gone) EXCEPT ![f] = 0],
             bySrc' = Unindex([bySrc EXCEPT ![Src[f]] = @ \cup {f}], gone),
             byDst' = Unindex([byDst EXCEPT ![Dst[f]] = @ \cup {f}], gone)
      PROVE  /\ connAge' \in [Flows -> Ages \cup {Absent}]
             /\ connAge'[f] = 0
             /\ \A g \in Flows \ {f} : connAge'[g] = connAge[g] \/ connAge'[g] = Absent
             /\ bySrc' \in [Hosts -> SUBSET Flows] /\ byDst' \in [Hosts -> SUBSET Flows]
             /\ IndexExact'
  <2>1. gone \subseteq Present(connAge) /\ f \notin gone
    BY <1>3, OverCapTracked DEF Present
  <2>2. Present(connAge') = (Present(connAge) \ gone) \cup {f}
    BY <1>1, <1>3, <2>1 DEF Present, Drop, TypeOK
  <2>3. \A h \in Hosts : bySrc'[h] = IF h = Src[f] THEN (bySrc[h] \cup {f}) \ gone
                                                   ELSE bySrc[h] \ gone
    BY <1>1, <1>3 DEF Unindex, TypeOK
  <2>4. \A h \in Hosts : byDst'[h] = IF h = Dst[f] THEN (byDst[h] \cup {f}) \ gone
                                                   ELSE byDst[h] \ gone
    BY <1>1, <1>3 DEF Unindex, TypeOK
  <2>5. \A h \in Hosts : bySrc'[h] = {g \in Present(connAge') : Src[g] = h}
    <3> SUFFICES ASSUME NEW h \in Hosts
                 PROVE  bySrc'[h] = {g \in Present(connAge') : Src[g] = h}
      OBVIOUS
    <3>1. bySrc[h] = {g \in Present(connAge) : Src[g] = h}
      BY DEF IndexExact
    <3>2. CASE h = Src[f]
      <4>1. bySrc'[h] = (bySrc[h] \cup {f}) \ gone
        BY <3>2, <2>3
      <4>2. QED
        BY <2>1, <2>2, <3>1, <3>2, <4>1
    <3>3. CASE h # Src[f]
      <4>1. bySrc'[h] = bySrc[h] \ gone
        BY <3>3, <2>3
      <4>2. QED
        BY <2>1, <2>2, <3>1, <3>3, <4>1
    <3>4. QED
      BY <3>2, <3>3
  <2>6. \A h \in Hosts : byDst'[h] = {g \in Present(connAge') : Dst[g] = h}
    <3> SUFFICES ASSUME NEW h \in Hosts
                 PROVE  byDst'[h] = {g \in Present(connAge') : Dst[g] = h}
      OBVIOUS
    <3>1. byDst[h] = {g \in Present(connAge) : Dst[g] = h}
      BY DEF IndexExact
    <3>2. CASE h = Dst[f]
      <4>1. byDst'[h] = (byDst[h] \cup {f}) \ gone
        BY <3>2, <2>4
      <4>2. QED
        BY <2>1, <2>2, <3>1, <3>2, <4>1
    <3>3. CASE h # Dst[f]
      <4>1. byDst'[h] = byDst[h] \ gone
        BY <3>3, <2>4
      <4>2. QED
        BY <2>1, <2>2, <3>1, <3>3, <4>1
    <3>4. QED
      BY <3>2, <3>3
  <2>7. IndexExact'
    BY <2>5, <2>6 DEF IndexExact
  <2>8. bySrc' \in [Hosts -> SUBSET Flows] /\ byDst' \in [Hosts -> SUBSET Flows]
    BY <1>1, <1>3 DEF Unindex, TypeOK
  <2>9. /\ connAge' \in [Flows -> Ages \cup {Absent}]
        /\ connAge'[f] = 0
        /\ \A g \in Flows \ {f} : connAge'[g] = connAge[g] \/ connAge'[g] = Absent
    BY <1>1, <1>3 DEF Drop, TypeOK
  <2>10. QED
    BY <1>1, <1>3, <2>7, <2>8, <2>9 DEF TypeOK
<1>4. QED
  BY <1>2, <1>3 DEF TouchConn

\* Processing a record keeps the tables well typed, indexed and agreeing.
LEMMA RecordStep ==
    ASSUME TypeOK, IndexExact, TablesAgree, NEW f \in Flows, Record(f)
    PROVE  TypeOK' /\ IndexExact' /\ TablesAgree'
<1>1. /\ flowAge' \in [Flows -> Ages \cup {Absent}]
      /\ flowAge'[f] = 0
      /\ \A g \in Flows \ {f} : flowAge'[g] = flowAge[g] \/ flowAge'[g] = Absent
  BY SeeFlowEffect DEF Record
<1>2. /\ connAge' \in [Flows -> Ages \cup {Absent}]
      /\ connAge'[f] = 0
      /\ \A g \in Flows \ {f} : connAge'[g] = connAge[g] \/ connAge'[g] = Absent
      /\ bySrc' \in [Hosts -> SUBSET Flows] /\ byDst' \in [Hosts -> SUBSET Flows]
      /\ IndexExact'
  BY TouchConnEffect DEF Record
<1>3. TablesAgree'
  BY <1>1, <1>2 DEF TablesAgree, Present
<1>4. QED
  BY <1>1, <1>2, <1>3 DEF TypeOK

\* The tables are always well typed and their indexes exact.
THEOREM TablesInvariant == Spec => [](TypeOK /\ IndexExact /\ TablesAgree)
<1>1. TypeOK /\ IndexExact /\ TablesAgree /\ [Next]_vars
        => TypeOK' /\ IndexExact' /\ TablesAgree'
  <2> SUFFICES ASSUME TypeOK, IndexExact, TablesAgree, [Next]_vars
               PROVE  TypeOK' /\ IndexExact' /\ TablesAgree'
    OBVIOUS
  <2>1. CASE Tick
    BY <2>1, TickStep
  <2>2. CASE Sweep
    BY <2>2, SweepStep
  <2>3. ASSUME NEW f \in Flows, Record(f)
        PROVE  TypeOK' /\ IndexExact' /\ TablesAgree'
    BY <2>3, RecordStep
  <2>4. CASE UNCHANGED vars
    BY <2>4 DEF vars, indexVars, TypeOK, IndexExact, TablesAgree, Present
  <2>5. QED
    BY <2>1, <2>2, <2>3, <2>4 DEF Next
<1>2. QED
  BY <1>1, InitInv, PTL DEF Spec

\* Capping and expiry never leave a dangling or a missing index entry.
THEOREM IndexesExact == Spec => []IndexExact
BY TablesInvariant, PTL

\* A flow and its connection were last seen at the same time.
THEOREM TablesAgreement == Spec => []TablesAgree
BY TablesInvariant, PTL

\* No step of any kind forgets a flow that is not idle.
THEOREM FreshFlowsKept == Spec => OnlyIdleFlowsForgotten
<1> DEFINE Kept == \A f \in Present(flowAge) \ Present(flowAge') : flowAge[f] > IdleGrace
<1>1. TypeOK /\ [Next]_vars => [Kept]_vars
  <2> SUFFICES ASSUME TypeOK, Next, NEW f \in Flows,
                      flowAge[f] # Absent, flowAge'[f] = Absent
               PROVE  flowAge[f] > IdleGrace
    BY DEF Present
  <2>1. CASE Tick
    BY <2>1, TablesAssumption DEF Tick, Older, TypeOK, Ages, Absent
  <2>2. CASE Sweep
    BY <2>2, TablesAssumption DEF Sweep, Drop, TypeOK, Ages, Absent
  <2>3. ASSUME NEW g \in Flows, Record(g)
        PROVE  flowAge[f] > IdleGrace
    <3>1. CASE flowAge' = [flowAge EXCEPT ![g] = 0]
      BY <3>1 DEF TypeOK, Absent
    <3>2. ASSUME NEW gone \in StaleFlows, flowAge' = [Drop(flowAge, gone) EXCEPT ![g] = 0]
          PROVE  flowAge[f] > IdleGrace
      <4>1. f \in gone
        BY <3>2 DEF Drop, Absent
      <4>2. QED
        BY <4>1, StaleFlowsIdle
    <3>3. QED
      BY <2>3, <3>1, <3>2 DEF Record, SeeFlow
  <2>4. QED
    BY <2>1, <2>2, <2>3 DEF Next
<1>2. Spec => [][Kept]_vars
  BY <1>1, TablesInvariant, PTL DEF Spec
<1>3. QED
  BY <1>2 DEF OnlyIdleFlowsForgotten

-----------------------------------------------------------------------------
(* The flow table as the pipeline sees it. *)

\* Aging an entry neither adds nor removes one.
LEMMA TickKeepsPresent ==
    ASSUME TypeOK, Tick
    PROVE  Present(flowAge)' = Present(flowAge)
<1>1. \A f \in Flows : (Older(flowAge[f]) = Absent) <=> (flowAge[f] = Absent)
  BY TablesAssumption DEF TypeOK, Older, Ages, Absent
<1> QED BY <1>1 DEF Tick, Present

\* Updating a flow leaves it in the table, and only the insertion of a new
\* flow removes others.
LEMMA SeeFlowIsSee ==
    ASSUME TypeOK, NEW f \in Flows, SeeFlow(f)
    PROVE  Memory!See(f)
<1>1. 0 # Absent
  BY DEF Absent
<1>2. CASE flowAge[f] # Absent /\ flowAge' = [flowAge EXCEPT ![f] = 0]
  <2>1. f \in Present(flowAge) /\ Present(flowAge)' = Present(flowAge)
    BY <1>1, <1>2 DEF TypeOK, Present
  <2> QED BY <2>1 DEF Memory!See
<1>3. ASSUME flowAge[f] = Absent, NEW gone \in StaleFlows,
             flowAge' = [Drop(flowAge, gone) EXCEPT ![f] = 0]
      PROVE  Memory!See(f)
  <2>1. gone \subseteq Present(flowAge)
    BY StaleFlowsIdle, TablesAssumption DEF Present, Absent
  <2>2. gone \in Memory!Forgettable
    BY <2>1 DEF Memory!Forgettable
  <2>3. f \notin Present(flowAge)
    BY <1>3 DEF Present
  <2>4. Present(flowAge)' = (Present(flowAge) \ gone) \cup {f}
    BY <1>1, <1>3, <2>1, <2>3 DEF Present, Drop
  <2> QED BY <2>2, <2>3, <2>4 DEF Memory!See
<1> QED BY <1>2, <1>3 DEF SeeFlow

\* The flow table implements the memory the detection pipeline is specified with:
\* what is proved of the pipeline holds with the real table under it.
THEOREM TablesAreMemory == Spec => ImplementsMemory
<1>1. Init => Memory!MemoryInit
  BY DEF Init, Memory!MemoryInit, Present
<1>2. TypeOK /\ [Next]_vars => [Memory!MemoryNext]_(Present(flowAge))
  <2> SUFFICES ASSUME TypeOK, [Next]_vars
               PROVE  Memory!MemoryNext \/ UNCHANGED Present(flowAge)
    OBVIOUS
  <2>1. CASE Tick
    BY <2>1, TickKeepsPresent
  <2>2. CASE Sweep
    <3> DEFINE idle == {f \in Flows : flowAge[f] > FlowTimeout}
    <3>1. idle \subseteq Present(flowAge)
      BY TablesAssumption DEF Present, Absent
    <3>2. flowAge' = Drop(flowAge, idle)
      BY <2>2 DEF Sweep
    <3>3. Present(flowAge)' = Present(flowAge) \ idle
      BY <3>2 DEF Present, Drop
    <3> HIDE DEF idle
    <3> QED BY <3>1, <3>3 DEF Memory!MemoryNext, Memory!Expire, Memory!Forgettable
  <2>3. ASSUME NEW f \in Flows, Record(f)
        PROVE  Memory!MemoryNext
    BY <2>3, SeeFlowIsSee DEF Record, Memory!MemoryNext
  <2>4. CASE UNCHANGED vars
    BY <2>4 DEF vars, Present
  <2> QED BY <2>1, <2>2, <2>3, <2>4 DEF Next
<1> QED
  BY <1>1, <1>2, TablesInvariant, PTL DEF Spec, ImplementsMemory, Memory!MemorySpec

-----------------------------------------------------------------------------
(* The cap of the connection tracker. *)

\* The cap and the size the tracker is cut to, whatever the configured cap is.
LEMMA CapBounds == CapHigh \in Nat /\ CapLow \in Nat /\ CapLow <= CapHigh /\ 1 <= CapHigh
BY TablesAssumption DEF CapHigh, CapLow

\* Removing entries from a table removes them from its size.
LEMMA DifferenceSize ==
    ASSUME NEW S, IsFiniteSet(S), NEW T \in SUBSET S
    PROVE  /\ IsFiniteSet(S \ T)
           /\ Cardinality(S) \in Nat /\ Cardinality(T) \in Nat
           /\ Cardinality(T) <= Cardinality(S)
           /\ Cardinality(S \ T) = Cardinality(S) - Cardinality(T)
<1>1. S \cap T = T
  OBVIOUS
<1>2. IsFiniteSet(T) /\ Cardinality(T) <= Cardinality(S)
  BY FS_Subset
<1>3. IsFiniteSet(S \ T) /\ Cardinality(S \ T) = Cardinality(S) - Cardinality(S \cap T)
  BY FS_Difference
<1>4. Cardinality(S) \in Nat /\ Cardinality(T) \in Nat
  BY <1>2, FS_CardinalityType
<1>5. QED
  BY <1>1, <1>2, <1>3, <1>4

\* After a new connection displaced the oldest ones the cap holds again.
LEMMA CapEnforced ==
    ASSUME NEW f \in Flows, connAge[f] = Absent, NEW gone \in OverCap(f)
    PROVE  Cardinality((Present(connAge) \ gone) \cup {f}) <= CapHigh
<1> DEFINE others == Present(connAge)
           size == Cardinality(others) + 1
<1>1. IsFiniteSet(others) /\ f \notin others
  BY FS_Subset, TablesAssumption DEF Present
<1>2. gone \in SUBSET others
  BY OverCapTracked
<1>3. /\ IsFiniteSet(others \ gone)
      /\ Cardinality(others) \in Nat /\ Cardinality(gone) \in Nat
      /\ Cardinality(gone) <= Cardinality(others)
      /\ Cardinality(others \ gone) = Cardinality(others) - Cardinality(gone)
  BY <1>1, <1>2, DifferenceSize
<1>4. Cardinality((others \ gone) \cup {f}) = (Cardinality(others) - Cardinality(gone)) + 1
  BY <1>1, <1>3, FS_AddElement
<1>5. CASE size > CapHigh
  <2>1. Cardinality(gone) = IF Cardinality(others) < size - CapLow
                            THEN Cardinality(others) ELSE size - CapLow
    BY <1>5 DEF OverCap, Oldest
  <2>2. QED
    BY <1>3, <1>4, <1>5, <2>1, CapBounds
<1>6. CASE ~(size > CapHigh)
  BY <1>3, <1>4, <1>6, CapBounds
<1>7. QED
  BY <1>5, <1>6

\* The number of tracked connections never exceeds the upper cap.
THEOREM TrackerCap == Spec => []ConnectionsBounded
<1>1. Init => ConnectionsBounded
  <2> SUFFICES ASSUME Init PROVE Cardinality(Present(connAge)) <= CapHigh
    BY DEF ConnectionsBounded
  <2>1. Present(connAge) = {}
    BY DEF Init, Present
  <2>2. QED
    BY <2>1, FS_EmptySet, CapBounds
<1>2. TypeOK /\ ConnectionsBounded /\ [Next]_vars => ConnectionsBounded'
  <2> SUFFICES ASSUME TypeOK, ConnectionsBounded, [Next]_vars
               PROVE  Cardinality(Present(connAge')) <= CapHigh
    BY DEF ConnectionsBounded, CapHigh
  <2>1. ASSUME Present(connAge') \subseteq Present(connAge)
        PROVE  Cardinality(Present(connAge')) <= CapHigh
    <3>1. IsFiniteSet(Present(connAge))
      BY FS_Subset, TablesAssumption DEF Present
    <3>2. IsFiniteSet(Present(connAge')) /\ Cardinality(Present(connAge')) <= Cardinality(Present(connAge))
      BY <2>1, <3>1, FS_Subset
    <3>3. Cardinality(Present(connAge')) \in Nat /\ Cardinality(Present(connAge)) \in Nat
      BY <3>1, <3>2, FS_CardinalityType
    <3>4. QED
      BY <3>2, <3>3, CapBounds DEF ConnectionsBounded
  <2>2. CASE Tick
    <3>1. Present(connAge') \subseteq Present(connAge)
      BY <2>2 DEF Tick, Present, Older, TypeOK
    <3>2. QED
      BY <2>1, <3>1
  <2>3. CASE Sweep
    <3>1. Present(connAge') \subseteq Present(connAge)
      BY <2>3 DEF Sweep, Present, Drop
    <3>2. QED
      BY <2>1, <3>1
  <2>4. ASSUME NEW f \in Flows, Record(f)
        PROVE  Cardinality(Present(connAge')) <= CapHigh
    <3>0. 0 # Absent /\ connAge \in [Flows -> Ages \cup {Absent}]
      BY DEF Absent, TypeOK
    <3>1. CASE connAge[f] # Absent /\ connAge' = [connAge EXCEPT ![f] = 0]
      <4>1. Present(connAge') \subseteq Present(connAge)
        BY <3>0, <3>1 DEF Present
      <4>2. QED
        BY <2>1, <4>1
    <3>2. ASSUME connAge[f] = Absent, NEW gone \in OverCap(f),
                 connAge' = [Drop(connAge, gone) EXCEPT ![f] = 0]
          PROVE  Cardinality(Present(connAge')) <= CapHigh
      <4>1. Present(connAge') = (Present(connAge) \ gone) \cup {f}
        BY <3>0, <3>2 DEF Present, Drop
      <4>2. QED
        BY <3>2, <4>1, CapEnforced
    <3>3. QED
      BY <2>4, <3>1, <3>2 DEF Record, TouchConn
  <2>5. CASE UNCHANGED vars
    <3>1. Present(connAge') \subseteq Present(connAge)
      BY <2>5 DEF vars, Present
    <3>2. QED
      BY <2>1, <3>1
  <2>6. QED
    BY <2>2, <2>3, <2>4, <2>5 DEF Next
<1>3. QED
  BY <1>1, <1>2, TablesInvariant, PTL DEF Spec

-----------------------------------------------------------------------------
(* What capping forgets, and what the features are computed from. *)

\* A new connection that displaces others leaves exactly the lower cap, and
\* every connection it leaves is at least as recent as every displaced one.
LEMMA Displacement ==
    ASSUME connAge \in [Flows -> Ages \cup {Absent}], NEW f \in Flows,
           connAge[f] = Absent, NEW gone \in OverCap(f), NEW e \in gone
    PROVE  /\ Cardinality((Present(connAge) \ gone) \cup {f}) = CapLow
           /\ \A g \in Present(connAge) \ gone : connAge[g] <= connAge[e]
<1> DEFINE others == Present(connAge)
           size == Cardinality(others) + 1
<1>1. IsFiniteSet(others) /\ f \notin others
  BY FS_Subset, TablesAssumption DEF Present
<1>2. gone \in SUBSET others
  BY OverCapTracked
<1>3. /\ IsFiniteSet(others \ gone)
      /\ Cardinality(others) \in Nat /\ Cardinality(gone) \in Nat
      /\ Cardinality(others \ gone) = Cardinality(others) - Cardinality(gone)
  BY <1>1, <1>2, DifferenceSize
<1>4. size > CapHigh /\ gone \in Oldest(others, connAge, size - CapLow)
  BY DEF OverCap
<1>5. 1 <= CapLow /\ CapLow \in Nat /\ CapHigh \in Nat /\ CapLow <= CapHigh
  BY TablesAssumption DEF CapLow, CapHigh
<1>6. Cardinality(gone) = size - CapLow
  BY <1>3, <1>4, <1>5 DEF Oldest
<1>7. Cardinality((others \ gone) \cup {f}) = (Cardinality(others) - Cardinality(gone)) + 1
  BY <1>1, <1>3, FS_AddElement
<1>8. Cardinality((others \ gone) \cup {f}) = CapLow
  BY <1>3, <1>5, <1>6, <1>7
<1>9. \A g \in others \ gone : connAge[g] <= connAge[e]
  BY <1>2, <1>4, <1>5 DEF Oldest, Present, Ages, Absent
<1> QED
  BY <1>8, <1>9

\* The tables of the composed specification behave as FlowTables says.
THEOREM TablesUnderFeatures == FeaturesSpec => Spec
<1>1. FeaturesInit => Init
  BY DEF FeaturesInit
<1>2. [FeaturesNext]_featureVars => [Next]_vars
  BY DEF FeaturesNext, featureVars, Next, RecordAndExtract
<1> QED
  BY <1>1, <1>2, PTL DEF FeaturesSpec, Spec

QuietTyped == quiet \in [Flows -> Ages]

\* A tracked connection is as old as its last report.
QuietIsAge == \A f \in Present(connAge) : quiet[f] = connAge[f]

\* The connections tracked that are at least as recent as the report of f.
AsRecent(f) == {g \in Present(connAge) : connAge[g] <= quiet[f]}

LEMMA FloodByAsRecent ==
    ForgottenOnlyUnderFlood <=>
        \A f \in Reported(ConnExpiry) \ Present(connAge) : Cardinality(AsRecent(f)) >= CapLow
BY DEF ForgottenOnlyUnderFlood, AsRecent

\* As long as the connections as recent as a forgotten one stay, they suffice.
LEMMA StillEnough ==
    ASSUME NEW T \in SUBSET Flows, NEW S \in SUBSET T, Cardinality(S) >= CapLow
    PROVE  Cardinality(T) >= CapLow
<1>1. IsFiniteSet(T) /\ IsFiniteSet(S) /\ Cardinality(S) <= Cardinality(T)
  BY FS_Subset, TablesAssumption
<1>2. Cardinality(T) \in Nat /\ Cardinality(S) \in Nat
  BY <1>1, FS_CardinalityType
<1> QED
  BY <1>1, <1>2, CapBounds

LEMMA FeaturesStart ==
    FeaturesInit => QuietTyped /\ QuietIsAge /\ ForgottenOnlyUnderFlood
<1> SUFFICES ASSUME FeaturesInit
             PROVE  QuietTyped /\ QuietIsAge /\ ForgottenOnlyUnderFlood
  OBVIOUS
<1>1. AgeCap \in Ages /\ ~(AgeCap <= ConnExpiry)
  BY TablesAssumption DEF Ages
<1>2. Present(connAge) = {} /\ Reported(ConnExpiry) = {}
  BY <1>1 DEF FeaturesInit, Init, Present, Reported
<1> QED
  BY <1>1, <1>2 DEF FeaturesInit, QuietTyped, QuietIsAge, ForgottenOnlyUnderFlood

\* Time ages a forgotten connection and those that outlived it alike.
LEMMA FeaturesTick ==
    ASSUME TypeOK, QuietTyped, QuietIsAge, ForgottenOnlyUnderFlood,
           Tick, quiet' = [f \in Flows |-> Older(quiet[f])]
    PROVE  QuietTyped' /\ QuietIsAge' /\ ForgottenOnlyUnderFlood'
<1>1. \A f \in Flows : /\ quiet'[f] \in Ages
                       /\ quiet'[f] = IF quiet[f] = AgeCap THEN AgeCap ELSE quiet[f] + 1
  BY TablesAssumption DEF QuietTyped, Older, Ages, Absent
<1>2. QuietTyped'
  BY <1>1 DEF QuietTyped
<1>3. /\ Present(connAge') = Present(connAge)
      /\ \A g \in Present(connAge) :
            /\ connAge[g] \in Ages
            /\ connAge'[g] = IF connAge[g] = AgeCap THEN AgeCap ELSE connAge[g] + 1
  BY TablesAssumption DEF Tick, TypeOK, Present, Older, Ages, Absent
<1>4. QuietIsAge'
  BY <1>1, <1>3 DEF QuietIsAge, Present
<1>5. ASSUME NEW f \in Reported(ConnExpiry)' \ Present(connAge')
      PROVE  Cardinality(AsRecent(f)') >= CapLow
  <2>1. f \in Flows /\ quiet[f] \in Ages /\ quiet'[f] <= ConnExpiry
    BY <1>5 DEF Reported, QuietTyped
  <2>2. quiet'[f] = quiet[f] + 1 /\ quiet[f] < ConnExpiry
    BY <1>1, <2>1, TablesAssumption DEF Ages
  <2>3. Cardinality(AsRecent(f)) >= CapLow
    BY <1>3, <1>5, <2>1, <2>2, FloodByAsRecent, TablesAssumption DEF Reported, Ages
  <2>4. AsRecent(f) \subseteq AsRecent(f)'
    BY <1>3, <2>1, <2>2, TablesAssumption DEF AsRecent, Ages
  <2>5. AsRecent(f)' \subseteq Flows
    BY DEF AsRecent, Present
  <2> HIDE DEF AsRecent
  <2> QED
    BY <2>3, <2>4, <2>5, StillEnough
<1>6. ForgottenOnlyUnderFlood'
  BY <1>5 DEF ForgottenOnlyUnderFlood, AsRecent, CapLow
<1> QED
  BY <1>2, <1>4, <1>6

\* A sweep drops no connection that is as recent as one that counts.
LEMMA FeaturesSweep ==
    ASSUME TypeOK, QuietTyped, QuietIsAge, ForgottenOnlyUnderFlood,
           Sweep, UNCHANGED quiet
    PROVE  QuietTyped' /\ QuietIsAge' /\ ForgottenOnlyUnderFlood'
<1> DEFINE idle == {f \in Flows : connAge[f] > ConnExpiry}
<1>1. connAge' = Drop(connAge, idle)
  BY DEF Sweep
<1>2. /\ Present(connAge') = Present(connAge) \ idle
      /\ \A g \in Present(connAge') : connAge'[g] = connAge[g]
  BY <1>1 DEF Present, Drop
<1>3. QuietTyped' /\ QuietIsAge'
  BY <1>2 DEF QuietTyped, QuietIsAge
<1>4. ASSUME NEW f \in Reported(ConnExpiry)' \ Present(connAge')
      PROVE  Cardinality(AsRecent(f)') >= CapLow
  <2>1. f \in Flows /\ quiet[f] \in Ages /\ quiet[f] <= ConnExpiry
    BY <1>4 DEF Reported, QuietTyped
  <2>2. ASSUME f \in Present(connAge) PROVE FALSE
    <3>1. f \in idle
      BY <1>2, <1>4, <2>2
    <3>2. connAge[f] = quiet[f] /\ connAge[f] > ConnExpiry
      BY <2>2, <3>1 DEF QuietIsAge
    <3> QED
      BY <2>1, <3>2, TablesAssumption DEF Ages
  <2>3. Cardinality(AsRecent(f)) >= CapLow
    BY <2>1, <2>2, FloodByAsRecent DEF Reported
  <2>4. AsRecent(f) \subseteq AsRecent(f)'
    BY <1>2, <2>1, TablesAssumption DEF AsRecent, Ages, TypeOK, Present, Absent
  <2>5. AsRecent(f)' \subseteq Flows
    BY DEF AsRecent, Present
  <2> HIDE DEF AsRecent
  <2> QED
    BY <2>3, <2>4, <2>5, StillEnough
<1>5. ForgottenOnlyUnderFlood'
  BY <1>4 DEF ForgottenOnlyUnderFlood, AsRecent, CapLow
<1> QED
  BY <1>3, <1>5

\* A report of a known connection only makes it more recent.
LEMMA FeaturesRefresh ==
    ASSUME TypeOK, QuietTyped, QuietIsAge, ForgottenOnlyUnderFlood, NEW f \in Flows,
           connAge[f] # Absent, connAge' = [connAge EXCEPT ![f] = 0],
           quiet' = [quiet EXCEPT ![f] = 0]
    PROVE  QuietTyped' /\ QuietIsAge' /\ ForgottenOnlyUnderFlood'
<1>1. 0 \in Ages /\ 0 # Absent /\ \A g \in Ages : 0 <= g
  BY TablesAssumption DEF Ages, Absent
<1>2. Present(connAge') = Present(connAge)
  BY <1>1 DEF Present, TypeOK
<1>3. QuietTyped' /\ QuietIsAge'
  BY <1>1, <1>2 DEF QuietTyped, QuietIsAge, TypeOK
<1>4. ASSUME NEW e \in Reported(ConnExpiry)' \ Present(connAge')
      PROVE  Cardinality(AsRecent(e)') >= CapLow
  <2>1. e \in Flows /\ e # f /\ quiet'[e] = quiet[e] /\ quiet[e] \in Ages
    BY <1>2, <1>4 DEF Reported, QuietTyped, Present
  <2>2. Cardinality(AsRecent(e)) >= CapLow
    BY <1>2, <1>4, <2>1, FloodByAsRecent DEF Reported
  <2>3. AsRecent(e) \subseteq AsRecent(e)'
    BY <1>1, <1>2, <2>1 DEF AsRecent, TypeOK, Present
  <2>4. AsRecent(e)' \subseteq Flows
    BY DEF AsRecent, Present
  <2> HIDE DEF AsRecent
  <2> QED
    BY <2>2, <2>3, <2>4, StillEnough
<1>5. ForgottenOnlyUnderFlood'
  BY <1>4 DEF ForgottenOnlyUnderFlood, AsRecent, CapLow
<1> QED
  BY <1>3, <1>5

\* A new connection may displace others.  Those it leaves are at least as
\* recent as any that is gone by now, unless it displaced none of those that
\* count for the forgotten one.
LEMMA FeaturesInsert ==
    ASSUME TypeOK, QuietTyped, QuietIsAge, ForgottenOnlyUnderFlood, NEW f \in Flows,
           connAge[f] = Absent, NEW gone \in OverCap(f),
           connAge' = [Drop(connAge, gone) EXCEPT ![f] = 0],
           quiet' = [quiet EXCEPT ![f] = 0]
    PROVE  QuietTyped' /\ QuietIsAge' /\ ForgottenOnlyUnderFlood'
<1> DEFINE left == (Present(connAge) \ gone) \cup {f}
<1>1. /\ 0 \in Ages /\ 0 # Absent /\ (\A a \in Ages : 0 <= a)
      /\ connAge \in [Flows -> Ages \cup {Absent}]
      /\ gone \subseteq Present(connAge) /\ f \notin Present(connAge)
  BY OverCapTracked, TablesAssumption DEF Ages, Absent, TypeOK, Present
<1>2. /\ Present(connAge') = left
      /\ \A g \in left \ {f} : connAge'[g] = connAge[g]
      /\ connAge'[f] = 0
  BY <1>1 DEF Present, Drop
<1>3. QuietTyped' /\ QuietIsAge'
  <2>1. QuietTyped'
    BY <1>1 DEF QuietTyped
  <2>2. \A g \in left \ {f} : quiet'[g] = connAge'[g]
    BY <1>2 DEF QuietIsAge, QuietTyped, Present
  <2>3. quiet'[f] = connAge'[f]
    BY <1>2 DEF QuietTyped
  <2> QED
    BY <1>2, <2>1, <2>2, <2>3 DEF QuietIsAge
<1>4. ASSUME NEW e \in Reported(ConnExpiry)' \ Present(connAge')
      PROVE  Cardinality(AsRecent(e)') >= CapLow
  <2>1. e \in Flows /\ e # f /\ quiet'[e] = quiet[e] /\ quiet[e] \in Ages
        /\ quiet[e] <= ConnExpiry
    BY <1>2, <1>4 DEF Reported, QuietTyped
  <2>2. AsRecent(e)' \subseteq Flows
    BY DEF AsRecent, Present
  <2>3. ASSUME NEW d \in gone, connAge[d] <= quiet[e]
        PROVE  Cardinality(AsRecent(e)') >= CapLow
    <3>1. Cardinality(left) = CapLow /\ \A g \in left \ {f} : connAge[g] <= connAge[d]
      BY <1>1, Displacement
    <3>2. \A g \in left \ {f} : connAge[g] <= quiet[e]
      BY <1>1, <2>1, <2>3, <3>1 DEF Present, Ages, Absent
    <3>3. left \subseteq AsRecent(e)'
      BY <1>1, <1>2, <2>1, <3>2 DEF AsRecent
    <3>4. Cardinality(left) >= CapLow
      BY <3>1, CapBounds
    <3> HIDE DEF left, AsRecent
    <3> QED
      BY <2>2, <3>3, <3>4, StillEnough
  <2>4. CASE \A d \in gone : ~(connAge[d] <= quiet[e])
    <3>1. e \notin Present(connAge)
      BY <1>1, <1>2, <1>4, <2>1, <2>4 DEF QuietIsAge, Present, Ages, Absent
    <3>2. Cardinality(AsRecent(e)) >= CapLow
      BY <2>1, <3>1, FloodByAsRecent DEF Reported
    <3>3. AsRecent(e) \subseteq AsRecent(e)'
      BY <1>1, <1>2, <2>1, <2>4 DEF AsRecent
    <3> HIDE DEF left, AsRecent
    <3> QED
      BY <2>2, <3>2, <3>3, StillEnough
  <2> QED
    BY <2>3, <2>4
<1>5. ForgottenOnlyUnderFlood'
  BY <1>4 DEF ForgottenOnlyUnderFlood, AsRecent, CapLow
<1> QED
  BY <1>3, <1>5

LEMMA FeaturesInvariant ==
    FeaturesSpec => [](QuietTyped /\ QuietIsAge /\ ForgottenOnlyUnderFlood)
<1>1. TypeOK /\ QuietTyped /\ QuietIsAge /\ ForgottenOnlyUnderFlood
        /\ [FeaturesNext]_featureVars
        => QuietTyped' /\ QuietIsAge' /\ ForgottenOnlyUnderFlood'
  <2> SUFFICES ASSUME TypeOK, QuietTyped, QuietIsAge, ForgottenOnlyUnderFlood,
                      [FeaturesNext]_featureVars
               PROVE  QuietTyped' /\ QuietIsAge' /\ ForgottenOnlyUnderFlood'
    OBVIOUS
  <2>1. CASE Tick /\ quiet' = [f \in Flows |-> Older(quiet[f])]
    BY <2>1, FeaturesTick
  <2>2. CASE Sweep /\ UNCHANGED quiet
    BY <2>2, FeaturesSweep
  <2>3. ASSUME NEW f \in Flows, RecordAndExtract(f)
        PROVE  QuietTyped' /\ QuietIsAge' /\ ForgottenOnlyUnderFlood'
    BY <2>3, FeaturesRefresh, FeaturesInsert DEF RecordAndExtract, Record, TouchConn
  <2>4. CASE UNCHANGED featureVars
    BY <2>4 DEF featureVars, vars, indexVars, QuietTyped, QuietIsAge,
                ForgottenOnlyUnderFlood, Reported, Present, CapLow
  <2> QED
    BY <2>1, <2>2, <2>3, <2>4 DEF FeaturesNext
<1> QED
  BY <1>1, FeaturesStart, TablesUnderFeatures, TablesInvariant, PTL DEF FeaturesSpec

\* A connection reported within its expiry time is missing from the tracker
\* only if CapLow tracked connections are at least as recent, however many
\* floods, expiries and returns came before.
THEOREM ForgottenUnderFlood == FeaturesSpec => []ForgottenOnlyUnderFlood
BY FeaturesInvariant, PTL

\* What the windows select from the tables is what was reported within them,
\* if nothing recent was forgotten.
LEMMA WindowsSeeReports ==
    ASSUME TypeOK, IndexExact, QuietTyped, QuietIsAge,
           Reported(FreqWindow) \subseteq Present(connAge),
           NEW w \in Nat, w <= FreqWindow
    PROVE  /\ Reported(w) = {g \in Present(connAge) : connAge[g] <= w}
           /\ \A h \in Hosts : connections_for_src(h) = {g \in Present(connAge) : Src[g] = h}
           /\ \A h \in Hosts : connections_for_dst(h) = {g \in Present(connAge) : Dst[g] = h}
<1>1. Reported(w) \subseteq Reported(FreqWindow)
  BY FeaturesAssumption DEF Reported, QuietTyped, Ages
<1>2. Reported(w) = {g \in Present(connAge) : connAge[g] <= w}
  BY <1>1 DEF Reported, QuietIsAge, Present
<1>3. \A h \in Hosts : connections_for_src(h) = {g \in Present(connAge) : Src[g] = h}
  BY DEF IndexExact, connections_for_src, Tracked
<1>4. \A h \in Hosts : connections_for_dst(h) = {g \in Present(connAge) : Dst[g] = h}
  BY DEF IndexExact, connections_for_dst, Tracked
<1> QED
  BY <1>2, <1>3, <1>4

\* The windowed features of a flow describe the traffic of the last seconds, no
\* more and no less, unless a recent connection gave way under a flood.
THEOREM FeaturesAreRecentTraffic == FeaturesSpec => []FeaturesFollowTraffic
<1>1. TypeOK /\ IndexExact /\ QuietTyped /\ QuietIsAge => FeaturesFollowTraffic
  <2> SUFFICES ASSUME TypeOK, IndexExact, QuietTyped, QuietIsAge,
                      Reported(FreqWindow) \subseteq Present(connAge), NEW f \in Flows
               PROVE  Features(f) = TrueFeatures(f)
    BY DEF FeaturesFollowTraffic, Extracted
  <2> DEFINE now == Reported(PairWindow)
  <2>1. Src[f] \in Hosts /\ Dst[f] \in Hosts
        /\ PairWindow \in Nat /\ PairWindow <= FreqWindow
        /\ FreqWindow \in Nat /\ FreqWindow <= FreqWindow
    BY TablesAssumption, FeaturesAssumption
  <2>2. now = {g \in Present(connAge) : connAge[g] <= PairWindow}
    BY <2>1, WindowsSeeReports
  <2>3. Reported(FreqWindow) = {g \in Present(connAge) : connAge[g] <= FreqWindow}
    BY <2>1, WindowsSeeReports
  <2>4. /\ connections_for_src(Src[f]) = {g \in Present(connAge) : Src[g] = Src[f]}
        /\ connections_for_dst(Dst[f]) = {g \in Present(connAge) : Dst[g] = Dst[f]}
    BY <2>1, WindowsSeeReports
  <2>5. Recent(connections_between(f)) = {g \in {e \in now : Src[e] = Src[f]} : Dst[g] = Dst[f]}
    BY <2>2, <2>4 DEF Recent, connections_between
  <2>6. Recent(connections_for_src(Src[f])) = {g \in now : Src[g] = Src[f]}
    BY <2>2, <2>4 DEF Recent
  <2>7. Recent(connections_for_dst(Dst[f])) = {g \in now : Dst[g] = Dst[f]}
    BY <2>2, <2>4 DEF Recent
  <2>8. recent_connections_from_src(Src[f]) = {g \in Reported(FreqWindow) : Src[g] = Src[f]}
    BY <2>3, <2>4 DEF recent_connections_from_src
  <2> QED
    BY <2>5, <2>6, <2>7, <2>8 DEF Features, TrueFeatures
<1> QED
  BY <1>1, FeaturesInvariant, TablesUnderFeatures, TablesInvariant, PTL

\* A connection is forgotten because it expired, or in favour of as many as the
\* lower cap allows that are all at least as fresh.
THEOREM FreshConnectionsKept == Spec => FreshConnectionsSurvive
<1> DEFINE Survive ==
             \A f \in Present(connAge) \ Present(connAge') :
               \/ connAge[f] > ConnExpiry
               \/ /\ \A g \in Present(connAge') : connAge'[g] <= connAge[f]
                  /\ Cardinality(Present(connAge')) >= CapLow
<1>1. TypeOK /\ [Next]_vars => [Survive]_vars
  <2> SUFFICES ASSUME TypeOK, Next, NEW f \in Present(connAge) \ Present(connAge'),
                      ~(connAge[f] > ConnExpiry)
               PROVE  /\ \A g \in Present(connAge') : connAge'[g] <= connAge[f]
                      /\ Cardinality(Present(connAge')) >= CapLow
    OBVIOUS
  <2>0. f \in Flows /\ connAge[f] \in Ages /\ connAge'[f] = Absent
    BY DEF Present, TypeOK
  <2>1. CASE Tick
    BY <2>0, <2>1, TablesAssumption DEF Tick, Older, Ages, Absent
  <2>2. CASE Sweep
    BY <2>0, <2>2, TablesAssumption DEF Sweep, Drop, Ages, Absent
  <2>3. ASSUME NEW e \in Flows, TouchConn(e)
        PROVE  /\ \A g \in Present(connAge') : connAge'[g] <= connAge[f]
               /\ Cardinality(Present(connAge')) >= CapLow
    <3>1. CASE connAge' = [connAge EXCEPT ![e] = 0]
      BY <2>0, <3>1 DEF TypeOK, Absent, Ages
    <3>2. ASSUME connAge[e] = Absent, NEW gone \in OverCap(e),
                 connAge' = [Drop(connAge, gone) EXCEPT ![e] = 0]
          PROVE  /\ \A g \in Present(connAge') : connAge'[g] <= connAge[f]
                 /\ Cardinality(Present(connAge')) >= CapLow
      <4>1. f \in gone
        BY <2>0, <3>2 DEF Drop, Absent, Ages, TypeOK
      <4>2. /\ Present(connAge') = (Present(connAge) \ gone) \cup {e}
            /\ \A g \in Present(connAge) \ gone : g # e => connAge'[g] = connAge[g]
            /\ connAge'[e] = 0
        BY <3>2, OverCapTracked DEF Present, Drop, Absent, TypeOK
      <4>3. /\ Cardinality(Present(connAge')) = CapLow
            /\ \A g \in Present(connAge) \ gone : connAge[g] <= connAge[f]
        BY <3>2, <4>1, <4>2, Displacement DEF TypeOK
      <4>4. connAge[e] = Absent /\ \A g \in Present(connAge) : g # e
        BY <3>2 DEF Present
      <4> QED
        BY <2>0, <4>2, <4>3, <4>4, CapBounds DEF Ages
    <3> QED
      BY <2>3, <3>1, <3>2 DEF TouchConn
  <2> QED
    BY <2>1, <2>2, <2>3 DEF Next, Record
<1>2. Spec => [][Survive]_vars
  BY <1>1, TablesInvariant, PTL DEF Spec
<1> QED
  BY <1>2 DEF FreshConnectionsSurvive
=============================================================================
