-------------------------- MODULE SensorUplink_proofs --------------------------
(* Proofs about SensorUplink, for any sensors, replays, packets and batch     *)
(* sizes.                                                                     *)
EXTENDS SensorUplink, FiniteSetTheorems, TLAPS

-----------------------------------------------------------------------------
(* The inductive invariant *)

Typed ==
    /\ passing \subseteq Packets
    /\ sniffed \in [Live -> Seq(Packets)]
    /\ window \in [Sources -> SUBSET Packets]
    /\ batch \in [Sources -> SUBSET Records]
    /\ requests \subseteq Requests
    /\ awaiting \in [Sources -> Requests \cup {NoRequest}]
    /\ entered \subseteq Records

\* Records that a source made of its own packets.
Made(s, records) == \A r \in records : r.by = s /\ r.packets \subseteq FileOf(s) /\ r.packets # {}

\* Packets, sniffed or aggregated, are the source's own.
OwnPackets ==
    /\ \A s \in Live : \A i \in DOMAIN sniffed[s] : Of[sniffed[s][i]] = s
    /\ \A s \in Sources : window[s] \subseteq FileOf(s) /\ Made(s, batch[s])
    /\ \A q \in requests : Made(q.by, q.records)

Apart(R, S) == \A r \in R : \A q \in S : r.packets \cap q.packets = {}
Distinct(R) == \A r \in R : \A q \in R : r # q => r.packets \cap q.packets = {}

\* No packet is in two records, wherever they are.
RecordsApart ==
    /\ Distinct(entered)
    /\ \A s \in Sources : /\ Distinct(batch[s]) /\ Apart(batch[s], entered)
                          /\ \A q \in requests : Apart(batch[s], q.records)
    /\ \A q \in requests : /\ Distinct(q.records) /\ Apart(q.records, entered)
                           /\ \A p \in requests : p # q => Apart(q.records, p.records)

AllRecords ==
    entered \cup (UNION {batch[s] : s \in Sources}) \cup (UNION {q.records : q \in requests})

Free(P) == \A r \in AllRecords : P \cap r.packets = {}

Sniffed(s) == {sniffed[s][i] : i \in DOMAIN sniffed[s]}

\* A packet that has not come by, was sniffed or is in a window is there alone, and
\* in no record.
LooseApart ==
    /\ Free(passing)
    /\ \A s \in Sources : Free(window[s]) /\ passing \cap window[s] = {}
    /\ \A s \in Live : /\ Free(Sniffed(s)) /\ passing \cap Sniffed(s) = {}
                       /\ Sniffed(s) \cap window[s] = {}

\* Of a replay, one post is under way; after an answer that did not come there is
\* no other.
OneChunk ==
    \A q \in requests : q.by \in Replay =>
        /\ awaiting[q.by] = q \/ q.by \in ended
        /\ \A p \in requests : p.by = q.by => p = q

\* What it still has to send is later than what it has sent.
RestIsLater ==
    \A s \in Replay : \A b \in batch[s] :
        /\ \A r \in entered : r.by = s => Earlier(r, b)
        /\ \A q \in requests : q.by = s => \A r \in q.records : Earlier(r, b)

IInv ==
    /\ Typed /\ OwnPackets /\ RecordsApart /\ LooseApart
    /\ OneChunk /\ RestIsLater /\ ReplayInOrder

-----------------------------------------------------------------------------
(* Numbers and records *)

LEMMA LeastIn ==
    ASSUME NEW S \in SUBSET Nat, IsFiniteSet(S), S # {}
    PROVE  Least(S) \in S /\ \A y \in S : Least(S) <= y
<1> DEFINE Below(m) == {x \in S : x < m}
           T == {Below(m) : m \in S}
<1>1. ASSUME NEW m \in S PROVE Below(m) \in FiniteSubsetsOf(S)
  <2>1. Below(m) \subseteq S
    OBVIOUS
  <2>2. IsFiniteSet(Below(m))
    <3> HIDE DEF Below
    <3> QED BY <2>1, FS_Subset
  <2> QED BY <2>1, <2>2 DEF FiniteSubsetsOf
<1>2. T \subseteq FiniteSubsetsOf(S) /\ T # {}
  <2> HIDE DEF Below
  <2> QED BY <1>1
<1>3. \E t \in T : \A u \in T : <<u, t>> \notin StrictSubsetOrdering(S)
  <2> HIDE DEF T
  <2> QED BY <1>2, FS_StrictSubsetOrderingWellFounded, WFMin
<1>4. PICK m \in S : \A u \in T : <<u, Below(m)>> \notin StrictSubsetOrdering(S)
  BY <1>3
<1>5. ASSUME NEW x \in S, x < m PROVE FALSE
  <2>1. m \in Nat /\ x \in Nat
    OBVIOUS
  <2>2. x \in Below(m) /\ x \notin Below(x)
    BY <1>5, <2>1
  <2>3. ASSUME NEW y \in Below(x) PROVE y \in Below(m)
    BY <1>5, <2>1, <2>3
  <2>4. Below(x) \in SUBSET S /\ Below(m) \in SUBSET S /\ Below(x) \in T
    OBVIOUS
  <2>5. <<Below(x), Below(m)>> \in StrictSubsetOrdering(S)
    <3> HIDE DEF Below
    <3> QED BY <2>2, <2>3, <2>4 DEF StrictSubsetOrdering
  <2> QED BY <1>4, <2>4, <2>5
<1>6. \A y \in S : m <= y
  BY <1>5
<1> QED BY <1>6 DEF Least

\* The records a set of packets is grouped into partition it.
LEMMA GroupedParts ==
    ASSUME NEW s \in Sources, NEW P \in SUBSET FileOf(s)
    PROVE  /\ Grouped(s, P) \subseteq Records
           /\ Made(s, Grouped(s, P)) /\ Distinct(Grouped(s, P))
           /\ \A r \in Grouped(s, P) : r.packets \subseteq P
           /\ \A p \in P : \E r \in Grouped(s, P) : p \in r.packets
<1> DEFINE R(k) == [by |-> s, key |-> k, packets |-> {p \in P : Key[p] = k}]
<1>1. P \subseteq Packets /\ Grouped(s, P) = {R(k) : k \in {Key[p] : p \in P}}
  BY DEF FileOf, Grouped
<1>2. ASSUME NEW p \in P
      PROVE  R(Key[p]) \in Records /\ p \in R(Key[p]).packets
  BY <1>1 DEF Records
<1>3. \A k : R(k).packets \subseteq P /\ R(k).by = s
  OBVIOUS
<1>4. \A k, l : k # l => R(k).packets \cap R(l).packets = {}
  OBVIOUS
<1> HIDE DEF R
<1>5. \A r \in Grouped(s, P) : \E p \in P : r = R(Key[p])
  BY <1>1
<1>6. Grouped(s, P) \subseteq Records /\ \A p \in P : R(Key[p]) \in Grouped(s, P)
  BY <1>1, <1>2
<1>7. Made(s, Grouped(s, P))
  BY <1>2, <1>3, <1>5 DEF Made
<1>8. Distinct(Grouped(s, P))
  BY <1>4, <1>5 DEF Distinct
<1> QED BY <1>2, <1>3, <1>5, <1>6, <1>7, <1>8

LEMMA FilePackets == \A s : FileOf(s) \subseteq Packets /\ Packets \subseteq Nat
<1> QED BY UplinkAssumption DEF FileOf

LEMMA FirstIsPart == \A n, R : FirstOf(n, R) \subseteq R
<1> QED BY DEF FirstOf

\* The first packets of a source's records tell them apart.
LEMMA FirstPackets ==
    ASSUME NEW s \in Sources, NEW B \in SUBSET Records, Made(s, B), Distinct(B)
    PROVE  /\ IsFiniteSet(B)
           /\ \A b \in B : Least(b.packets) \in Nat
           /\ \A a, b \in B : Least(a.packets) = Least(b.packets) => a = b
<1>1. IsFiniteSet(B)
  <2> DEFINE f == [r \in B |-> r.packets]
  <2>1. IsFiniteSet(SUBSET Packets)
    BY UplinkAssumption, FS_SUBSET
  <2>2. f \in [B -> SUBSET Packets]
    BY DEF Records
  <2>3. \A a, b \in B : f[a] = f[b] => a = b
    BY DEF Made, Distinct
  <2>4. f \in Injection(B, SUBSET Packets)
    <3> HIDE DEF f
    <3> QED BY <2>2, <2>3 DEF Injection, IsInjective
  <2> HIDE DEF f
  <2> QED BY <2>1, <2>4, FS_Injection
<1>2. ASSUME NEW b \in B PROVE Least(b.packets) \in Nat /\ Least(b.packets) \in b.packets
  <2>1. b.packets \subseteq Packets /\ b.packets # {} /\ Packets \subseteq Nat
    BY FilePackets DEF Made
  <2>2. IsFiniteSet(b.packets)
    BY <2>1, UplinkAssumption, FS_Subset
  <2> QED BY <2>1, <2>2, LeastIn
<1>3. \A a, b \in B : Least(a.packets) = Least(b.packets) => a = b
  BY <1>2 DEF Distinct
<1> QED BY <1>1, <1>2, <1>3

\* The records of a batch that go first begin before all that stay.
LEMMA FirstAreEarlier ==
    ASSUME NEW s \in Sources, NEW B \in SUBSET Records, Made(s, B), Distinct(B),
           NEW n \in Nat, NEW x \in FirstOf(n, B), NEW y \in B \ FirstOf(n, B)
    PROVE  Earlier(x, y)
<1> DEFINE Before(z) == {q \in B : Earlier(q, z)}
<1>1. IsFiniteSet(B)
  BY FirstPackets
<1>2. \A b \in B : Least(b.packets) \in Nat
  BY FirstPackets
<1>3. x \in B /\ y \in B /\ Cardinality(Before(x)) < n /\ ~(Cardinality(Before(y)) < n)
  BY DEF FirstOf, Rank
<1>4. IsFiniteSet(Before(x)) /\ Cardinality(Before(x)) \in Nat
  <2>1. Before(x) \subseteq B
    OBVIOUS
  <2> HIDE DEF Before
  <2> QED BY <1>1, <2>1, FS_Subset, FS_CardinalityType
<1>5. SUFFICES ASSUME ~Earlier(x, y) PROVE FALSE
  OBVIOUS
<1>6. Least(y.packets) <= Least(x.packets)
  BY <1>2, <1>3, <1>5 DEF Earlier
<1>7. Before(y) \subseteq Before(x)
  <2> SUFFICES ASSUME NEW q \in B, Earlier(q, y) PROVE Earlier(q, x)
    OBVIOUS
  <2> QED BY <1>2, <1>3, <1>6 DEF Earlier
<1>8. Cardinality(Before(y)) \in Nat /\ Cardinality(Before(y)) <= Cardinality(Before(x))
  <2> HIDE DEF Before
  <2> QED BY <1>4, <1>7, FS_Subset, FS_CardinalityType
<1> QED BY <1>3, <1>4, <1>8

-----------------------------------------------------------------------------
(* Steps that move or drop what is there *)

\* Fewer records and the same packets.
LEMMA LooseKept ==
    ASSUME LooseApart, UNCHANGED <<passing, sniffed, window>>, AllRecords' \subseteq AllRecords
    PROVE  LooseApart'
<1>1. \A P : Free(P) => \A r \in AllRecords' : P \cap r.packets = {}
  BY DEF Free
<1>2. \A s : Sniffed(s)' = Sniffed(s)
  BY DEF Sniffed
<1> QED BY <1>1, <1>2 DEF LooseApart, Free

LEMMA PassSafe == ASSUME IInv, NEW p \in Packets, Pass(p) PROVE IInv'
<1> USE DEF Pass
<1>0. PICK s : s = Of[p]
  OBVIOUS
<1>1. /\ s \in Sources /\ p \in passing /\ passing' = passing \ {p}
      /\ UNCHANGED <<batch, requests, awaiting, entered>> /\ ended \subseteq ended'
  BY <1>0, UplinkAssumption DEF queueVars
<1>2. /\ \/ window' = window
         \/ /\ \/ window' = [window EXCEPT ![s] = @ \cup ({p} \cap Wanted)]
               \/ window' = [window EXCEPT ![s] = {}]
            /\ s \notin Live /\ sniffed' = sniffed
      /\ \/ sniffed' = sniffed
         \/ sniffed' = [sniffed EXCEPT ![s] = Append(@, p)] /\ s \in Live
  BY <1>0, UplinkAssumption
<1>3. /\ \A t \in Sources : window'[t] \subseteq window[t] \cup ({p} \cap FileOf(t))
                            /\ (t \in Live => window'[t] = window[t])
      /\ window' \in [Sources -> SUBSET Packets]
  <2>1. window \in [Sources -> SUBSET Packets]
    BY DEF IInv, Typed
  <2>2. {p} \cap Wanted \subseteq FileOf(s) /\ {p} \cap Wanted \subseteq Packets
    BY <1>0 DEF FileOf
  <2> QED BY <1>1, <1>2, <2>1, <2>2 DEF Sources
<1>4. /\ sniffed' \in [Live -> Seq(Packets)]
      /\ \A t \in Live : \A i \in DOMAIN sniffed'[t] :
            sniffed'[t][i] \in Sniffed(t) \/ (t = s /\ sniffed'[t][i] = p)
  <2>1. sniffed \in [Live -> Seq(Packets)]
    BY DEF IInv, Typed
  <2>2. CASE sniffed' = sniffed
    BY <2>1, <2>2 DEF Sniffed
  <2>3. CASE s \in Live /\ sniffed' = [sniffed EXCEPT ![s] = Append(@, p)]
    <3>1. /\ Append(sniffed[s], p) \in Seq(Packets)
          /\ \A i \in DOMAIN Append(sniffed[s], p) :
                Append(sniffed[s], p)[i] \in Sniffed(s) \/ Append(sniffed[s], p)[i] = p
      <4>1. sniffed[s] \in Seq(Packets)
        BY <2>1, <2>3
      <4>2. \A q \in Seq(Packets) :
              /\ Append(q, p) \in Seq(Packets)
              /\ \A i \in DOMAIN Append(q, p) :
                    (i \in DOMAIN q /\ Append(q, p)[i] = q[i]) \/ Append(q, p)[i] = p
        OBVIOUS
      <4> QED BY <4>1, <4>2 DEF Sniffed
    <3>2. \A t \in Live : sniffed'[t] = IF t = s THEN Append(sniffed[s], p) ELSE sniffed[t]
      BY <2>1, <2>3
    <3>3. sniffed' \in [Live -> Seq(Packets)]
      BY <2>1, <2>3, <3>1
    <3>4. ASSUME NEW t \in Live, NEW i \in DOMAIN sniffed'[t]
          PROVE  sniffed'[t][i] \in Sniffed(t) \/ (t = s /\ sniffed'[t][i] = p)
      <4>1. CASE t = s
        BY <3>1, <3>2, <4>1
      <4>2. CASE t # s
        BY <3>2, <4>2 DEF Sniffed
      <4> QED BY <4>1, <4>2
    <3> QED BY <3>3, <3>4
  <2> QED BY <1>2, <2>2, <2>3
<1>5. Typed'
  BY <1>1, <1>3, <1>4 DEF IInv, Typed
<1>6. OwnPackets'
  <2>1. \A t \in Live : \A i \in DOMAIN sniffed'[t] : Of[sniffed'[t][i]] = t
    BY <1>0, <1>4 DEF IInv, OwnPackets, Sniffed
  <2>2. \A t \in Sources : window'[t] \subseteq FileOf(t)
    BY <1>3 DEF IInv, OwnPackets
  <2> QED BY <1>1, <2>1, <2>2 DEF IInv, OwnPackets, Made
<1>7. RecordsApart' /\ OneChunk' /\ RestIsLater' /\ ReplayInOrder'
  BY <1>1 DEF IInv, RecordsApart, Distinct, Apart, OneChunk, RestIsLater, ReplayInOrder
<1>8. LooseApart'
  <2>1. AllRecords' = AllRecords
    BY <1>1 DEF AllRecords
  <2>2. \A r \in AllRecords : p \notin r.packets /\ passing \cap r.packets = {}
    BY <1>1 DEF IInv, LooseApart, Free
  <2>3. \A r \in AllRecords' : passing' \cap r.packets = {}
    BY <1>1, <2>1, <2>2
  <2>4. ASSUME NEW t \in Sources
        PROVE  passing' \cap window'[t] = {} /\ \A r \in AllRecords' : window'[t] \cap r.packets = {}
    BY <1>1, <1>3, <2>1, <2>2 DEF IInv, LooseApart, Free
  <2>5. ASSUME NEW t \in Live
        PROVE  /\ \A r \in AllRecords' : Sniffed(t)' \cap r.packets = {}
               /\ passing' \cap Sniffed(t)' = {} /\ Sniffed(t)' \cap window'[t] = {}
    <3>1. t \in Sources
      BY DEF Sources
    <3>2. Sniffed(t)' \subseteq Sniffed(t) \cup {p}
      BY <1>4 DEF Sniffed
    <3>3. /\ \A r \in AllRecords : Sniffed(t) \cap r.packets = {}
          /\ passing \cap Sniffed(t) = {} /\ Sniffed(t) \cap window[t] = {}
          /\ p \notin window[t] /\ window'[t] = window[t]
      BY <1>1, <1>3, <3>1 DEF IInv, LooseApart, Free
    <3> QED BY <1>1, <2>1, <2>2, <3>2, <3>3
  <2> QED BY <2>3, <2>4, <2>5 DEF LooseApart, Free
<1> QED BY <1>5, <1>6, <1>7, <1>8 DEF IInv

LEMMA DropSafe ==
    ASSUME IInv,
           \/ \E q \in requests : LoseRequest(q)
           \/ \E s \in Live : SendLive(s)
           \/ \E s \in Sources : GiveUp(s)
           \/ Drain \/ UNCHANGED vars
    PROVE  IInv'
<1>1. /\ UNCHANGED <<passing, sniffed, window, entered>>
      /\ requests' \subseteq requests
      /\ batch' \in [Sources -> SUBSET Records]
      /\ \A s \in Sources : batch'[s] \subseteq batch[s]
      /\ awaiting' \in [Sources -> Requests \cup {NoRequest}]
      /\ \A s \in Sources : \/ awaiting'[s] = awaiting[s] /\ (s \in ended => s \in ended')
                            \/ s \in Replay => s \in ended'
  <2>0. /\ batch \in [Sources -> SUBSET Records]
        /\ awaiting \in [Sources -> Requests \cup {NoRequest}]
    BY DEF IInv, Typed
  <2>1. ASSUME NEW q \in requests, LoseRequest(q)
        PROVE  <1>1!1 /\ <1>1!2 /\ <1>1!3 /\ <1>1!4 /\ <1>1!5 /\ <1>1!6
    BY <2>0, <2>1 DEF LoseRequest, queueVars
  <2>2. ASSUME NEW s \in Live, SendLive(s)
        PROVE  <1>1!1 /\ <1>1!2 /\ <1>1!3 /\ <1>1!4 /\ <1>1!5 /\ <1>1!6
    BY <2>0, <2>2 DEF SendLive, queueVars
  <2>3. ASSUME NEW s \in Sources, GiveUp(s)
        PROVE  <1>1!1 /\ <1>1!2 /\ <1>1!3 /\ <1>1!4 /\ <1>1!5 /\ <1>1!6
    BY <2>0, <2>3 DEF GiveUp, queueVars
  <2>4. CASE Drain \/ UNCHANGED vars
    BY <2>0, <2>4 DEF Drain, Consume, vars, senderVars, queueVars
  <2> QED BY <2>1, <2>2, <2>3, <2>4
<1>2. Typed'
  BY <1>1 DEF IInv, Typed
<1>3. OwnPackets'
  BY <1>1 DEF IInv, OwnPackets, Made
<1>4. RecordsApart'
  BY <1>1 DEF IInv, RecordsApart, Distinct, Apart
<1>5. LooseApart'
  <2>1. AllRecords' \subseteq AllRecords
    BY <1>1 DEF AllRecords
  <2> QED BY <1>1, <2>1, LooseKept DEF IInv
<1>6. OneChunk'
  <2>1. \A q \in requests : q.by \in Sources
    BY DEF IInv, Typed, Requests
  <2> QED BY <1>1, <2>1 DEF IInv, OneChunk
<1>7. RestIsLater'
  <2>1. Replay \subseteq Sources
    BY DEF Sources
  <2> QED BY <1>1, <2>1 DEF IInv, RestIsLater
<1>8. ReplayInOrder'
  BY <1>1 DEF IInv, ReplayInOrder
<1> QED BY <1>2, <1>3, <1>4, <1>5, <1>6, <1>7, <1>8 DEF IInv

-----------------------------------------------------------------------------
(* Steps that make records or move them *)

LEMMA FilesApart == \A s, t : s # t => FileOf(s) \cap FileOf(t) = {}
<1> QED BY DEF FileOf

\* Records made of loose packets are new.
LEMMA LooseIsNew ==
    ASSUME NEW s \in Sources, NEW P \in SUBSET FileOf(s), Free(P)
    PROVE  \A g \in Grouped(s, P) : \A r \in AllRecords : g.packets \cap r.packets = {}
<1>1. \A g \in Grouped(s, P) : g.packets \subseteq P
  BY GroupedParts
<1> QED BY <1>1 DEF Free

LEMMA FlushSafe == ASSUME IInv, NEW s \in Standalone, Flush(s) PROVE IInv'
<1>0. PICK G : G = Grouped(s, window[s])
  OBVIOUS
<1>1. PICK q : q = [by |-> s, records |-> G]
  OBVIOUS
<1>2. /\ requests' = requests \cup {q} /\ awaiting' = [awaiting EXCEPT ![s] = q]
      /\ window' = [window EXCEPT ![s] = {}]
      /\ UNCHANGED <<passing, sniffed, batch, ended, entered>>
  BY <1>0, <1>1 DEF Flush, Post, queueVars
<1>3. /\ s \in Sources /\ s \notin Live /\ s \notin Replay
      /\ q.by = s /\ q.records = G
      /\ window \in [Sources -> SUBSET Packets]
      /\ awaiting \in [Sources -> Requests \cup {NoRequest}]
      /\ window[s] \subseteq FileOf(s)
  BY <1>1, UplinkAssumption DEF Sources, IInv, Typed, OwnPackets
<1>4. /\ G \subseteq Records /\ Made(s, G) /\ Distinct(G)
      /\ \A g \in G : g.packets \subseteq window[s]
  BY <1>0, <1>3, GroupedParts
<1>5. /\ \A t \in Sources : window'[t] = IF t = s THEN {} ELSE window[t]
      /\ \A t \in Sources : t # s => awaiting'[t] = awaiting[t]
  BY <1>2, <1>3
<1>6. Free(window[s])
  BY <1>3 DEF IInv, LooseApart
<1>7. \A g \in G : \A r \in AllRecords : g.packets \cap r.packets = {}
  BY <1>0, <1>3, <1>6, LooseIsNew
<1>8. q \in Requests
  BY <1>1, <1>3, <1>4 DEF Requests
<1>9. Typed'
  BY <1>2, <1>3, <1>8 DEF IInv, Typed
<1>10. OwnPackets'
  <2>1. \A t \in Sources : window'[t] \subseteq FileOf(t)
    BY <1>5 DEF IInv, OwnPackets
  <2> QED BY <1>2, <1>3, <1>4, <2>1 DEF IInv, OwnPackets, Made
<1>11. RecordsApart'
  <2>1. Apart(G, entered)
    BY <1>7 DEF AllRecords, Apart
  <2>2. \A t \in Sources : Apart(batch[t], G)
    BY <1>7 DEF AllRecords, Apart
  <2>3. \A p \in requests : Apart(G, p.records) /\ Apart(p.records, G)
    BY <1>7 DEF AllRecords, Apart
  <2>4. Distinct(entered)' /\ \A t \in Sources : Distinct(batch'[t]) /\ Apart(batch'[t], entered')
    BY <1>2 DEF IInv, RecordsApart, Distinct
  <2>5. \A t \in Sources : \A p \in requests' : Apart(batch'[t], p.records)
    BY <1>2, <1>3, <2>2 DEF IInv, RecordsApart
  <2>6. \A p \in requests' : Distinct(p.records) /\ Apart(p.records, entered')
    BY <1>2, <1>3, <1>4, <2>1 DEF IInv, RecordsApart
  <2>7. \A p, r \in requests' : r # p => Apart(p.records, r.records)
    BY <1>2, <1>3, <2>3 DEF IInv, RecordsApart
  <2> QED BY <2>4, <2>5, <2>6, <2>7 DEF RecordsApart, Distinct, Apart
<1>12. LooseApart'
  <2>1. \A r \in AllRecords' : r \in AllRecords \/ r \in G
    BY <1>2, <1>3 DEF AllRecords
  <2>2. \A P : Free(P) /\ P \cap window[s] = {} => \A r \in AllRecords' : P \cap r.packets = {}
    BY <1>4, <2>1 DEF Free
  <2>3. \A r \in AllRecords' : passing' \cap r.packets = {}
    BY <1>2, <1>3, <2>2 DEF IInv, LooseApart
  <2>4. ASSUME NEW t \in Sources
        PROVE  passing' \cap window'[t] = {} /\ \A r \in AllRecords' : window'[t] \cap r.packets = {}
    <3>1. CASE t = s
      BY <1>5, <3>1
    <3>2. CASE t # s
      <4>1. window[t] \cap window[s] = {}
        BY <1>3, <3>2, FilesApart DEF IInv, OwnPackets
      <4> QED BY <1>2, <1>5, <2>2, <3>2, <4>1 DEF IInv, LooseApart
    <3> QED BY <3>1, <3>2
  <2>5. ASSUME NEW t \in Live
        PROVE  /\ \A r \in AllRecords' : Sniffed(t)' \cap r.packets = {}
               /\ passing' \cap Sniffed(t)' = {} /\ Sniffed(t)' \cap window'[t] = {}
    <3>1. t \in Sources /\ t # s
      BY <1>3 DEF Sources
    <3>2. Sniffed(t)' = Sniffed(t)
      BY <1>2 DEF Sniffed
    <3>3. Sniffed(t) \cap window[s] = {}
      BY <1>3, <3>1 DEF IInv, OwnPackets, Sniffed, FileOf
    <3>4. /\ Free(Sniffed(t)) /\ passing \cap Sniffed(t) = {}
          /\ Sniffed(t) \cap window[t] = {}
      BY DEF IInv, LooseApart
    <3> QED BY <1>2, <1>5, <2>2, <3>1, <3>2, <3>3, <3>4
  <2> QED BY <2>3, <2>4, <2>5 DEF LooseApart, Free
<1>13. OneChunk'
  <2>1. \A p \in requests : p.by \in Sources
    BY DEF IInv, Typed, Requests
  <2> QED BY <1>2, <1>3, <1>5, <2>1 DEF IInv, OneChunk
<1>14. RestIsLater' /\ ReplayInOrder'
  <2>1. ReplayInOrder'
    BY <1>2, <1>3 DEF IInv, ReplayInOrder
  <2>2. RestIsLater'
    BY <1>2, <1>3 DEF IInv, RestIsLater
  <2> QED BY <2>1, <2>2
<1> QED BY <1>9, <1>10, <1>11, <1>12, <1>13, <1>14 DEF IInv

LEMMA AggregateSafe == ASSUME IInv, NEW s \in Live, Aggregate(s) PROVE IInv'
<1>0. s \in Sources /\ s \notin Replay
  BY UplinkAssumption DEF Sources
<1>1. PICK kept :
        /\ kept \subseteq window[s] \cup (Sniffed(s) \cap Wanted) /\ window[s] \subseteq kept
        /\ sniffed' = [sniffed EXCEPT ![s] = <<>>]
        /\ UNCHANGED <<passing, requests, awaiting, ended, entered>>
        /\ \/ /\ batch' = [batch EXCEPT ![s] = @ \cup Grouped(s, kept)]
              /\ window' = [window EXCEPT ![s] = {}]
           \/ /\ window' = [window EXCEPT ![s] = kept]
              /\ UNCHANGED batch
  <2> DEFINE pkts == sniffed[s]
             good == {i \in DOMAIN pkts : \A j \in 1 .. i : pkts[j] \notin Bad}
  <2>1. PICK k : k = window[s] \cup ({pkts[i] : i \in good} \cap Wanted)
    OBVIOUS
  <2>2. k \subseteq window[s] \cup (Sniffed(s) \cap Wanted) /\ window[s] \subseteq k
    BY <2>1 DEF Sniffed
  <2>3. /\ sniffed' = [sniffed EXCEPT ![s] = <<>>]
        /\ UNCHANGED <<passing, requests, awaiting, ended, entered>>
        /\ \/ /\ batch' = [batch EXCEPT ![s] = @ \cup Grouped(s, k)]
              /\ window' = [window EXCEPT ![s] = {}]
           \/ /\ window' = [window EXCEPT ![s] = k]
              /\ UNCHANGED batch
    BY <2>1 DEF Aggregate, queueVars
  <2> QED BY <2>2, <2>3
<1>2. /\ window \in [Sources -> SUBSET Packets]
      /\ sniffed \in [Live -> Seq(Packets)]
      /\ batch \in [Sources -> SUBSET Records]
  BY DEF IInv, Typed
<1>3. Sniffed(s) \subseteq Packets /\ \A p \in Sniffed(s) : Of[p] = s
  <2>1. sniffed[s] \in Seq(Packets)
    BY <1>2
  <2>2. \A i \in DOMAIN sniffed[s] : sniffed[s][i] \in Packets
    BY <2>1
  <2> QED BY <2>2 DEF Sniffed, IInv, OwnPackets
<1>4. kept \subseteq FileOf(s)
  BY <1>0, <1>1, <1>3 DEF FileOf, IInv, OwnPackets
<1>5. Free(kept) /\ passing \cap kept = {}
  <2>1. Free(window[s]) /\ Free(Sniffed(s)) /\ passing \cap window[s] = {} /\ passing \cap Sniffed(s) = {}
    BY <1>0 DEF IInv, LooseApart
  <2> QED BY <1>1, <2>1 DEF Free
<1>6. PICK G : G = Grouped(s, kept)
  OBVIOUS
<1>7. /\ G \subseteq Records /\ Made(s, G) /\ Distinct(G)
      /\ \A g \in G : g.packets \subseteq kept
      /\ \A g \in G : \A r \in AllRecords : g.packets \cap r.packets = {}
  BY <1>0, <1>4, <1>5, <1>6, GroupedParts, LooseIsNew
<1>8. /\ \A t \in Live : t # s => Sniffed(t)' = Sniffed(t)
      /\ Sniffed(s)' = {}
      /\ sniffed' \in [Live -> Seq(Packets)]
      /\ \A i \in DOMAIN sniffed'[s] : FALSE
  <2>1. \A t \in Live : sniffed'[t] = IF t = s THEN <<>> ELSE sniffed[t]
    BY <1>1, <1>2
  <2>2. <<>> \in Seq(Packets) /\ DOMAIN <<>> = {}
    OBVIOUS
  <2>3. sniffed' \in [Live -> Seq(Packets)]
    BY <1>1, <1>2, <2>2
  <2> QED BY <2>1, <2>2, <2>3 DEF Sniffed
<1>9. /\ \A t \in Sources : t # s => batch'[t] = batch[t] /\ window'[t] = window[t]
      /\ \/ batch'[s] = batch[s] \cup G /\ window'[s] = {}
         \/ batch'[s] = batch[s] /\ window'[s] = kept
      /\ batch' \in [Sources -> SUBSET Records]
      /\ window' \in [Sources -> SUBSET Packets]
  <2>1. kept \subseteq Packets
    BY <1>4, FilePackets
  <2>2. CASE batch' = [batch EXCEPT ![s] = @ \cup G] /\ window' = [window EXCEPT ![s] = {}]
    BY <1>0, <1>2, <1>7, <2>2
  <2>3. CASE window' = [window EXCEPT ![s] = kept] /\ batch' = batch
    BY <1>0, <1>2, <2>1, <2>3
  <2> QED BY <1>1, <1>6, <2>2, <2>3
<1>10. Typed'
  BY <1>1, <1>8, <1>9 DEF IInv, Typed
<1>11. OwnPackets'
  <2>1. \A t \in Live : \A i \in DOMAIN sniffed'[t] : Of[sniffed'[t][i]] = t
    BY <1>1, <1>2, <1>8 DEF IInv, OwnPackets
  <2>2. \A t \in Sources : window'[t] \subseteq FileOf(t)
    BY <1>4, <1>9 DEF IInv, OwnPackets
  <2>3. \A t \in Sources : Made(t, batch'[t])
    BY <1>7, <1>9 DEF IInv, OwnPackets, Made
  <2> QED BY <1>1, <2>1, <2>2, <2>3 DEF IInv, OwnPackets, Made
<1>12. RecordsApart'
  <2>1. Apart(G, entered)
    BY <1>7 DEF AllRecords, Apart
  <2>2. \A t \in Sources : \A g \in G, b \in batch[t] : g.packets \cap b.packets = {}
    BY <1>7 DEF AllRecords
  <2>3. \A q \in requests : Apart(G, q.records)
    BY <1>7 DEF AllRecords, Apart
  <2>4. \A t \in Sources : Distinct(batch'[t])
    BY <1>0, <1>7, <1>9, <2>2 DEF IInv, RecordsApart, Distinct
  <2>5. \A t \in Sources : Apart(batch'[t], entered)
    BY <1>9, <2>1 DEF IInv, RecordsApart, Apart
  <2>6. \A t \in Sources : \A q \in requests : Apart(batch'[t], q.records)
    BY <1>9, <2>3 DEF IInv, RecordsApart, Apart
  <2> QED BY <1>1, <2>4, <2>5, <2>6 DEF IInv, RecordsApart, Distinct, Apart
<1>13. LooseApart'
  <2>1. \A r \in AllRecords' : r \in AllRecords \/ (r \in G /\ window'[s] = {})
    BY <1>0, <1>1, <1>9 DEF AllRecords
  <2>2. \A P : Free(P) /\ P \cap kept = {} => \A r \in AllRecords' : P \cap r.packets = {}
    BY <1>7, <2>1 DEF Free
  <2>3. \A r \in AllRecords' : passing' \cap r.packets = {}
    BY <1>1, <1>5, <2>2 DEF IInv, LooseApart
  <2>4. ASSUME NEW t \in Sources
        PROVE  passing' \cap window'[t] = {} /\ \A r \in AllRecords' : window'[t] \cap r.packets = {}
    <3>1. CASE t = s
      <4>1. window'[t] \subseteq kept /\ passing' = passing
        BY <1>1, <1>9, <3>1
      <4>2. \A r \in AllRecords' : window'[t] \cap r.packets = {}
        BY <1>5, <2>1, <3>1, <4>1 DEF Free
      <4> QED BY <1>5, <4>1, <4>2
    <3>2. CASE t # s
      <4>1. window[t] \cap kept = {}
        BY <1>4, <3>2, FilesApart DEF IInv, OwnPackets
      <4> QED BY <1>1, <1>9, <2>2, <3>2, <4>1 DEF IInv, LooseApart
    <3> QED BY <3>1, <3>2
  <2>5. ASSUME NEW t \in Live
        PROVE  /\ \A r \in AllRecords' : Sniffed(t)' \cap r.packets = {}
               /\ passing' \cap Sniffed(t)' = {} /\ Sniffed(t)' \cap window'[t] = {}
    <3>1. CASE t = s
      BY <1>8, <3>1
    <3>2. CASE t # s
      <4>1. Sniffed(t) \cap kept = {}
        BY <1>4, <3>2 DEF IInv, OwnPackets, Sniffed, FileOf
      <4>2. /\ Free(Sniffed(t)) /\ passing \cap Sniffed(t) = {}
            /\ Sniffed(t) \cap window[t] = {} /\ t \in Sources
        BY DEF IInv, LooseApart, Sources
      <4> QED BY <1>1, <1>8, <1>9, <2>2, <3>2, <4>1, <4>2
    <3> QED BY <3>1, <3>2
  <2> QED BY <2>3, <2>4, <2>5 DEF LooseApart, Free
<1>14. OneChunk' /\ ReplayInOrder'
  BY <1>1 DEF IInv, OneChunk, ReplayInOrder
<1>15. RestIsLater'
  <2>1. \A t \in Replay : batch'[t] = batch[t]
    BY <1>0, <1>9 DEF Sources
  <2> QED BY <1>1, <2>1 DEF IInv, RestIsLater
<1> QED BY <1>10, <1>11, <1>12, <1>13, <1>14, <1>15 DEF IInv

LEMMA SendChunkSafe == ASSUME IInv, NEW s \in Replay, SendChunk(s) PROVE IInv'
<1>0. PICK C : C = FirstOf(BatchMax, batch[s])
  OBVIOUS
<1>1. PICK q : q = [by |-> s, records |-> C]
  OBVIOUS
<1>2. /\ requests' = requests \cup {q} /\ awaiting' = [awaiting EXCEPT ![s] = q]
      /\ batch' = [batch EXCEPT ![s] = @ \ C]
      /\ UNCHANGED <<passing, sniffed, window, ended, entered>>
      /\ awaiting[s] = NoRequest /\ s \notin ended
  BY <1>0, <1>1 DEF SendChunk, Reading, Post, queueVars
<1>3. /\ s \in Sources /\ q.by = s /\ q.records = C
      /\ batch \in [Sources -> SUBSET Records]
      /\ awaiting \in [Sources -> Requests \cup {NoRequest}]
      /\ C \subseteq batch[s]
      /\ Made(s, batch[s]) /\ Distinct(batch[s])
  <2>1. s \in Sources
    BY DEF Sources
  <2> QED BY <1>0, <1>1, <2>1, FirstIsPart DEF IInv, Typed, OwnPackets, RecordsApart
<1>4. \A p \in requests : p.by # s
  <2>1. NoRequest \notin requests
    BY UplinkAssumption DEF IInv, Typed
  <2> QED BY <1>2, <2>1 DEF IInv, OneChunk
<1>5. /\ \A t \in Sources : batch'[t] \subseteq batch[t]
      /\ batch'[s] = batch[s] \ C
      /\ batch' \in [Sources -> SUBSET Records]
      /\ \A t \in Sources : t # s => awaiting'[t] = awaiting[t]
      /\ awaiting'[s] = q
  BY <1>2, <1>3
<1>6. q \in Requests
  BY <1>1, <1>3 DEF Requests
<1>7. Typed'
  BY <1>2, <1>3, <1>5, <1>6 DEF IInv, Typed
<1>8. OwnPackets'
  <2>1. \A t \in Sources : Made(t, batch'[t])
    BY <1>5 DEF IInv, OwnPackets, Made
  <2>2. \A p \in requests' : Made(p.by, p.records)
    BY <1>2, <1>3 DEF IInv, OwnPackets, Made
  <2> QED BY <1>2, <2>1, <2>2 DEF IInv, OwnPackets, Made
<1>9. RecordsApart'
  <2>1. ASSUME NEW t \in Sources PROVE Apart(batch'[t], C)
    <3>1. CASE t = s
      BY <1>3, <1>5, <3>1 DEF Apart, Distinct
    <3>2. CASE t # s
      <4>1. FileOf(t) \cap FileOf(s) = {}
        BY <3>2, FilesApart
      <4>2. Made(t, batch[t])
        BY DEF IInv, OwnPackets
      <4> QED BY <1>3, <1>5, <4>1, <4>2 DEF Made, Apart
    <3> QED BY <3>1, <3>2
  <2>2. Distinct(C) /\ Apart(C, entered)
    BY <1>3 DEF Distinct, Apart, IInv, RecordsApart
  <2>3. \A p \in requests : Apart(C, p.records) /\ Apart(p.records, C)
    BY <1>3 DEF Apart, IInv, RecordsApart
  <2>4. \A t \in Sources : Distinct(batch'[t]) /\ Apart(batch'[t], entered)
    BY <1>5 DEF IInv, RecordsApart, Distinct, Apart
  <2>5. \A t \in Sources : \A p \in requests : Apart(batch'[t], p.records)
    BY <1>5 DEF IInv, RecordsApart, Apart
  <2>6. \A t \in Sources : \A p \in requests' : Apart(batch'[t], p.records)
    BY <1>2, <1>3, <2>1, <2>5
  <2>7. \A p \in requests' : Distinct(p.records) /\ Apart(p.records, entered)
    BY <1>2, <1>3, <2>2 DEF IInv, RecordsApart
  <2>8. \A p, r \in requests' : r # p => Apart(p.records, r.records)
    BY <1>2, <1>3, <2>3 DEF IInv, RecordsApart
  <2>9. Distinct(entered)
    BY DEF IInv, RecordsApart
  <2> QED BY <1>2, <2>4, <2>6, <2>7, <2>8, <2>9 DEF RecordsApart, Distinct, Apart
<1>10. LooseApart'
  <2>1. AllRecords' \subseteq AllRecords
    BY <1>2, <1>3, <1>5 DEF AllRecords
  <2> QED BY <1>2, <2>1, LooseKept DEF IInv
<1>11. OneChunk'
  <2>1. \A p \in requests : p.by \in Sources
    BY DEF IInv, Typed, Requests
  <2> QED BY <1>2, <1>3, <1>4, <1>5, <2>1 DEF IInv, OneChunk
<1>12. RestIsLater'
  <2>1. ASSUME NEW t \in Replay, NEW b \in batch'[t], NEW r \in entered, r.by = t
        PROVE  Earlier(r, b)
    BY <1>5, <2>1 DEF IInv, RestIsLater, Sources
  <2>2. ASSUME NEW t \in Replay, NEW b \in batch'[t],
               NEW p \in requests', p.by = t, NEW r \in p.records
        PROVE  Earlier(r, b)
    <3>1. CASE p \in requests
      BY <1>5, <2>2, <3>1 DEF IInv, RestIsLater, Sources
    <3>2. CASE p = q
      <4>1. t = s /\ r \in C /\ b \in batch[s] \ C
        BY <1>3, <1>5, <2>2, <3>2
      <4>2. BatchMax \in Nat
        BY UplinkAssumption
      <4> QED BY <1>0, <1>3, <4>1, <4>2, FirstAreEarlier
    <3> QED BY <1>2, <3>1, <3>2
  <2>3. \A r, b : Earlier(r, b)' = Earlier(r, b)
    BY DEF Earlier, Least
  <2> QED BY <1>2, <2>1, <2>2 DEF RestIsLater, Earlier, Least
<1>13. ReplayInOrder'
  BY <1>2, <1>3 DEF IInv, ReplayInOrder, RestIsLater
<1> QED BY <1>7, <1>8, <1>9, <1>10, <1>11, <1>12, <1>13 DEF IInv

\* The pipeline takes only what it is offered.
LEMMA EnteredGrows ==
    ASSUME NEW B, SubmitBatch(B, Rank(B))
    PROVE  entered \subseteq entered' /\ entered' \subseteq entered \cup B
<1> QED BY DEF SubmitBatch, Fits

LEMMA ReplayAtOnceSafe == ASSUME IInv, NEW s \in Replay, ReplayAtOnce(s) PROVE IInv'
<1>0. PICK B : B = batch[s]
  OBVIOUS
<1>1. /\ batch' = [batch EXCEPT ![s] = {}]
      /\ UNCHANGED <<passing, sniffed, window, requests, awaiting, ended>>
      /\ B = Grouped(s, FileOf(s))
      /\ SubmitBatch(batch[s], Rank(batch[s]))
  BY <1>0 DEF ReplayAtOnce, senderVars
<1>2. entered \subseteq entered' /\ entered' \subseteq entered \cup B
  BY <1>0, <1>1, EnteredGrows
<1>3. /\ s \in Sources /\ batch \in [Sources -> SUBSET Records]
      /\ B \subseteq Records /\ Made(s, B) /\ Distinct(B) /\ Apart(B, entered)
  <2>1. s \in Sources
    BY DEF Sources
  <2> QED BY <1>0, <2>1 DEF IInv, Typed, OwnPackets, RecordsApart
<1>4. /\ \A t \in Sources : t # s => batch'[t] = batch[t]
      /\ batch'[s] = {} /\ batch' \in [Sources -> SUBSET Records]
  BY <1>1, <1>3
<1>5. \A q \in requests : q.by = s => q.records = {}
  <2> SUFFICES ASSUME NEW q \in requests, q.by = s, NEW r \in q.records PROVE FALSE
    OBVIOUS
  <2>1. r.packets \subseteq FileOf(s) /\ r.packets # {}
    BY DEF IInv, OwnPackets, Made
  <2>2. PICK x : x \in r.packets /\ x \in FileOf(s)
    BY <2>1
  <2>3. PICK b \in B : x \in b.packets
    BY <1>1, <1>3, <2>2, GroupedParts
  <2> QED BY <1>0, <1>3, <2>2, <2>3 DEF IInv, RecordsApart, Apart
<1>6. Typed'
  BY <1>1, <1>2, <1>3, <1>4 DEF IInv, Typed
<1>7. OwnPackets'
  <2>1. \A t \in Sources : Made(t, batch'[t])
    BY <1>4 DEF IInv, OwnPackets, Made
  <2> QED BY <1>1, <2>1 DEF IInv, OwnPackets, Made
<1>8. RecordsApart'
  <2>1. Distinct(entered')
    BY <1>2, <1>3 DEF IInv, RecordsApart, Distinct, Apart
  <2>2. ASSUME NEW t \in Sources PROVE Apart(batch'[t], entered')
    <3>1. CASE t = s
      BY <1>4, <3>1 DEF Apart
    <3>2. CASE t # s
      <4>1. FileOf(t) \cap FileOf(s) = {}
        BY <3>2, FilesApart
      <4>2. Made(t, batch[t]) /\ Apart(batch[t], entered)
        BY DEF IInv, OwnPackets, RecordsApart
      <4>3. Apart(batch[t], B)
        BY <1>3, <4>1, <4>2 DEF Made, Apart
      <4> QED BY <1>2, <1>4, <3>2, <4>2, <4>3 DEF Apart
    <3> QED BY <3>1, <3>2
  <2>3. ASSUME NEW q \in requests PROVE Apart(q.records, entered')
    <3>1. Apart(q.records, entered) /\ Apart(B, q.records)
      BY <1>0, <1>3 DEF IInv, RecordsApart
    <3> QED BY <1>2, <3>1 DEF Apart
  <2>4. ASSUME NEW t \in Sources
        PROVE  Distinct(batch'[t]) /\ \A q \in requests : Apart(batch'[t], q.records)
    BY <1>4 DEF IInv, RecordsApart, Distinct, Apart
  <2> QED BY <1>1, <2>1, <2>2, <2>3, <2>4 DEF IInv, RecordsApart, Distinct, Apart
<1>9. LooseApart'
  <2>1. \A t \in Sources : batch'[t] \subseteq batch[t]
    BY <1>4
  <2>2. B \subseteq AllRecords
    BY <1>0, <1>3 DEF AllRecords
  <2>3. entered' \subseteq AllRecords
    BY <1>2, <2>2 DEF AllRecords
  <2>4. AllRecords' \subseteq AllRecords
    BY <1>1, <2>1, <2>3 DEF AllRecords
  <2> QED BY <1>1, <2>4, LooseKept DEF IInv
<1>10. OneChunk'
  BY <1>1 DEF IInv, OneChunk
<1>11. RestIsLater'
  <2> SUFFICES ASSUME NEW t \in Replay, NEW b \in batch'[t]
               PROVE  /\ \A r \in entered' : r.by = t => Earlier(r, b)
                      /\ \A q \in requests : q.by = t => \A r \in q.records : Earlier(r, b)
    BY <1>1 DEF RestIsLater, Earlier, Least
  <2>1. t # s /\ b \in batch[t]
    BY <1>4 DEF Sources
  <2>2. \A r \in B : r.by = s
    BY <1>3 DEF Made
  <2> QED BY <1>2, <2>1, <2>2 DEF IInv, RestIsLater
<1>12. ReplayInOrder'
  <2>1. \A r \in B : r.by = s
    BY <1>3 DEF Made
  <2> QED BY <1>1, <1>2, <1>5, <2>1 DEF IInv, ReplayInOrder, Earlier, Least
<1> QED BY <1>6, <1>7, <1>8, <1>9, <1>10, <1>11, <1>12 DEF IInv

LEMMA HandleSafe == ASSUME IInv, NEW q \in requests, Handle(q) PROVE IInv'
<1>1. /\ requests' = requests \ {q}
      /\ UNCHANGED <<passing, sniffed, window, batch, ended>>
      /\ awaiting' = awaiting \/ awaiting' = [awaiting EXCEPT ![q.by] = NoRequest]
      /\ SubmitBatch(q.records, Rank(q.records))
  BY DEF Handle
<1>2. entered \subseteq entered' /\ entered' \subseteq entered \cup q.records
  BY <1>1, EnteredGrows
<1>3. /\ q \in Requests /\ q.by \in Sources /\ q.records \subseteq Records
      /\ Made(q.by, q.records) /\ Distinct(q.records) /\ Apart(q.records, entered)
      /\ awaiting \in [Sources -> Requests \cup {NoRequest}]
  BY DEF IInv, Typed, Requests, OwnPackets, RecordsApart
<1>4. /\ \A s \in Sources : s # q.by => awaiting'[s] = awaiting[s]
      /\ awaiting' \in [Sources -> Requests \cup {NoRequest}]
  BY <1>1, <1>3
<1>5. \A p \in requests' : p.by = q.by => p.by \notin Replay
  BY <1>1 DEF IInv, OneChunk
<1>6. Typed'
  BY <1>1, <1>2, <1>3, <1>4 DEF IInv, Typed
<1>7. OwnPackets'
  BY <1>1 DEF IInv, OwnPackets, Made
<1>8. RecordsApart'
  <2>1. Distinct(entered')
    BY <1>2, <1>3 DEF IInv, RecordsApart, Distinct, Apart
  <2>2. ASSUME NEW s \in Sources PROVE Apart(batch[s], entered')
    <3>1. Apart(batch[s], entered) /\ Apart(batch[s], q.records)
      BY DEF IInv, RecordsApart
    <3> QED BY <1>2, <3>1 DEF Apart
  <2>3. ASSUME NEW p \in requests' PROVE Apart(p.records, entered')
    <3>1. Apart(p.records, entered) /\ Apart(p.records, q.records)
      BY <1>1 DEF IInv, RecordsApart
    <3> QED BY <1>2, <3>1 DEF Apart
  <2> QED BY <1>1, <2>1, <2>2, <2>3 DEF IInv, RecordsApart, Distinct, Apart
<1>9. LooseApart'
  <2>1. AllRecords' \subseteq AllRecords
    BY <1>1, <1>2 DEF AllRecords
  <2> QED BY <1>1, <2>1, LooseKept DEF IInv
<1>10. OneChunk'
  <2>1. \A p \in requests : p.by \in Sources
    BY DEF IInv, Typed, Requests
  <2> QED BY <1>1, <1>4, <1>5, <2>1 DEF IInv, OneChunk
<1>11. RestIsLater'
  <2> SUFFICES ASSUME NEW s \in Replay, NEW b \in batch[s]
               PROVE  /\ \A r \in entered' : r.by = s => Earlier(r, b)
                      /\ \A p \in requests' : p.by = s => \A r \in p.records : Earlier(r, b)
    BY <1>1 DEF RestIsLater, Earlier, Least
  <2>1. \A r \in q.records : r.by = q.by
    BY <1>3 DEF Made
  <2>2. /\ \A r \in entered : r.by = s => Earlier(r, b)
        /\ \A p \in requests : p.by = s => \A r \in p.records : Earlier(r, b)
    BY DEF IInv, RestIsLater
  <2> QED BY <1>1, <1>2, <2>1, <2>2
<1>12. ReplayInOrder'
  <2>1. \A r \in q.records : r.by = q.by
    BY <1>3 DEF Made
  <2> QED BY <1>1, <1>2, <1>5, <2>1 DEF IInv, ReplayInOrder, Earlier, Least
<1> QED BY <1>6, <1>7, <1>8, <1>9, <1>10, <1>11, <1>12 DEF IInv

-----------------------------------------------------------------------------
LEMMA InitSafe == Init => IInv
<1> SUFFICES ASSUME Init PROVE IInv
  OBVIOUS
<1> USE DEF Init, QueueInit
<1>1. Replay \subseteq Sources /\ Live \subseteq Sources
  BY DEF Sources
<1>2. \A s \in Replay : /\ batch[s] \subseteq Records /\ Made(s, batch[s])
                         /\ Distinct(batch[s])
  BY <1>1, GroupedParts
<1>3. \A s \in Sources \ Replay : batch[s] = {}
  OBVIOUS
<1>4. Typed
  <2>1. batch \in [Sources -> SUBSET Records]
    BY <1>2, <1>3
  <2>2. sniffed \in [Live -> Seq(Packets)]
    OBVIOUS
  <2> QED BY <2>1, <2>2 DEF Typed
<1>5. OwnPackets
  <2>1. \A s \in Live : \A i \in DOMAIN sniffed[s] : FALSE
    OBVIOUS
  <2>2. \A s \in Sources : window[s] = {} /\ Made(s, batch[s])
    BY <1>2, <1>3 DEF Made
  <2> QED BY <2>1, <2>2 DEF OwnPackets
<1>6. RecordsApart
  BY <1>2, <1>3 DEF RecordsApart, Distinct, Apart
<1>7. LooseApart
  <2>1. ASSUME NEW r \in AllRecords PROVE passing \cap r.packets = {}
    <3>1. PICK s \in Replay : r \in batch[s]
      BY <1>3, <2>1 DEF AllRecords
    <3>2. r.packets \subseteq FileOf(s)
      BY <1>2, <3>1 DEF Made
    <3>3. \A p \in passing : Of[p] # s
      OBVIOUS
    <3> QED BY <3>2, <3>3 DEF FileOf
  <2>2. \A s \in Live : Sniffed(s) = {}
    BY DEF Sniffed
  <2>3. \A s \in Sources : window[s] = {}
    OBVIOUS
  <2> QED BY <2>1, <2>2, <2>3 DEF LooseApart, Free
<1>8. OneChunk /\ RestIsLater /\ ReplayInOrder
  BY DEF OneChunk, RestIsLater, ReplayInOrder
<1> QED BY <1>4, <1>5, <1>6, <1>7, <1>8 DEF IInv

LEMMA StepSafe == IInv /\ [Next]_vars => IInv'
<1> SUFFICES ASSUME IInv, [Next]_vars PROVE IInv'
  OBVIOUS
<1>1. CASE \E p \in Packets : Pass(p)
  BY <1>1, PassSafe
<1>2. CASE \E s \in Standalone : Flush(s)
  BY <1>2, FlushSafe
<1>3. CASE \E s \in Live : Aggregate(s)
  BY <1>3, AggregateSafe
<1>4. CASE \E s \in Replay : SendChunk(s)
  BY <1>4, SendChunkSafe
<1>5. CASE \E s \in Replay : ReplayAtOnce(s)
  BY <1>5, ReplayAtOnceSafe
<1>6. CASE \E q \in requests : Handle(q)
  BY <1>6, HandleSafe
<1>7. CASE \/ \E q \in requests : LoseRequest(q)
           \/ \E s \in Live : SendLive(s)
           \/ \E s \in Sources : GiveUp(s)
           \/ Drain \/ UNCHANGED vars
  BY <1>7, DropSafe
<1> QED BY <1>1, <1>2, <1>3, <1>4, <1>5, <1>6, <1>7 DEF Next

LEMMA Invariance == Spec => []IInv
<1> QED BY InitSafe, StepSafe, PTL DEF Spec

\* A packet of a record in the pipeline is nowhere else: not in another record, not
\* in a post on its way or one that timed out, not in a window, not still to come.
\* This is run_sensor_standalone.flush dropping its batch whatever the post did.
THEOREM PacketsCountedOnce == Spec => []CountedOnce
<1>1. IInv => CountedOnce
  <2> SUFFICES ASSUME IInv, NEW r \in entered
               PROVE  /\ \A q \in entered : q # r => q.packets \cap r.packets = {}
                      /\ \A q \in requests : Posted(q) \cap r.packets = {}
                      /\ \A s \in Sources : (window[s] \cup Gathered(s)) \cap r.packets = {}
                      /\ passing \cap r.packets = {}
    BY DEF CountedOnce
  <2>1. \A q \in entered : q # r => q.packets \cap r.packets = {}
    BY DEF IInv, RecordsApart, Distinct
  <2>2. \A q \in requests : Posted(q) \cap r.packets = {}
    BY DEF IInv, RecordsApart, Apart, Posted
  <2>3. \A s \in Sources : Gathered(s) \cap r.packets = {}
    BY DEF IInv, RecordsApart, Apart, Gathered
  <2>4. /\ \A s \in Sources : window[s] \cap r.packets = {}
        /\ passing \cap r.packets = {}
    BY DEF IInv, LooseApart, Free, AllRecords
  <2> QED BY <2>1, <2>2, <2>3, <2>4
<1> QED BY <1>1, Invariance, PTL

\* The records of a replay enter the pipeline in the order of the capture, however
\* late the backend handles a chunk: replay_pcap stops at the first failed post.
THEOREM ReplaysKeepTheirOrder == Spec => []ReplayInOrder
<1>1. IInv => ReplayInOrder
  BY DEF IInv
<1> QED BY <1>1, Invariance, PTL

-----------------------------------------------------------------------------
(* The pipeline's queue *)

\* The order of first packets numbers the records of a batch.
LEMMA RankEnumerates ==
    ASSUME NEW s \in Sources, NEW B \in SUBSET Records, Made(s, B), Distinct(B)
    PROVE  IsFiniteSet(B) /\ Rank(B) \in Ranks(B)
<1> DEFINE Before(r) == {q \in B : Earlier(q, r)}
<1>1. /\ IsFiniteSet(B) /\ \A b \in B : Least(b.packets) \in Nat
      /\ \A a, b \in B : Least(a.packets) = Least(b.packets) => a = b
  BY FirstPackets
<1>2. Cardinality(B) \in Nat
  BY <1>1, FS_CardinalityType
<1>3. ASSUME NEW r \in B
      PROVE  IsFiniteSet(Before(r)) /\ Cardinality(Before(r)) \in 0 .. Cardinality(B) - 1
  <2>1. Before(r) \in SUBSET B /\ Before(r) # B
    BY <1>1 DEF Earlier
  <2> HIDE DEF Before
  <2>2. IsFiniteSet(Before(r)) /\ Cardinality(Before(r)) <= Cardinality(B)
        /\ Cardinality(Before(r)) # Cardinality(B)
    BY <1>1, <2>1, FS_Subset
  <2>3. Cardinality(Before(r)) \in Nat
    BY <2>2, FS_CardinalityType
  <2> QED BY <1>2, <2>2, <2>3
<1>4. ASSUME NEW q \in B, NEW r \in B, Earlier(q, r)
      PROVE  Cardinality(Before(q)) # Cardinality(Before(r))
  <2>1. Before(q) \in SUBSET Before(r) /\ Before(q) # Before(r)
    BY <1>1, <1>4 DEF Earlier
  <2> HIDE DEF Before
  <2> QED BY <1>3, <2>1, FS_Subset
<1>5. \A q, r \in B : q = r \/ Earlier(q, r) \/ Earlier(r, q)
  BY <1>1 DEF Earlier
<1>6. Rank(B) = [r \in B |-> Cardinality(Before(r))]
  BY DEF Rank
<1> HIDE DEF Before
<1> QED BY <1>1, <1>3, <1>4, <1>5, <1>6 DEF Ranks

\* A batch takes no more room than there is.
LEMMA BatchFits ==
    ASSUME NEW B, IsFiniteSet(B), NEW rank \in Ranks(B), waiting \in 0 .. PipelineMax,
           SubmitBatch(B, rank)
    PROVE  waiting' \in 0 .. PipelineMax
<1> DEFINE F == Fits(B, rank)
           room == PipelineMax - waiting
<1>1. room \in Nat /\ waiting \in Nat /\ PipelineMax \in Nat
  BY QueueAssumption
<1>2. \A r \in B : rank[r] \in Nat
  <2>1. Cardinality(B) \in Nat
    BY FS_CardinalityType
  <2> QED BY <2>1 DEF Ranks
<1>3. \A r \in F : r \in B /\ rank[r] \in 0 .. room - 1
  BY <1>1, <1>2 DEF Fits
<1>4. \A q, r \in F : rank[q] = rank[r] => q = r
  BY <1>3 DEF Ranks
<1> HIDE DEF F, room
<1>5. [r \in F |-> rank[r]] \in Injection(F, 0 .. room - 1)
  BY <1>3, <1>4 DEF Injection, IsInjective
<1>6. IsFiniteSet(0 .. room - 1) /\ Cardinality(0 .. room - 1) = room
  <2>1. 0 \in Int /\ room - 1 \in Int
    BY <1>1
  <2>2. Cardinality(0 .. room - 1) = IF 0 > room - 1 THEN 0 ELSE (room - 1) - 0 + 1
    BY <2>1, FS_Interval
  <2> QED BY <1>1, <2>1, <2>2, FS_Interval
<1>7. Cardinality(F) <= room /\ Cardinality(F) \in Nat
  BY <1>5, <1>6, FS_Injection, FS_CardinalityType
<1>8. waiting' = waiting + Cardinality(F)
  BY DEF SubmitBatch, F
<1> QED BY <1>1, <1>7, <1>8 DEF room

Bounded ==
    waiting \in 0 .. PipelineMax /\ sending \subseteq Live /\ ended \subseteq Replay \cup Standalone

\* Only Handle, ReplayAtOnce and Drain touch the pipeline's queue, and as its module
\* says.
LEMMA FeedStep ==
    ASSUME IInv, Bounded, [Next]_vars
    PROVE  [QueueNext(Records)]_queueVars /\ waiting' \in 0 .. PipelineMax
<1>1. ASSUME NEW s \in Sources, NEW B \in SUBSET Records, Made(s, B), Distinct(B),
             SubmitBatch(B, Rank(B))
      PROVE  QueueNext(Records) /\ waiting' \in 0 .. PipelineMax
  <2>1. IsFiniteSet(B) /\ Rank(B) \in Ranks(B)
    BY <1>1, RankEnumerates
  <2>2. waiting' \in 0 .. PipelineMax
    BY <1>1, <2>1, BatchFits DEF Bounded
  <2> QED BY <1>1, <2>1, <2>2 DEF QueueNext
<1>2. ASSUME NEW s \in Replay, ReplayAtOnce(s)
      PROVE  QueueNext(Records) /\ waiting' \in 0 .. PipelineMax
  <2>1. s \in Sources
    BY DEF Sources
  <2>2. batch[s] \in SUBSET Records /\ Made(s, batch[s]) /\ Distinct(batch[s])
    BY <2>1 DEF IInv, Typed, OwnPackets, RecordsApart
  <2>3. SubmitBatch(batch[s], Rank(batch[s]))
    BY <1>2 DEF ReplayAtOnce
  <2> QED BY <1>1, <2>1, <2>2, <2>3
<1>3. ASSUME NEW q \in requests, Handle(q)
      PROVE  QueueNext(Records) /\ waiting' \in 0 .. PipelineMax
  <2>1. /\ q.by \in Sources /\ q.records \in SUBSET Records
        /\ Made(q.by, q.records) /\ Distinct(q.records)
    BY DEF IInv, Typed, Requests, OwnPackets, RecordsApart
  <2>2. SubmitBatch(q.records, Rank(q.records))
    BY <1>3 DEF Handle
  <2> QED BY <1>1, <2>1, <2>2
<1>4. CASE Drain
  BY <1>4, QueueAssumption DEF Drain, Consume, QueueNext, Bounded
<1>5. CASE UNCHANGED queueVars
  BY <1>5 DEF Bounded, queueVars
<1>6. \/ \E s \in Replay : ReplayAtOnce(s)
      \/ \E q \in requests : Handle(q)
      \/ Drain \/ UNCHANGED queueVars
  BY DEF Next, vars, Pass, Flush, Aggregate, SendLive, SendChunk, LoseRequest, GiveUp
<1> QED BY <1>2, <1>3, <1>4, <1>5, <1>6

LEMMA BoundedInvariance == Spec => [](IInv /\ Bounded)
<1>1. Init => Bounded
  BY QueueAssumption DEF Init, QueueInit, Bounded
<1>2. IInv /\ Bounded /\ [Next]_vars => Bounded'
  <2> SUFFICES ASSUME IInv, Bounded, [Next]_vars PROVE Bounded'
    OBVIOUS
  <2>1. waiting' \in 0 .. PipelineMax
    BY FeedStep
  <2>2. sending' \subseteq sending \cup Live
    BY DEF Next, vars, senderVars, Pass, Flush, Aggregate, SendLive, SendChunk,
           ReplayAtOnce, Handle, LoseRequest, GiveUp, Drain
  <2>3. ended' \subseteq ended \cup Replay \cup Standalone
    BY DEF Next, vars, senderVars, Pass, Flush, Aggregate, SendLive, SendChunk,
           ReplayAtOnce, Handle, LoseRequest, GiveUp, Drain
  <2> QED BY <2>1, <2>2, <2>3 DEF Bounded
<1> QED BY Invariance, <1>1, <1>2, PTL DEF Spec

\* The pipeline's queue is never overfilled, and what sensors and replays hold keeps
\* its shape: a batch submits exactly as many records as submit finds room for.
THEOREM UplinkTyped == Spec => []TypeOK
<1>1. IInv /\ Bounded => TypeOK
  BY DEF IInv, Typed, Bounded, TypeOK
<1> QED BY BoundedInvariance, <1>1, PTL

\* The flow endpoint and the replay treat the pipeline's queue as its module says: each
\* of their steps offers it one batch, in an order that numbers its records, or none.
\* DetectionPipeline is shown to implement that queue.
THEOREM UplinkFeedsQueue == Spec => QueueInit /\ [][QueueNext(Records)]_queueVars
<1>1. Init => QueueInit
  BY DEF Init
<1>2. IInv /\ Bounded /\ [Next]_vars => [QueueNext(Records)]_queueVars
  BY FeedStep
<1> QED BY BoundedInvariance, <1>1, <1>2, PTL DEF Spec
=============================================================================
