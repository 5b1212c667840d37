----------------------- MODULE AlertAggregation_proofs -----------------------
(***************************************************************************)
(* Proofs about AlertAggregation, for every set of keys and sources and    *)
(* every window, pulse interval and table limit.                           *)
(***************************************************************************)
EXTENDS AlertAggregation, FiniteSetTheorems, TLAPS

-----------------------------------------------------------------------------
(* The sequence helpers preserve their element type. *)

\* The list kept in the aggregation holds the elements it was cut from.
LEMMA KeepLastType ==
    ASSUME NEW S, NEW seq \in Seq(S), NEW n \in Nat
    PROVE  KeepLast(seq, n) \in Seq(S)
BY DEF KeepLast

\* The bounded deque holds the elements it was cut from.
LEMMA KeepFirstType ==
    ASSUME NEW S, NEW seq \in Seq(S), NEW n \in Nat
    PROVE  KeepFirst(seq, n) \in Seq(S)
BY DEF KeepFirst

\* Adding a source to the list of unique sources yields a list of sources.
LEMMA AppendNewType ==
    ASSUME NEW S, NEW seq \in Seq(S), NEW e \in S
    PROVE  AppendNew(seq, e) \in Seq(S)
BY DEF AppendNew

\* Merging a detection changes neither the key nor the time of the raise, and
\* leaves a well-formed context stamped with the present.
LEMMA MergeContextFacts ==
    ASSUME NEW c \in Context, NEW s \in Sources, now \in Nat
    PROVE  LET m == MergeContext(c, s)
           IN /\ m \in Context
              /\ m.key = c.key /\ m.raisedAt = c.raisedAt
              /\ m.flows = c.flows + 1 /\ m.emittedAt = now
              /\ m.publishedAt = c.publishedAt /\ m.publishes = c.publishes
<1> DEFINE u1 == AppendNew(c.sources, c.src)
           u2 == AppendNew(u1, s)
<1>0. c.sources \in Seq(Sources) /\ c.src \in Sources
  BY DEF Context
<1>1. u1 \in Seq(Sources)
  BY <1>0, AppendNewType
<1>2. u2 \in Seq(Sources)
  BY <1>1, AppendNewType
<1>3. KeepLast(u2, TrackedSources) \in Seq(Sources)
  BY <1>2, KeepLastType, AggregationAssumption
<1>4. Len(u2) \in Nat
  BY <1>2
<1>5. QED
  <2> DEFINE m == [c EXCEPT !.sources = KeepLast(u2, TrackedSources),
                            !.sourceCount = Len(u2), !.flows = @ + 1,
                            !.emittedAt = now, !.folded = @ \cup {s}]
  <2>1. MergeContext(c, s) = m
    BY DEF MergeContext
  <2> HIDE DEF u2
  <2>2. /\ m \in Context
        /\ m.key = c.key /\ m.raisedAt = c.raisedAt
        /\ m.flows = c.flows + 1 /\ m.emittedAt = now
        /\ m.publishedAt = c.publishedAt /\ m.publishes = c.publishes
    <3>1. c.folded \cup {s} \in SUBSET Sources /\ c.flows + 1 \in Nat
      BY DEF Context
    <3>2. m \in Context
      BY <1>3, <1>4, <3>1 DEF Context
    <3>3. QED
      BY <3>2 DEF Context
  <2>3. QED
    BY <2>1, <2>2

\* A pulse touches only the publication fields.
LEMMA PulseFacts ==
    ASSUME NEW c \in Context, now \in Nat
    PROVE  /\ Pulse(c) \in Context
           /\ Pulse(c).key = c.key /\ Pulse(c).raisedAt = c.raisedAt
           /\ Pulse(c).flows = c.flows /\ Pulse(c).emittedAt = c.emittedAt
<1> DEFINE p == [c EXCEPT !.publishedAt = now, !.publishes = @ + 1]
<1>1. p \in Context
  <2>1. c.publishes + 1 \in Nat
    BY DEF Context
  <2>2. QED
    BY <2>1 DEF Context
<1>2. /\ p.key = c.key /\ p.raisedAt = c.raisedAt
      /\ p.flows = c.flows /\ p.emittedAt = c.emittedAt
  BY DEF Context
<1> HIDE DEF p
<1>3. Pulse(c) = c \/ Pulse(c) = p
  BY DEF Pulse, p
<1>4. QED
  BY <1>1, <1>2, <1>3

\* The fields of a context the invariant speaks about.
LEMMA ContextFields ==
    ASSUME NEW c \in Context
    PROVE  /\ c.key \in Keys /\ c.raisedAt \in Nat
           /\ c.emittedAt \in Nat /\ c.flows \in Nat
BY DEF Context

\* A fresh context is well formed.
LEMMA NewContextType ==
    ASSUME NEW k \in Keys, NEW s \in Sources, now \in Nat
    PROVE  NewContext(k, s) \in Context
<1>1. <<s>> \in Seq(Sources)
  OBVIOUS
<1>2. {s} \in SUBSET Sources
  OBVIOUS
<1>3. QED
  BY <1>1, <1>2 DEF NewContext, Context

\* Pruning the deduplication table keeps an entry or forgets one that is at
\* least two windows old.
LEMMA PruneSeenFacts ==
    ASSUME now \in Nat,
           NEW seen \in [Keys -> Nat \cup {Never}]
    PROVE  /\ PruneSeen(seen) \in [Keys -> Nat \cup {Never}]
           /\ \A k \in Keys :
                \/ PruneSeen(seen)[k] = seen[k]
                \/ PruneSeen(seen)[k] = Never /\ seen[k] < now - 2 * Window
BY AggregationAssumption DEF PruneSeen, Never

-----------------------------------------------------------------------------
(***************************************************************************)
(* The inductive invariant.  SuppressedHasOpenAlert is preserved by        *)
(* _prune_active only because emitted_at never falls behind raisedAt, and  *)
(* AlertSpacing survives _prune only because every emission is either      *)
(* remembered in _last_seen or already a window old.                       *)
(***************************************************************************)
StampsOrdered ==
    \A i \in DOMAIN ctxs :
        /\ ctxs[i].raisedAt <= ctxs[i].emittedAt
        /\ ctxs[i].emittedAt <= now

EmissionsRemembered ==
    \A i \in DOMAIN ctxs :
        \/ ctxs[i].raisedAt <= lastSeen[ctxs[i].key]
        \/ now - ctxs[i].raisedAt >= Window

SeenInPast == \A k \in Keys : lastSeen[k] <= now

IInv ==
    /\ TypeOK
    /\ SuppressedHasOpenAlert
    /\ AlertSpacing
    /\ StampsOrdered
    /\ EmissionsRemembered
    /\ SeenInPast

-----------------------------------------------------------------------------
\* The inductive invariant holds initially.
LEMMA InitIInv == Init => IInv
BY AggregationAssumption DEF Init, IInv, TypeOK, SuppressedHasOpenAlert, AlertSpacing, StampsOrdered, EmissionsRemembered, SeenInPast, IsSuppressed, Never, NoAlert

\* The passing of time: keys leave the window, none enters it.
LEMMA TickStep == IInv /\ Tick => IInv'
<1> SUFFICES ASSUME IInv, Tick PROVE IInv'
  OBVIOUS
<1>1. /\ now \in Nat /\ now' = now + 1 /\ now' \in Nat
      /\ UNCHANGED <<lastSeen, ctxs, active, recent, suppressed, detected>>
  BY DEF Tick, IInv, TypeOK
<1>2. \A i \in DOMAIN ctxs : ctxs[i].key \in Keys /\ ctxs[i].raisedAt \in Nat
                             /\ ctxs[i].emittedAt \in Nat
  BY ContextFields DEF IInv, TypeOK
<1>3. TypeOK'
  BY <1>1 DEF IInv, TypeOK
<1>4. SuppressedHasOpenAlert'
  <2>1. \A k \in Keys : IsSuppressed(k)' => IsSuppressed(k)
    BY <1>1, AggregationAssumption DEF IsSuppressed, IInv, TypeOK, Never
  <2>2. QED
    BY <1>1, <2>1 DEF IInv, SuppressedHasOpenAlert
<1>5. AlertSpacing'
  BY <1>1 DEF IInv, AlertSpacing
<1>6. StampsOrdered'
  BY <1>1, <1>2 DEF IInv, StampsOrdered
<1>7. EmissionsRemembered'
  BY <1>1, <1>2, AggregationAssumption DEF IInv, EmissionsRemembered
<1>8. SeenInPast'
  <2>1. \A k \in Keys : lastSeen[k] \in Int /\ lastSeen[k] <= now
    BY DEF IInv, TypeOK, SeenInPast, Never
  <2>2. QED
    BY <1>1, <2>1 DEF SeenInPast
<1>9. QED
  BY <1>3, <1>4, <1>5, <1>6, <1>7, <1>8 DEF IInv

\* What merging does to the sequence of contexts: one open context grows.
LEMMA MergeEffect ==
    ASSUME IInv,
           NEW k \in Keys, NEW s \in Sources, Merge(k, s)
    PROVE  /\ active[k] \in DOMAIN ctxs
           /\ ctxs' \in Seq(Context) /\ DOMAIN ctxs' = DOMAIN ctxs
           /\ \A i \in DOMAIN ctxs : i # active[k] => ctxs'[i] = ctxs[i]
           /\ ctxs'[active[k]].key = ctxs[active[k]].key
           /\ ctxs'[active[k]].raisedAt = ctxs[active[k]].raisedAt
           /\ ctxs'[active[k]].flows = ctxs[active[k]].flows + 1
           /\ ctxs'[active[k]].emittedAt = now
<1> DEFINE a == active[k]
           m == MergeContext(ctxs[a], s)
<1>1. a \in DOMAIN ctxs /\ ctxs \in Seq(Context) /\ now \in Nat
  BY DEF Merge, IInv, TypeOK
<1>2. ctxs[a] \in Context
  BY <1>1
<1>3. /\ m \in Context /\ m.key = ctxs[a].key
      /\ m.raisedAt = ctxs[a].raisedAt
      /\ m.flows = ctxs[a].flows + 1 /\ m.emittedAt = now
  BY <1>1, <1>2, MergeContextFacts
<1>4. /\ Pulse(m) \in Context /\ Pulse(m).key = m.key
      /\ Pulse(m).raisedAt = m.raisedAt
      /\ Pulse(m).flows = m.flows /\ Pulse(m).emittedAt = m.emittedAt
  BY <1>1, <1>3, PulseFacts
<1>5. ctxs' = [ctxs EXCEPT ![a] = Pulse(m)]
  BY DEF Merge
<1> HIDE DEF m
<1>6. QED
  BY <1>1, <1>3, <1>4, <1>5

\* Merging preserves the invariant.
LEMMA MergeStep ==
    ASSUME IInv, NEW k \in Keys, NEW s \in Sources,
           Merge(k, s), now' = now, detected' \in [Keys -> Nat]
    PROVE  IInv'
<1>0. /\ active[k] \in DOMAIN ctxs
      /\ ctxs' \in Seq(Context) /\ DOMAIN ctxs' = DOMAIN ctxs
      /\ \A i \in DOMAIN ctxs : i # active[k] => ctxs'[i] = ctxs[i]
      /\ ctxs'[active[k]].key = ctxs[active[k]].key
      /\ ctxs'[active[k]].raisedAt = ctxs[active[k]].raisedAt
      /\ ctxs'[active[k]].emittedAt = now
  BY MergeEffect
<1>1. UNCHANGED <<lastSeen, active, recent, suppressed>>
  BY DEF Merge
<1>2. /\ \A i \in DOMAIN ctxs : /\ ctxs'[i].key = ctxs[i].key
                                /\ ctxs'[i].raisedAt = ctxs[i].raisedAt
                                /\ \/ ctxs'[i].emittedAt = ctxs[i].emittedAt
                                   \/ ctxs'[i].emittedAt = now
      /\ \A i \in DOMAIN ctxs : ctxs[i].raisedAt \in Nat /\ ctxs[i].emittedAt \in Nat
      /\ now \in Nat
  <2>1. \A i \in DOMAIN ctxs : ctxs[i] \in Context /\ now \in Nat
    BY DEF IInv, TypeOK
  <2>2. \A i \in DOMAIN ctxs : ctxs[i].raisedAt \in Nat /\ ctxs[i].emittedAt \in Nat
    BY <2>1, ContextFields
  <2>3. now \in Nat
    BY DEF IInv, TypeOK
  <2>4. QED
    BY <1>0, <2>2, <2>3
<1>3. TypeOK'
  BY <1>0, <1>1 DEF IInv, TypeOK
<1>4. SuppressedHasOpenAlert'
  BY <1>0, <1>1, <1>2 DEF IInv, TypeOK, SuppressedHasOpenAlert, IsSuppressed
<1>5. AlertSpacing'
  BY <1>0, <1>2 DEF IInv, AlertSpacing
<1>6. StampsOrdered'
  <2> SUFFICES ASSUME NEW i \in DOMAIN ctxs
               PROVE  ctxs'[i].raisedAt <= ctxs'[i].emittedAt /\ ctxs'[i].emittedAt <= now'
    BY <1>0 DEF StampsOrdered
  <2>1. ctxs[i].raisedAt <= ctxs[i].emittedAt /\ ctxs[i].emittedAt <= now
    BY DEF IInv, StampsOrdered
  <2>2. QED
    BY <1>2, <2>1
<1>7. EmissionsRemembered' /\ SeenInPast'
  BY <1>0, <1>1, <1>2 DEF IInv, EmissionsRemembered, SeenInPast
<1>8. QED
  BY <1>3, <1>4, <1>5, <1>6, <1>7 DEF IInv

\* Suppressing without an open alert cannot happen, so it preserves anything.
LEMMA SwallowStep ==
    ASSUME IInv, NEW k \in Keys, Swallow(k)
    PROVE  FALSE
BY DEF IInv, SuppressedHasOpenAlert, Swallow

\* What emitting does: a new last context, and tables pruned around it.
LEMMA EmitEffect ==
    ASSUME IInv,
           NEW k \in Keys, NEW s \in Sources, Emit(k, s)
    PROVE  /\ ctxs' \in Seq(Context) /\ DOMAIN ctxs' = 1..(Len(ctxs) + 1)
           /\ DOMAIN ctxs = 1..Len(ctxs)
           /\ \A i \in DOMAIN ctxs : ctxs'[i] = ctxs[i] /\ ctxs[i] \in Context
           /\ ctxs'[Len(ctxs) + 1].key = k
           /\ ctxs'[Len(ctxs) + 1].raisedAt = now
           /\ ctxs'[Len(ctxs) + 1].emittedAt = now
           /\ ctxs'[Len(ctxs) + 1].flows = 1
           /\ lastSeen' \in [Keys -> Nat \cup {Never}]
           /\ lastSeen'[k] = now
           /\ \A j \in Keys \ {k} :
                \/ lastSeen'[j] = lastSeen[j]
                \/ lastSeen'[j] = Never /\ lastSeen[j] < now - 2 * Window
<1>1. ctxs \in Seq(Context) /\ now \in Nat /\ lastSeen \in [Keys -> Nat \cup {Never}]
  BY DEF IInv, TypeOK
<1>2. NewContext(k, s) \in Context
  BY <1>1, NewContextType
<1>3. ctxs' = Append(ctxs, NewContext(k, s))
  BY DEF Emit
<1>4. /\ NewContext(k, s).key = k /\ NewContext(k, s).raisedAt = now
      /\ NewContext(k, s).emittedAt = now /\ NewContext(k, s).flows = 1
  BY DEF NewContext
<1> DEFINE seen == [lastSeen EXCEPT ![k] = now]
<1>5. seen \in [Keys -> Nat \cup {Never}] /\ seen[k] = now
      /\ \A j \in Keys \ {k} : seen[j] = lastSeen[j]
  BY <1>1
<1>6. lastSeen' = PruneSeen(seen)
  BY DEF Emit
<1> HIDE DEF seen
<1>7. /\ lastSeen' \in [Keys -> Nat \cup {Never}]
      /\ \A j \in Keys : \/ lastSeen'[j] = seen[j]
                         \/ lastSeen'[j] = Never /\ seen[j] < now - 2 * Window
  BY <1>1, <1>5, <1>6, PruneSeenFacts
<1>8. lastSeen'[k] = now
  BY <1>1, <1>5, <1>7, AggregationAssumption
<1>9. QED
  BY <1>1, <1>2, <1>3, <1>4, <1>5, <1>7, <1>8

\* Emitting preserves the invariant.
LEMMA EmitStep ==
    ASSUME IInv, NEW k \in Keys, NEW s \in Sources,
           Emit(k, s), now' = now, detected' \in [Keys -> Nat]
    PROVE  IInv'
<1> DEFINE n == Len(ctxs) + 1
           act == [active EXCEPT ![k] = n]
<1>0. /\ ctxs' \in Seq(Context) /\ DOMAIN ctxs' = 1..n /\ DOMAIN ctxs = 1..Len(ctxs)
      /\ \A i \in DOMAIN ctxs : ctxs'[i] = ctxs[i] /\ ctxs[i] \in Context
      /\ ctxs'[n].key = k /\ ctxs'[n].raisedAt = now /\ ctxs'[n].emittedAt = now
      /\ lastSeen' \in [Keys -> Nat \cup {Never}]
      /\ lastSeen'[k] = now
      /\ \A j \in Keys \ {k} :
           \/ lastSeen'[j] = lastSeen[j]
           \/ lastSeen'[j] = Never /\ lastSeen[j] < now - 2 * Window
  BY EmitEffect
<1>1. /\ now \in Nat /\ Len(ctxs) \in Nat /\ n \in DOMAIN ctxs'
      /\ recent \in Seq(Nat) /\ suppressed' \in Nat /\ Window \in Nat \ {0}
      /\ \A j \in Keys : active[j] # NoAlert => active[j] \in DOMAIN ctxs
      /\ active \in [Keys -> Nat]
  BY <1>0, AggregationAssumption DEF IInv, TypeOK, Emit
<1>2. recent' \in Seq(Nat)
  <2>1. <<n>> \o recent \in Seq(Nat)
    BY <1>1
  <2>2. QED
    BY <2>1, KeepFirstType, AggregationAssumption DEF Emit
<1>3. active' = [j \in Keys |-> IF act[j] # NoAlert /\ ctxs'[act[j]].emittedAt < now - Window
                                THEN NoAlert ELSE act[j]]
  BY DEF Emit, PruneActive
<1>4. act \in [Keys -> Nat] /\ act[k] = n /\ \A j \in Keys \ {k} : act[j] = active[j]
  BY <1>1
<1>5. active'[k] = n
  BY <1>0, <1>1, <1>3, <1>4 DEF NoAlert
<1> HIDE DEF act
<1>6. /\ active' \in [Keys -> Nat]
      /\ \A j \in Keys : active'[j] # NoAlert => active'[j] \in DOMAIN ctxs'
  <2>1. \A j \in Keys : active'[j] \in {NoAlert, act[j]}
    BY <1>3
  <2>2. \A j \in Keys : act[j] \in Nat /\ (act[j] # NoAlert => act[j] \in DOMAIN ctxs')
    <3>1. \A j \in Keys \ {k} : active[j] # NoAlert => active[j] \in DOMAIN ctxs'
      BY <1>0, <1>1
    <3>2. QED
      BY <1>1, <1>4, <3>1
  <2>3. NoAlert \in Nat
    BY DEF NoAlert
  <2>4. active' \in [Keys -> Nat]
    BY <1>3, <2>2, <2>3
  <2>5. QED
    BY <2>1, <2>2, <2>4
<1>7. TypeOK'
  BY <1>0, <1>1, <1>2, <1>6 DEF TypeOK
<1>8. SuppressedHasOpenAlert'
  <2> SUFFICES ASSUME NEW j \in Keys, IsSuppressed(j)'
               PROVE  /\ active'[j] # NoAlert
                      /\ ctxs'[active'[j]].key = j
                      /\ ctxs'[active'[j]].raisedAt = lastSeen'[j]
    BY DEF SuppressedHasOpenAlert
  <2>1. CASE j = k
    BY <2>1, <1>0, <1>1, <1>5 DEF NoAlert
  <2>2. CASE j # k
    <3>1. lastSeen'[j] = lastSeen[j] /\ IsSuppressed(j)
      BY <2>2, <1>0 DEF IsSuppressed
    <3>2. /\ active[j] # NoAlert /\ ctxs[active[j]].key = j
          /\ ctxs[active[j]].raisedAt = lastSeen[j]
          /\ active[j] \in DOMAIN ctxs
      BY <3>1, <1>1 DEF IInv, SuppressedHasOpenAlert
    <3>3. ctxs[active[j]].emittedAt >= lastSeen[j] /\ ctxs[active[j]].emittedAt \in Nat
      BY <3>2, <1>0, ContextFields DEF IInv, StampsOrdered
    <3>4. now - lastSeen[j] < Window /\ lastSeen[j] \in Nat
      BY <3>1 DEF IsSuppressed, IInv, TypeOK
    <3>5. ctxs'[act[j]].emittedAt >= now - Window
      <4>1. act[j] = active[j] /\ ctxs'[act[j]] = ctxs[active[j]]
        BY <1>0, <1>4, <2>2, <3>2
      <4>2. now \in Nat /\ Window \in Nat
        BY <1>1
      <4>3. ctxs[active[j]].emittedAt >= now - Window
        BY <4>2, <3>3, <3>4
      <4>4. QED
        BY <4>1, <4>3
    <3>6. active'[j] = active[j]
      <4>1. act[j] = active[j] /\ ctxs'[act[j]].emittedAt = ctxs[active[j]].emittedAt
        BY <1>0, <1>4, <2>2, <3>2
      <4>2. ~(ctxs'[act[j]].emittedAt < now - Window)
        BY <1>1, <3>3, <3>5, <4>1
      <4>3. QED
        BY <1>3, <4>1, <4>2
    <3>7. QED
      BY <1>0, <3>1, <3>2, <3>6
  <2>3. QED
    BY <2>1, <2>2
<1>9. AlertSpacing'
  <2> SUFFICES ASSUME NEW i \in 1..n, NEW j \in 1..n, i < j, ctxs'[i].key = ctxs'[j].key
               PROVE  ctxs'[j].raisedAt - ctxs'[i].raisedAt >= Window
    BY <1>0 DEF AlertSpacing
  <2>1. i \in DOMAIN ctxs
    BY <1>0, <1>1
  <2>2. CASE j \in DOMAIN ctxs
    BY <1>0, <2>1, <2>2 DEF IInv, AlertSpacing
  <2>3. CASE j = n
    <3>1. ctxs[i].key = k /\ ctxs[i].raisedAt \in Nat
      BY <1>0, <2>1, <2>3, ContextFields
    <3>2. \/ ctxs[i].raisedAt <= lastSeen[k]
          \/ now - ctxs[i].raisedAt >= Window
      BY <2>1, <3>1 DEF IInv, EmissionsRemembered
    <3>3. lastSeen[k] = Never \/ (lastSeen[k] \in Nat /\ now - lastSeen[k] >= Window)
      BY <1>1 DEF Emit, IsSuppressed, IInv, TypeOK
    <3>4. now - ctxs[i].raisedAt >= Window
      <4>1. now \in Nat /\ Window \in Nat
        BY <1>1
      <4>2. CASE lastSeen[k] = Never
        BY <3>1, <3>2, <4>1, <4>2 DEF Never
      <4>3. CASE lastSeen[k] \in Nat /\ now - lastSeen[k] >= Window
        BY <3>1, <3>2, <4>1, <4>3
      <4>4. QED
        BY <3>3, <4>2, <4>3
    <3>5. QED
      BY <1>0, <2>1, <2>3, <3>4
  <2>4. j \in DOMAIN ctxs \/ j = n
    <3>1. DOMAIN ctxs = 1..Len(ctxs) /\ Len(ctxs) \in Nat
      BY <1>0, <1>1
    <3>2. QED
      BY <3>1
  <2>5. QED
    BY <2>2, <2>3, <2>4
<1>10. StampsOrdered'
  <2> SUFFICES ASSUME NEW i \in 1..n
               PROVE  ctxs'[i].raisedAt <= ctxs'[i].emittedAt /\ ctxs'[i].emittedAt <= now
    BY <1>0 DEF StampsOrdered
  <2>1. CASE i = n
    BY <1>0, <1>1, <2>1
  <2>2. CASE i \in DOMAIN ctxs
    BY <1>0, <2>2 DEF IInv, StampsOrdered
  <2>3. QED
    BY <1>0, <1>1, <2>1, <2>2
<1>11. EmissionsRemembered'
  <2> SUFFICES ASSUME NEW i \in 1..n
               PROVE  \/ ctxs'[i].raisedAt <= lastSeen'[ctxs'[i].key]
                      \/ now - ctxs'[i].raisedAt >= Window
    BY <1>0 DEF EmissionsRemembered
  <2>1. CASE i = n
    BY <1>0, <1>1, <2>1
  <2>2. CASE i \in DOMAIN ctxs
    <3>1. ctxs'[i] = ctxs[i] /\ ctxs[i].key \in Keys /\ ctxs[i].raisedAt \in Nat
          /\ ctxs[i].raisedAt <= now
      <4>1. ctxs'[i] = ctxs[i] /\ ctxs[i] \in Context
        BY <1>0, <2>2
      <4>2. ctxs[i].raisedAt <= ctxs[i].emittedAt /\ ctxs[i].emittedAt <= now
        BY <2>2 DEF IInv, StampsOrdered
      <4>3. ctxs[i].key \in Keys /\ ctxs[i].raisedAt \in Nat /\ ctxs[i].emittedAt \in Nat
        BY <4>1, ContextFields
      <4>4. QED
        BY <1>1, <4>1, <4>2, <4>3
    <3>2. \/ ctxs[i].raisedAt <= lastSeen[ctxs[i].key]
          \/ now - ctxs[i].raisedAt >= Window
      BY <2>2 DEF IInv, EmissionsRemembered
    <3>3. lastSeen[ctxs[i].key] \in Nat \cup {Never}
      BY <3>1 DEF IInv, TypeOK
    <3>4. CASE ctxs[i].key = k
      BY <1>0, <1>1, <3>1, <3>4
    <3>5. CASE ctxs[i].key # k
      <4>1. \/ lastSeen'[ctxs[i].key] = lastSeen[ctxs[i].key]
            \/ lastSeen[ctxs[i].key] < now - 2 * Window
        BY <1>0, <3>1, <3>5
      <4>2. CASE lastSeen'[ctxs[i].key] = lastSeen[ctxs[i].key]
        BY <3>1, <3>2, <4>2
      <4>3. CASE lastSeen[ctxs[i].key] < now - 2 * Window
        <5>1. now \in Nat /\ Window \in Nat
          BY <1>1
        <5>2. CASE ctxs[i].raisedAt <= lastSeen[ctxs[i].key]
          <6>1. now - ctxs[i].raisedAt >= Window
            BY <3>1, <3>3, <4>3, <5>1, <5>2 DEF Never
          <6>2. QED
            BY <3>1, <6>1
        <5>3. CASE now - ctxs[i].raisedAt >= Window
          BY <3>1, <5>3
        <5>4. QED
          BY <3>2, <5>2, <5>3
      <4>4. QED
        BY <4>1, <4>2, <4>3
    <3>6. QED
      BY <3>4, <3>5
  <2>3. QED
    BY <1>0, <1>1, <2>1, <2>2
<1>12. SeenInPast'
  <2> SUFFICES ASSUME NEW j \in Keys
               PROVE  lastSeen'[j] <= now
    BY DEF SeenInPast
  <2>1. lastSeen[j] <= now
    BY DEF IInv, SeenInPast
  <2>2. lastSeen'[j] = now \/ lastSeen'[j] = lastSeen[j] \/ lastSeen'[j] = Never
    BY <1>0
  <2>3. QED
    BY <1>1, <2>1, <2>2 DEF Never
<1>13. QED
  BY <1>7, <1>8, <1>9, <1>10, <1>11, <1>12 DEF IInv

\* One call of create_alert preserves the invariant, whichever way it returns.
LEMMA CreateAlertStep ==
    ASSUME IInv, NEW k \in Keys, NEW s \in Sources,
           CreateAlert(k, s)
    PROVE  IInv'
<1>1. now' = now /\ detected' \in [Keys -> Nat]
  BY DEF CreateAlert, IInv, TypeOK
<1>2. CASE Merge(k, s)
  BY <1>1, <1>2, MergeStep
<1>3. CASE Swallow(k)
  BY <1>3, SwallowStep
<1>4. CASE Emit(k, s)
  BY <1>1, <1>4, EmitStep
<1>5. QED
  BY <1>2, <1>3, <1>4 DEF CreateAlert

\* The inductive invariant is an invariant of the specification.
THEOREM Inductive == Spec => []IInv
<1>1. IInv /\ [Next]_vars => IInv'
  <2> SUFFICES ASSUME IInv, [Next]_vars
               PROVE  IInv'
    OBVIOUS
  <2>1. CASE Tick
    BY <2>1, TickStep
  <2>2. ASSUME NEW k \in Keys, NEW s \in Sources, CreateAlert(k, s)
        PROVE  IInv'
    BY <2>2, CreateAlertStep
  <2>3. CASE UNCHANGED vars
    BY <2>3 DEF vars, IInv, TypeOK, SuppressedHasOpenAlert, AlertSpacing,
            StampsOrdered, EmissionsRemembered, SeenInPast, IsSuppressed
  <2>4. QED
    BY <2>1, <2>2, <2>3 DEF Next
<1>2. QED
  BY <1>1, InitIInv, PTL DEF Spec

\* The alert tables always hold values of their types.
THEOREM TypeCorrect == Spec => []TypeOK
BY Inductive, PTL DEF IInv

\* create_alert never drops a detection silently: when the deduplicator
\* suppresses a key, the manager still has that key's alert open.
THEOREM NoSilentSuppression == Spec => []SuppressedHasOpenAlert
BY Inductive, PTL DEF IInv

\* Alerts of one aggregation key are at least one window apart.
THEOREM SpacedAlerts == Spec => []AlertSpacing
BY Inductive, PTL DEF IInv

-----------------------------------------------------------------------------
(* AlertAggregation implements AlertPromise. *)

Alerts == [i \in DOMAIN ctxs |->
              [key |-> ctxs[i].key, at |-> ctxs[i].raisedAt, flows |-> ctxs[i].flows]]

\* The mapped sequence of alerts has one entry per context.
LEMMA AlertsSeq ==
    ASSUME IInv
    PROVE  Alerts \in Seq([key : Keys, at : Nat, flows : Nat]) /\ Len(Alerts) = Len(ctxs)
<1>1. ctxs \in Seq(Context) /\ DOMAIN ctxs = 1..Len(ctxs) /\ Len(ctxs) \in Nat
  BY DEF IInv, TypeOK
<1>2. \A i \in 1..Len(ctxs) :
        [key |-> ctxs[i].key, at |-> ctxs[i].raisedAt, flows |-> ctxs[i].flows]
            \in [key : Keys, at : Nat, flows : Nat]
  <2> SUFFICES ASSUME NEW i \in 1..Len(ctxs)
               PROVE  /\ ctxs[i].key \in Keys /\ ctxs[i].raisedAt \in Nat
                      /\ ctxs[i].flows \in Nat
    OBVIOUS
  <2>1. ctxs[i] \in Context
    BY <1>1
  <2>2. QED
    BY <2>1, ContextFields
<1>3. QED
  BY <1>1, <1>2 DEF Alerts

\* A merge is the abstract Count: the open alert is less than a window old.
LEMMA MergeIsCount ==
    ASSUME IInv, NEW k \in Keys, NEW s \in Sources, Merge(k, s),
           CreateAlert(k, s)
    PROVE  Promise!Count(k)
<1> DEFINE a == active[k]
           New == [Alerts EXCEPT ![a].flows = @ + 1]
<1>1. /\ a \in DOMAIN ctxs
      /\ DOMAIN ctxs' = DOMAIN ctxs
      /\ \A i \in DOMAIN ctxs : i # a => ctxs'[i] = ctxs[i]
      /\ ctxs'[a].key = ctxs[a].key
      /\ ctxs'[a].raisedAt = ctxs[a].raisedAt
      /\ ctxs'[a].flows = ctxs[a].flows + 1
  BY MergeEffect
<1>2. IsSuppressed(k) /\ ctxs[a].key = k /\ ctxs[a].raisedAt = lastSeen[k]
  BY DEF Merge, IInv, SuppressedHasOpenAlert
<1>3. Alerts' = New
  <2>1. DOMAIN Alerts = DOMAIN ctxs /\ DOMAIN Alerts' = DOMAIN ctxs
    BY <1>1 DEF Alerts
  <2>2. \A i \in DOMAIN ctxs : Alerts'[i] = New[i]
    BY <1>1 DEF Alerts
  <2>3. QED
    BY <2>1, <2>2 DEF Alerts
<1>4. a \in DOMAIN Alerts /\ Alerts[a].key = k /\ now - Alerts[a].at < Window
  BY <1>1, <1>2 DEF Alerts, IsSuppressed
<1>5. detected' = [detected EXCEPT ![k] = @ + 1] /\ now' = now
  BY DEF CreateAlert
<1>6. QED
  BY <1>3, <1>4, <1>5 DEF Promise!Count, Promise!InWindow, Alerts

\* The entries of an appended sequence.
LEMMA AppendEntries ==
    ASSUME NEW S, NEW q \in Seq(S), NEW e \in S
    PROVE  /\ DOMAIN Append(q, e) = 1..(Len(q) + 1)
           /\ Append(q, e)[Len(q) + 1] = e
           /\ \A i \in 1..Len(q) : Append(q, e)[i] = q[i]
OBVIOUS

\* An emission is the abstract Raise: no alert of the key is in the window.
LEMMA EmitIsRaise ==
    ASSUME IInv, NEW k \in Keys, NEW s \in Sources, Emit(k, s),
           CreateAlert(k, s)
    PROVE  Promise!Raise(k)
<1> DEFINE n == Len(ctxs) + 1
           a == [key |-> k, at |-> now, flows |-> 1]
<1>1. /\ DOMAIN ctxs' = 1..n /\ DOMAIN ctxs = 1..Len(ctxs)
      /\ \A i \in DOMAIN ctxs : ctxs'[i] = ctxs[i] /\ ctxs[i] \in Context
      /\ ctxs'[n].key = k /\ ctxs'[n].raisedAt = now /\ ctxs'[n].flows = 1
  BY EmitEffect
<1>2. now \in Nat /\ Len(ctxs) \in Nat /\ detected' = [detected EXCEPT ![k] = @ + 1]
      /\ now' = now
  BY DEF CreateAlert, IInv, TypeOK
<1>3. \A i \in DOMAIN ctxs : ctxs[i].key = k => ~(now - ctxs[i].raisedAt < Window)
  <2> SUFFICES ASSUME NEW i \in DOMAIN ctxs, ctxs[i].key = k
               PROVE  now - ctxs[i].raisedAt >= Window
    <3>1. \A i \in DOMAIN ctxs : ctxs[i].raisedAt \in Nat
      BY <1>1, ContextFields
    <3>2. QED
      BY <1>2, <3>1, AggregationAssumption
  <2>1. ctxs[i].raisedAt \in Nat
    BY <1>1, ContextFields
  <2>2. ctxs[i].raisedAt <= lastSeen[k] \/ now - ctxs[i].raisedAt >= Window
    BY DEF IInv, EmissionsRemembered
  <2>3. lastSeen[k] = Never \/ (lastSeen[k] \in Nat /\ now - lastSeen[k] >= Window)
    BY <1>2, AggregationAssumption DEF Emit, IsSuppressed, IInv, TypeOK
  <2>4. QED
    BY <1>2, <2>1, <2>2, <2>3, AggregationAssumption DEF Never
<1>4. \A i \in DOMAIN Alerts : Alerts[i].key = k => ~(now - Alerts[i].at < Window)
  BY <1>3 DEF Alerts
<1>5. Alerts' = Append(Alerts, a)
  <2>1. /\ Alerts \in Seq([key : Keys, at : Nat, flows : Nat])
        /\ Len(Alerts) = Len(ctxs)
    BY AlertsSeq
  <2>2. a \in [key : Keys, at : Nat, flows : Nat]
    BY <1>2
  <2>3. /\ DOMAIN Append(Alerts, a) = 1..n
        /\ Append(Alerts, a)[n] = a
        /\ \A i \in 1..Len(ctxs) : Append(Alerts, a)[i] = Alerts[i]
    BY <2>1, <2>2, AppendEntries
  <2>4. /\ DOMAIN Alerts' = 1..n
        /\ Alerts'[n] = a
        /\ \A i \in 1..Len(ctxs) : Alerts'[i] = Alerts[i]
    <3>1. Alerts' = [i \in 1..n |-> [key |-> ctxs'[i].key, at |-> ctxs'[i].raisedAt,
                                   flows |-> ctxs'[i].flows]]
      BY <1>1 DEF Alerts
    <3>2. Alerts = [i \in 1..Len(ctxs) |-> [key |-> ctxs[i].key, at |-> ctxs[i].raisedAt,
                                            flows |-> ctxs[i].flows]]
      BY <1>1 DEF Alerts
    <3>3. n \in 1..n /\ \A i \in 1..Len(ctxs) : i \in 1..n /\ ctxs'[i] = ctxs[i]
      BY <1>1, <1>2
    <3>4. DOMAIN Alerts' = 1..n /\ Alerts'[n] = a
      BY <1>1, <3>1, <3>3
    <3>5. \A i \in 1..Len(ctxs) : Alerts'[i] = Alerts[i]
      BY <3>1, <3>2, <3>3
    <3>6. QED
      BY <3>4, <3>5
  <2>5. \A i \in 1..n : Alerts'[i] = Append(Alerts, a)[i]
    <3>1. \A i \in 1..n : i \in 1..Len(ctxs) \/ i = n
      BY <1>2
    <3>2. QED
      BY <2>3, <2>4, <3>1
  <2>6. Alerts' = [i \in 1..n |-> Alerts'[i]]
    BY <2>4 DEF Alerts
  <2>7. Append(Alerts, a) = [i \in 1..n |-> Append(Alerts, a)[i]]
    BY <2>1, <2>2, <2>3, <1>2
  <2>8. QED
    BY <2>5, <2>6, <2>7
<1>6. QED
  BY <1>2, <1>4, <1>5 DEF Promise!Raise, Promise!InWindow, Alerts

\* The alert tables implement the promise: raises of a key are a window apart
\* and every detection is counted by an alert raised less than a window ago.
THEOREM Refinement == Spec => ImplementsPromise
<1>1. Init => Promise!Init
  <2> SUFFICES ASSUME Init PROVE Alerts = <<>> /\ now = 0 /\ detected = [k \in Keys |-> 0]
    BY DEF Promise!Init, Alerts
  <2>1. DOMAIN Alerts = {}
    BY DEF Init, Alerts
  <2>2. QED
    BY <2>1 DEF Init, Alerts
<1>2. IInv /\ [Next]_vars => [Promise!Next]_(Promise!vars)
  <2> SUFFICES ASSUME IInv, [Next]_vars
               PROVE  Promise!Next \/ UNCHANGED Promise!vars
    OBVIOUS
  <2>1. CASE Tick
    BY <2>1 DEF Tick, Promise!Next, Promise!Advance
  <2>2. ASSUME NEW k \in Keys, NEW s \in Sources, CreateAlert(k, s)
        PROVE  Promise!Next
    <3>1. CASE Merge(k, s)
      BY <2>2, <3>1, MergeIsCount DEF Promise!Next
    <3>2. CASE Swallow(k)
      BY <3>2, SwallowStep
    <3>3. CASE Emit(k, s)
      BY <2>2, <3>3, EmitIsRaise DEF Promise!Next
    <3>4. QED
      BY <2>2, <3>1, <3>2, <3>3 DEF CreateAlert
  <2>3. CASE UNCHANGED vars
    BY <2>3 DEF vars, Promise!vars
  <2>4. QED
    BY <2>1, <2>2, <2>3 DEF Next
<1>3. QED
  BY <1>1, <1>2, Inductive, PTL DEF Spec, ImplementsPromise, Promise!Spec

-----------------------------------------------------------------------------
(* The publication rate. *)

\* A context is inside its rate budget at the time it was last published.
InBudget(c) ==
    /\ c.raisedAt <= c.publishedAt
    /\ (c.publishes - 1) * PulseInterval <= c.publishedAt - c.raisedAt

PulseInv == \A i \in DOMAIN ctxs : InBudget(ctxs[i]) /\ ctxs[i].publishedAt <= now

\* Publishing once more costs one interval of the budget.
LEMMA BudgetStep ==
    ASSUME NEW p \in Int, NEW d \in Int, NEW e \in Int,
           (p - 1) * PulseInterval <= d, e >= d + PulseInterval
    PROVE  ((p + 1) - 1) * PulseInterval <= e
<1>1. PulseInterval \in Int
  BY AggregationAssumption
<1>2. ((p + 1) - 1) * PulseInterval = (p - 1) * PulseInterval + PulseInterval
  BY <1>1
<1>3. (p - 1) * PulseInterval \in Int
  BY <1>1
<1>4. QED
  BY <1>1, <1>2, <1>3

\* A merge with its pulse keeps the context inside its budget.
LEMMA PulseInBudget ==
    ASSUME now \in Nat, NEW c \in Context, InBudget(c), c.publishedAt <= now
    PROVE  InBudget(Pulse(c)) /\ Pulse(c).publishedAt <= now
<1>1. c.publishedAt \in Nat /\ c.raisedAt \in Nat /\ c.publishes \in Nat
  BY DEF Context
<1>2. CASE now - c.publishedAt < PulseInterval
  BY <1>2 DEF Pulse
<1>3. CASE ~(now - c.publishedAt < PulseInterval)
  <2>1. Pulse(c) = [c EXCEPT !.publishedAt = now, !.publishes = @ + 1]
    BY <1>3 DEF Pulse
  <2>2. /\ Pulse(c).publishedAt = now /\ Pulse(c).publishes = c.publishes + 1
        /\ Pulse(c).raisedAt = c.raisedAt
    BY <2>1 DEF Context
  <2>3. now - c.raisedAt >= (c.publishedAt - c.raisedAt) + PulseInterval
    BY <1>1, <1>3, AggregationAssumption
  <2>4. ((c.publishes + 1) - 1) * PulseInterval <= now - c.raisedAt
    BY <1>1, <2>3, BudgetStep DEF InBudget
  <2>5. QED
    BY <1>1, <2>2, <2>4 DEF InBudget
<1>4. QED
  BY <1>2, <1>3

\* One call of create_alert keeps every context inside its budget.
LEMMA CreateAlertBudget ==
    ASSUME IInv, PulseInv, NEW k \in Keys, NEW s \in Sources, CreateAlert(k, s)
    PROVE  PulseInv'
<1>0. now' = now /\ now \in Nat /\ ctxs \in Seq(Context)
  BY DEF CreateAlert, IInv, TypeOK
<1>1. CASE Merge(k, s)
  <2> DEFINE a == active[k]
             m == MergeContext(ctxs[a], s)
  <2>1. a \in DOMAIN ctxs /\ ctxs[a] \in Context
    BY <1>0, <1>1 DEF Merge, IInv, TypeOK
  <2>2. /\ m \in Context /\ m.raisedAt = ctxs[a].raisedAt
        /\ m.publishedAt = ctxs[a].publishedAt /\ m.publishes = ctxs[a].publishes
    BY <1>0, <2>1, MergeContextFacts
  <2>3. InBudget(m) /\ m.publishedAt <= now
    BY <2>1, <2>2 DEF PulseInv, InBudget
  <2>4. ctxs' = [ctxs EXCEPT ![a] = Pulse(m)]
    BY <1>1 DEF Merge
  <2> HIDE DEF m
  <2>5. InBudget(Pulse(m)) /\ Pulse(m).publishedAt <= now
    BY <1>0, <2>2, <2>3, PulseInBudget
  <2>6. QED
    BY <1>0, <2>1, <2>4, <2>5 DEF PulseInv
<1>2. CASE Swallow(k)
  BY <1>2, SwallowStep
<1>3. CASE Emit(k, s)
  <2> DEFINE n == Len(ctxs) + 1
             c == NewContext(k, s)
  <2>1. /\ DOMAIN ctxs' = 1..n /\ DOMAIN ctxs = 1..Len(ctxs) /\ Len(ctxs) \in Nat
        /\ \A i \in DOMAIN ctxs : ctxs'[i] = ctxs[i]
    BY <1>0, <1>3, EmitEffect
  <2>2. ctxs'[n] = c
    BY <1>0, <1>3, NewContextType DEF Emit
  <2>3. c.publishedAt = now /\ c.raisedAt = now /\ c.publishes = 1
    BY DEF NewContext
  <2> HIDE DEF c
  <2>4. InBudget(c) /\ c.publishedAt <= now
    <3>1. (1 - 1) * PulseInterval = 0
      BY AggregationAssumption
    <3>2. QED
      BY <1>0, <2>3, <3>1 DEF InBudget
  <2>5. \A i \in 1..n : i \in 1..Len(ctxs) \/ i = n
    BY <2>1
  <2>6. QED
    BY <1>0, <2>1, <2>2, <2>4, <2>5 DEF PulseInv
<1>4. QED
  BY <1>1, <1>2, <1>3 DEF CreateAlert

\* Over its whole life an alert is published at most once per interval, plus
\* the once it was raised: the throttle in _pulse cannot be beaten by merges.
THEOREM RateLimited == Spec => []PulseRate
<1>1. Init => PulseInv
  BY DEF Init, PulseInv
<1>2. IInv /\ PulseInv /\ [Next]_vars => PulseInv'
  <2> SUFFICES ASSUME IInv, PulseInv, [Next]_vars
               PROVE  PulseInv'
    OBVIOUS
  <2>1. CASE Tick
    <3>1. now \in Nat /\ now' = now + 1 /\ ctxs' = ctxs
      BY <2>1 DEF Tick, IInv, TypeOK
    <3>2. \A i \in DOMAIN ctxs : ctxs[i] \in Context
      BY DEF IInv, TypeOK
    <3>3. \A i \in DOMAIN ctxs : ctxs[i].publishedAt \in Nat
      BY <3>2 DEF Context
    <3>4. QED
      BY <3>1, <3>3 DEF PulseInv
  <2>2. ASSUME NEW k \in Keys, NEW s \in Sources, CreateAlert(k, s)
        PROVE  PulseInv'
    BY <2>2, CreateAlertBudget
  <2>3. CASE UNCHANGED vars
    BY <2>3 DEF vars, PulseInv
  <2>4. QED
    BY <2>1, <2>2, <2>3 DEF Next
<1>3. IInv /\ PulseInv => PulseRate
  <2> SUFFICES ASSUME IInv, PulseInv, NEW i \in DOMAIN ctxs
               PROVE  (ctxs[i].publishes - 1) * PulseInterval <= now - ctxs[i].raisedAt
    BY DEF PulseRate
  <2>1. ctxs[i] \in Context /\ now \in Nat
    BY DEF IInv, TypeOK
  <2>2. /\ ctxs[i].publishedAt \in Nat /\ ctxs[i].raisedAt \in Nat
        /\ ctxs[i].publishes \in Nat /\ PulseInterval \in Nat
    BY <2>1, AggregationAssumption DEF Context
  <2>3. (ctxs[i].publishes - 1) * PulseInterval \in Int
    BY <2>2
  <2>4. QED
    BY <2>1, <2>2, <2>3 DEF PulseInv, InBudget
<1>4. QED
  BY <1>1, <1>2, <1>3, Inductive, PTL DEF Spec

-----------------------------------------------------------------------------
(* The aggregation summary of an alert. *)

Elems(seq) == {seq[n] : n \in DOMAIN seq}
NoRepeats(seq) == \A m, n \in DOMAIN seq : seq[m] = seq[n] => m = n

\* Appending what is new adds it, once.
LEMMA AppendNewAdds ==
    ASSUME NEW S, NEW seq \in Seq(S), NEW e \in S, NoRepeats(seq)
    PROVE  /\ NoRepeats(AppendNew(seq, e))
           /\ Elems(AppendNew(seq, e)) = Elems(seq) \cup {e}
<1>1. CASE Contains(seq, e)
  BY <1>1 DEF AppendNew, Contains, Elems
<1>2. CASE ~Contains(seq, e)
  <2> DEFINE longer == Append(seq, e)
  <2>1. /\ DOMAIN longer = 1 .. (Len(seq) + 1) /\ DOMAIN seq = 1 .. Len(seq)
        /\ Len(seq) \in Nat
        /\ \A n \in DOMAIN seq : longer[n] = seq[n]
        /\ longer[Len(seq) + 1] = e
    OBVIOUS
  <2>2. AppendNew(seq, e) = longer
    BY <1>2 DEF AppendNew
  <2> HIDE DEF longer
  <2>3. \A n \in DOMAIN longer : n \in DOMAIN seq \/ n = Len(seq) + 1
    BY <2>1
  <2>4. NoRepeats(longer)
    BY <1>2, <2>1, <2>3 DEF NoRepeats, Contains
  <2>5. Elems(longer) = Elems(seq) \cup {e}
    BY <2>1, <2>3 DEF Elems
  <2> QED
    BY <2>2, <2>4, <2>5
<1> QED
  BY <1>1, <1>2

\* Cutting a list to its last entries repeats none and adds none.
LEMMA KeepLastCuts ==
    ASSUME NEW S, NEW seq \in Seq(S), NEW n \in Nat, NoRepeats(seq)
    PROVE  /\ NoRepeats(KeepLast(seq, n))
           /\ Elems(KeepLast(seq, n)) \subseteq Elems(seq)
           /\ Len(seq) <= n => KeepLast(seq, n) = seq
<1>1. CASE Len(seq) <= n
  BY <1>1 DEF KeepLast
<1>2. CASE ~(Len(seq) <= n)
  <2> DEFINE from == Len(seq) - n
             cut == SubSeq(seq, from + 1, Len(seq))
  <2>1. Len(seq) \in Nat /\ DOMAIN seq = 1 .. Len(seq) /\ from \in Nat /\ from + n = Len(seq)
    BY <1>2
  <2>2. KeepLast(seq, n) = cut
    BY <1>2 DEF KeepLast
  <2>3. DOMAIN cut = 1 .. n /\ \A i \in 1 .. n : cut[i] = seq[from + i]
    <3>1. from + 1 \in 1 .. Len(seq) + 1 /\ Len(seq) - (from + 1) + 1 = n
      BY <2>1
    <3>2. /\ DOMAIN cut = 1 .. Len(seq) - (from + 1) + 1
          /\ \A i \in 1 .. Len(seq) - (from + 1) + 1 : cut[i] = seq[from + 1 + i - 1]
      BY <2>1, SMTT(30)
    <3>3. \A i \in 1 .. n : from + 1 + i - 1 = from + i
      BY <2>1
    <3> HIDE DEF cut, from
    <3> QED
      BY <3>1, <3>2, <3>3
  <2> HIDE DEF cut, from
  <2>4. \A i \in 1 .. n : from + i \in DOMAIN seq
    BY <2>1
  <2>5. NoRepeats(cut)
    <3>1. \A i, j \in 1 .. n : from + i = from + j => i = j
      BY <2>1
    <3> QED
      BY <2>3, <2>4, <3>1 DEF NoRepeats
  <2>6. Elems(cut) \subseteq Elems(seq)
    BY <2>3, <2>4 DEF Elems
  <2> QED
    BY <1>2, <2>2, <2>5, <2>6
<1> QED
  BY <1>1, <1>2

\* A list without repeats is as long as the set of its elements is large.
LEMMA NoRepeatsCounts ==
    ASSUME NEW S, NEW seq \in Seq(S), NoRepeats(seq)
    PROVE  Cardinality(Elems(seq)) = Len(seq)
<1>1. Len(seq) \in Nat /\ DOMAIN seq = 1 .. Len(seq)
  OBVIOUS
<1>2. seq \in [1 .. Len(seq) -> Elems(seq)]
  BY <1>1 DEF Elems
<1>3. seq \in Bijection(1 .. Len(seq), Elems(seq))
  BY <1>1, <1>2 DEF Bijection, Injection, Surjection, IsInjective, NoRepeats, Elems
<1> QED
  BY <1>1, <1>3, FS_CountingElements DEF ExistsBijection

\* What the summary of one alert says of the sources folded into it.  The
\* alert's own source is among them, so that merging never appends it anew.
Summarised(c) ==
    /\ IsFiniteSet(c.folded) /\ c.src \in c.folded
    /\ NoRepeats(c.sources) /\ Elems(c.sources) \subseteq c.folded
    /\ Cardinality(c.folded) <= TrackedSources =>
          /\ Elems(c.sources) = c.folded
          /\ c.sourceCount = Cardinality(c.folded)

SummaryInv == \A i \in DOMAIN ctxs : Summarised(ctxs[i])

\* Merging a detection keeps the summary, whether or not its source is new and
\* whether or not the list is cut.
LEMMA MergeSummarised ==
    ASSUME NEW c \in Context, NEW s \in Sources, Summarised(c)
    PROVE  Summarised(MergeContext(c, s))
<1> DEFINE u1 == AppendNew(c.sources, c.src)
           u2 == AppendNew(u1, s)
           m == MergeContext(c, s)
<1>1. c.sources \in Seq(Sources) /\ c.src \in Sources /\ c.folded \in SUBSET Sources
  BY DEF Context
<1>2. /\ u1 \in Seq(Sources) /\ NoRepeats(u1)
      /\ Elems(u1) = Elems(c.sources) \cup {c.src}
  <2>1. NoRepeats(c.sources)
    BY DEF Summarised
  <2>2. u1 \in Seq(Sources)
    BY <1>1, AppendNewType
  <2>3. NoRepeats(u1) /\ Elems(u1) = Elems(c.sources) \cup {c.src}
    BY <1>1, <2>1, AppendNewAdds
  <2> QED
    BY <2>2, <2>3
<1>3. /\ u2 \in Seq(Sources) /\ NoRepeats(u2)
      /\ Elems(u2) = Elems(c.sources) \cup {c.src, s}
  <2> HIDE DEF u1
  <2>1. u2 \in Seq(Sources) /\ NoRepeats(u2) /\ Elems(u2) = Elems(u1) \cup {s}
    BY <1>2, AppendNewType, AppendNewAdds
  <2> QED
    BY <1>2, <2>1
<1>4. /\ m.sources = KeepLast(u2, TrackedSources) /\ m.sourceCount = Len(u2)
      /\ m.folded = c.folded \cup {s} /\ m.src = c.src
  BY DEF MergeContext, Context
<1> HIDE DEF u1, u2, m
<1>5. /\ NoRepeats(m.sources) /\ Elems(m.sources) \subseteq Elems(u2)
      /\ Len(u2) <= TrackedSources => m.sources = u2
  BY <1>3, <1>4, KeepLastCuts, AggregationAssumption
<1>6. IsFiniteSet(m.folded) /\ m.src \in m.folded /\ Elems(m.sources) \subseteq m.folded
  BY <1>3, <1>4, <1>5, FS_AddElement DEF Summarised
<1>7. ASSUME Cardinality(m.folded) <= TrackedSources
      PROVE  Elems(m.sources) = m.folded /\ m.sourceCount = Cardinality(m.folded)
  <2>1. Cardinality(c.folded) <= Cardinality(m.folded)
    BY <1>4, <1>6, FS_Subset
  <2>2. /\ Cardinality(c.folded) \in Nat /\ Cardinality(m.folded) \in Nat
        /\ TrackedSources \in Nat
    BY <1>6, FS_CardinalityType, AggregationAssumption DEF Summarised
  <2>3. Elems(c.sources) = c.folded
    BY <1>7, <2>1, <2>2 DEF Summarised
  <2>4. Elems(u2) = m.folded
    BY <1>3, <1>4, <2>3 DEF Summarised
  <2>5. Len(u2) = Cardinality(m.folded)
    BY <1>3, <2>4, NoRepeatsCounts
  <2> QED
    BY <1>4, <1>5, <1>7, <2>4, <2>5
<1> QED
  BY <1>5, <1>6, <1>7 DEF Summarised, m

\* A new alert lists its one source.
LEMMA NewSummarised ==
    ASSUME NEW k \in Keys, NEW s \in Sources
    PROVE  Summarised(NewContext(k, s))
<1> DEFINE c == NewContext(k, s)
<1>1. c.src = s /\ c.sources = <<s>> /\ c.sourceCount = 1 /\ c.folded = {s}
  BY DEF NewContext
<1>2. IsFiniteSet({s}) /\ Cardinality({s}) = 1
  BY FS_Singleton
<1>3. DOMAIN <<s>> = {1} /\ <<s>>[1] = s
  OBVIOUS
<1> HIDE DEF c
<1>4. NoRepeats(c.sources) /\ Elems(c.sources) = {s}
  BY <1>1, <1>3 DEF NoRepeats, Elems
<1> QED
  BY <1>1, <1>2, <1>4 DEF Summarised, c

\* The summary the console shows is exact while an alert has no more sources
\* than it tracks, and never lists a source twice or one that was not folded in.
THEOREM SummariesFaithful == Spec => []SummaryFaithful
<1>1. Init => SummaryInv
  BY DEF Init, SummaryInv
<1>2. IInv /\ SummaryInv /\ [Next]_vars => SummaryInv'
  <2> SUFFICES ASSUME IInv, SummaryInv, [Next]_vars
               PROVE  SummaryInv'
    OBVIOUS
  <2>1. ctxs \in Seq(Context) /\ now \in Nat
    BY DEF IInv, TypeOK
  <2>2. ASSUME NEW k \in Keys, NEW s \in Sources, CreateAlert(k, s), Merge(k, s)
        PROVE  SummaryInv'
    <3> DEFINE a == active[k]
               m == MergeContext(ctxs[a], s)
    <3>1. a \in DOMAIN ctxs /\ ctxs[a] \in Context
      BY <2>1, <2>2 DEF Merge, IInv, TypeOK
    <3>2. m \in Context /\ Summarised(m)
      BY <2>1, <3>1, MergeContextFacts, MergeSummarised DEF SummaryInv
    <3>3. ctxs' = [ctxs EXCEPT ![a] = Pulse(m)]
      BY <2>2 DEF Merge
    <3> HIDE DEF m
    <3>4. Summarised(Pulse(m))
      BY <3>2 DEF Pulse, Summarised, Context
    <3> QED
      BY <2>1, <3>1, <3>3, <3>4 DEF SummaryInv
  <2>3. ASSUME NEW k \in Keys, NEW s \in Sources, CreateAlert(k, s), Emit(k, s)
        PROVE  SummaryInv'
    <3> DEFINE n == Len(ctxs) + 1
    <3>1. /\ DOMAIN ctxs' = 1 .. n /\ DOMAIN ctxs = 1 .. Len(ctxs) /\ Len(ctxs) \in Nat
          /\ \A i \in DOMAIN ctxs : ctxs'[i] = ctxs[i]
      BY <2>1, <2>3, EmitEffect
    <3>2. ctxs'[n] = NewContext(k, s)
      BY <2>1, <2>3, NewContextType DEF Emit
    <3>3. \A i \in 1 .. n : i \in 1 .. Len(ctxs) \/ i = n
      BY <3>1
    <3> QED
      BY <3>1, <3>2, <3>3, NewSummarised DEF SummaryInv
  <2>4. CASE ctxs' = ctxs
    BY <2>4 DEF SummaryInv
  <2> QED
    BY <2>2, <2>3, <2>4 DEF Next, Tick, CreateAlert, Swallow, vars
<1>3. IInv /\ SummaryInv => SummaryFaithful
  <2> SUFFICES ASSUME IInv, SummaryInv, NEW i \in DOMAIN ctxs
               PROVE  LET c == ctxs[i]
                          listed == {c.sources[n] : n \in DOMAIN c.sources}
                      IN  /\ listed \subseteq c.folded
                          /\ Cardinality(listed) = Len(c.sources)
                          /\ Cardinality(c.folded) <= TrackedSources =>
                               /\ listed = c.folded
                               /\ c.sourceCount = Cardinality(c.folded)
    BY DEF SummaryFaithful
  <2>1. ctxs[i].sources \in Seq(Sources) /\ Summarised(ctxs[i])
    <3>1. ctxs[i] \in Context
      BY DEF IInv, TypeOK
    <3> QED
      BY <3>1 DEF SummaryInv, Context
  <2>2. Cardinality(Elems(ctxs[i].sources)) = Len(ctxs[i].sources)
    BY <2>1, NoRepeatsCounts DEF Summarised
  <2> QED
    BY <2>1, <2>2 DEF Summarised, Elems
<1> QED
  BY <1>1, <1>2, <1>3, Inductive, PTL DEF Spec
-----------------------------------------------------------------------------
(* What the list of recent detections shows, and what it can miss. *)

\* The list is the newest alerts, newest first, as many as it has places for.
RecentIsNewest ==
    /\ Len(recent) = IF Len(ctxs) < RecentMax THEN Len(ctxs) ELSE RecentMax
    /\ \A n \in DOMAIN recent : recent[n] = Len(ctxs) + 1 - n

\* Alerts are numbered in the order they were raised.
RaisedInOrder ==
    \A i, j \in DOMAIN ctxs : i <= j => ctxs[i].raisedAt <= ctxs[j].raisedAt

\* An entry put in front of a bounded list pushes the last one out, if it is full.
LEMMA PushFront ==
    ASSUME NEW seq \in Seq(Nat), NEW e \in Nat, NEW n \in Nat \ {0}, Len(seq) <= n
    PROVE  LET pushed == KeepFirst(<<e>> \o seq, n)
           IN  /\ Len(pushed) = IF Len(seq) < n THEN Len(seq) + 1 ELSE n
               /\ \A i \in DOMAIN pushed : pushed[i] = IF i = 1 THEN e ELSE seq[i - 1]
<1> DEFINE long == <<e>> \o seq
<1>1. /\ long \in Seq(Nat) /\ Len(long) = Len(seq) + 1 /\ Len(seq) \in Nat
      /\ DOMAIN long = 1 .. (Len(seq) + 1)
      /\ \A i \in 1 .. (Len(seq) + 1) : long[i] = IF i = 1 THEN e ELSE seq[i - 1]
  OBVIOUS
<1> DEFINE pushed == KeepFirst(long, n)
<1> HIDE DEF long
<1>2. CASE Len(long) <= n
  <2>1. pushed = long
    BY <1>2 DEF KeepFirst
  <2> HIDE DEF pushed
  <2>2. /\ Len(pushed) = IF Len(seq) < n THEN Len(seq) + 1 ELSE n
        /\ \A i \in DOMAIN pushed : pushed[i] = IF i = 1 THEN e ELSE seq[i - 1]
    BY <1>1, <1>2, <2>1
  <2> QED
    BY <2>2 DEF pushed, long
<1>3. CASE ~(Len(long) <= n)
  <2>1. pushed = SubSeq(long, 1, n)
    BY <1>3 DEF KeepFirst
  <2>2. /\ Len(SubSeq(long, 1, n)) = n /\ DOMAIN SubSeq(long, 1, n) = 1 .. n
        /\ \A i \in 1 .. n : SubSeq(long, 1, n)[i] = long[i]
    BY <1>1, <1>3
  <2> HIDE DEF pushed
  <2>3. Len(pushed) = n /\ DOMAIN pushed = 1 .. n /\ \A i \in 1 .. n : pushed[i] = long[i]
    BY <2>1, <2>2
  <2>4. ~(Len(seq) < n) /\ 1 .. n \subseteq 1 .. (Len(seq) + 1)
    BY <1>1, <1>3
  <2>5. /\ Len(pushed) = IF Len(seq) < n THEN Len(seq) + 1 ELSE n
        /\ \A i \in DOMAIN pushed : pushed[i] = IF i = 1 THEN e ELSE seq[i - 1]
    BY <1>1, <2>3, <2>4
  <2> QED
    BY <2>5 DEF pushed, long
<1> QED
  BY <1>2, <1>3 DEF long

\* Both facts are kept by every step.
LEMMA RecentStep ==
    ASSUME IInv, RecentIsNewest, RaisedInOrder, [Next]_vars
    PROVE  RecentIsNewest' /\ RaisedInOrder'
<1>1. ctxs \in Seq(Context) /\ recent \in Seq(Nat) /\ RecentMax \in Nat \ {0}
  BY AggregationAssumption DEF IInv, TypeOK
<1>2. CASE UNCHANGED <<ctxs, recent>>
  BY <1>2 DEF RecentIsNewest, RaisedInOrder
<1>3. ASSUME NEW k \in Keys, NEW s \in Sources, Merge(k, s)
      PROVE  RecentIsNewest' /\ RaisedInOrder'
  <2>1. /\ ctxs' \in Seq(Context) /\ DOMAIN ctxs' = DOMAIN ctxs
        /\ \A i \in DOMAIN ctxs : ctxs'[i].raisedAt = ctxs[i].raisedAt
    BY <1>3, MergeEffect
  <2>2. Len(ctxs)' = Len(ctxs) /\ recent' = recent
    BY <1>1, <1>3, <2>1 DEF Merge
  <2> QED
    BY <2>1, <2>2 DEF RecentIsNewest, RaisedInOrder
<1>4. ASSUME NEW k \in Keys, NEW s \in Sources, Emit(k, s)
      PROVE  RecentIsNewest' /\ RaisedInOrder'
  <2> DEFINE n == Len(ctxs) + 1
  <2>1. /\ ctxs' \in Seq(Context) /\ DOMAIN ctxs' = 1 .. n /\ DOMAIN ctxs = 1 .. Len(ctxs)
        /\ \A i \in DOMAIN ctxs : ctxs'[i] = ctxs[i] /\ ctxs[i] \in Context
        /\ ctxs'[n].raisedAt = now
    BY <1>4, EmitEffect
  <2>2. Len(ctxs) \in Nat /\ Len(ctxs)' = n
    BY <1>1, <2>1
  <2>3. RecentIsNewest'
    <3>1. recent' = KeepFirst(<<n>> \o recent, RecentMax)
      BY <1>4 DEF Emit
    <3>2. Len(recent) <= RecentMax /\ Len(recent) \in Nat
      BY <1>1, <2>2 DEF RecentIsNewest
    <3>3. /\ Len(recent') = IF Len(recent) < RecentMax THEN Len(recent) + 1 ELSE RecentMax
          /\ \A i \in DOMAIN recent' : recent'[i] = IF i = 1 THEN n ELSE recent[i - 1]
      <4>1. n \in Nat
        BY <2>2
      <4> HIDE DEF n
      <4>2. LET pushed == KeepFirst(<<n>> \o recent, RecentMax)
            IN  /\ Len(pushed) = IF Len(recent) < RecentMax THEN Len(recent) + 1 ELSE RecentMax
                /\ \A i \in DOMAIN pushed : pushed[i] = IF i = 1 THEN n ELSE recent[i - 1]
        BY <1>1, <3>2, <4>1, PushFront
      <4> QED
        BY <3>1, <4>2
    <3>4. recent' \in Seq(Nat)
      <4>1. <<n>> \o recent \in Seq(Nat)
        BY <1>1, <2>2
      <4> QED
        BY <1>1, <3>1, <4>1, KeepFirstType
    <3>5. ASSUME NEW i \in DOMAIN recent'
          PROVE  recent'[i] = n + 1 - i
      <4>1. i \in 1 .. Len(recent')
        BY <3>4, <3>5
      <4>2. CASE i = 1
        BY <2>2, <3>3, <4>2
      <4>3. CASE i # 1
        <5>1. i - 1 \in DOMAIN recent
          BY <1>1, <3>2, <3>3, <4>1, <4>3
        <5>2. recent[i - 1] = Len(ctxs) + 1 - (i - 1)
          BY <5>1 DEF RecentIsNewest
        <5> QED
          BY <2>2, <3>3, <4>1, <4>3, <5>2
      <4> QED
        BY <4>2, <4>3
    <3>6. Len(recent') = IF n < RecentMax THEN n ELSE RecentMax
      <4>1. Len(recent) = IF Len(ctxs) < RecentMax THEN Len(ctxs) ELSE RecentMax
        BY DEF RecentIsNewest
      <4> QED
        BY <1>1, <2>2, <3>3, <4>1
    <3> QED
      BY <2>2, <3>5, <3>6 DEF RecentIsNewest
  <2>4. RaisedInOrder'
    <3>1. \A i \in DOMAIN ctxs : ctxs[i].raisedAt <= now /\ ctxs[i].raisedAt \in Nat
      <4>1. now \in Nat
        BY DEF IInv, TypeOK
      <4>2. \A i \in DOMAIN ctxs : /\ ctxs[i].raisedAt \in Nat /\ ctxs[i].emittedAt \in Nat
                                   /\ ctxs[i].raisedAt <= ctxs[i].emittedAt
                                   /\ ctxs[i].emittedAt <= now
        BY <2>1, ContextFields DEF IInv, StampsOrdered
      <4> QED
        BY <4>1, <4>2
    <3>2. now \in Nat
      BY DEF IInv, TypeOK
    <3>3. \A i \in DOMAIN ctxs' : i \in DOMAIN ctxs \/ i = n
      BY <2>1, <2>2
    <3>4. ASSUME NEW i \in DOMAIN ctxs', NEW j \in DOMAIN ctxs', i <= j
          PROVE  ctxs'[i].raisedAt <= ctxs'[j].raisedAt
      <4>1. CASE j \in DOMAIN ctxs
        <5>1. i \in DOMAIN ctxs
          BY <2>1, <2>2, <3>4, <4>1
        <5> QED
          BY <2>1, <3>4, <4>1, <5>1 DEF RaisedInOrder
      <4>2. CASE j = n
        BY <2>1, <3>1, <3>2, <3>3, <4>2
      <4> QED
        BY <3>3, <4>1, <4>2
    <3> QED
      BY <3>4 DEF RaisedInOrder
  <2> QED
    BY <2>3, <2>4
<1> QED
  BY <1>2, <1>3, <1>4 DEF Next, Tick, CreateAlert, Swallow, vars

\* GET /api/v1/alerts lists the newest alerts, in whatever order their detections
\* are merged and their tables pruned.
THEOREM NewestAlertsListed == Spec => [](RecentIsNewest /\ RaisedInOrder)
<1>1. Init => RecentIsNewest /\ RaisedInOrder
  BY AggregationAssumption DEF Init, RecentIsNewest, RaisedInOrder
<1>2. IInv /\ RecentIsNewest /\ RaisedInOrder /\ [Next]_vars
        => RecentIsNewest' /\ RaisedInOrder'
  BY RecentStep
<1> QED
  BY <1>1, <1>2, Inductive, PTL DEF Spec
\* Of the alerts raised after an open one, no two are of one key and none of its own:
\* they all fall into one window.
LEMMA NewerKeysDiffer ==
    ASSUME IInv, RaisedInOrder, NEW k \in Keys, IsSuppressed(k),
           NEW i \in DOMAIN ctxs, active[k] < i
    PROVE  /\ ctxs[i].key \in OtherKeysRaised(k)
           /\ \A j \in DOMAIN ctxs :
                (active[k] < j /\ ctxs[j].key = ctxs[i].key) => j = i
<1> DEFINE a == active[k]
<1>1. /\ a \in DOMAIN ctxs /\ ctxs[a].key = k /\ ctxs[a].raisedAt = lastSeen[k]
      /\ ctxs \in Seq(Context) /\ now \in Nat
  BY DEF IInv, TypeOK, SuppressedHasOpenAlert
<1>2. now - ctxs[a].raisedAt < Window
  BY <1>1 DEF IsSuppressed
<1>3. \A j \in DOMAIN ctxs : ctxs[j].key \in Keys /\ ctxs[j].raisedAt \in Nat
  BY <1>1, ContextFields
<1>4. \A j \in DOMAIN ctxs : a <= j =>
          ctxs[a].raisedAt <= ctxs[j].raisedAt /\ ctxs[j].raisedAt <= now
  <2>1. \A j \in DOMAIN ctxs : /\ ctxs[j].emittedAt \in Nat
                               /\ ctxs[j].raisedAt <= ctxs[j].emittedAt
                               /\ ctxs[j].emittedAt <= now
    BY <1>1, ContextFields DEF IInv, StampsOrdered
  <2>2. \A j \in DOMAIN ctxs : a <= j => ctxs[a].raisedAt <= ctxs[j].raisedAt
    BY <1>1 DEF RaisedInOrder
  <2> QED
    BY <1>1, <1>3, <2>1, <2>2
<1>5. \A m, j \in DOMAIN ctxs :
          (a <= m /\ m < j) => ctxs[m].key # ctxs[j].key
  <2> SUFFICES ASSUME NEW m \in DOMAIN ctxs, NEW j \in DOMAIN ctxs, a <= m, m < j,
                      ctxs[m].key = ctxs[j].key
               PROVE  FALSE
    OBVIOUS
  <2>1. ctxs[j].raisedAt - ctxs[m].raisedAt >= Window
    BY DEF IInv, AlertSpacing
  <2>2. a <= j
    BY <1>1
  <2>3. /\ ctxs[a].raisedAt <= ctxs[m].raisedAt /\ ctxs[j].raisedAt <= now
    BY <1>4, <2>2
  <2> QED
    BY <1>1, <1>2, <1>3, <2>1, <2>3, AggregationAssumption
<1>6. a <= i
  BY <1>1
<1>7. now - ctxs[i].raisedAt < Window
  BY <1>1, <1>2, <1>3, <1>4, <1>6, AggregationAssumption
<1>8. ctxs[i].key \in OtherKeysRaised(k)
  BY <1>1, <1>3, <1>5, <1>7 DEF OtherKeysRaised
<1>9. ASSUME NEW j \in DOMAIN ctxs, a < j, ctxs[j].key = ctxs[i].key
      PROVE  j = i
  <2>1. i \in Nat /\ j \in Nat /\ a \in Nat
    BY <1>1
  <2>2. ~(j < i) /\ ~(i < j)
    BY <1>5, <1>6, <1>9, <2>1
  <2> QED
    BY <2>1, <2>2
<1> QED
  BY <1>8, <1>9

\* Only so many alerts were ever raised, hence only so many keys.
LEMMA OtherKeysFinite ==
    ASSUME ctxs \in Seq(Context), NEW k \in Keys
    PROVE  IsFiniteSet(OtherKeysRaised(k))
<1> DEFINE keyOf == [i \in DOMAIN ctxs |-> ctxs[i].key]
           raised == {ctxs[i].key : i \in DOMAIN ctxs}
<1>1. keyOf \in Surjection(DOMAIN ctxs, raised)
  BY DEF Surjection
<1>2. IsFiniteSet(DOMAIN ctxs)
  <2>1. DOMAIN ctxs = 1 .. Len(ctxs) /\ Len(ctxs) \in Nat
    OBVIOUS
  <2> QED
    BY <2>1, FS_Interval
<1>3. IsFiniteSet(raised)
  BY <1>1, <1>2, FS_Surjection
<1>4. OtherKeysRaised(k) \subseteq raised
  BY DEF OtherKeysRaised
<1> QED
  BY <1>3, <1>4, FS_Subset

\* An open alert that is not listed has as many newer ones as the list has places.
LEMMA UnlistedIsOutnumbered ==
    ASSUME IInv, RecentIsNewest, RaisedInOrder, NEW k \in Keys,
           IsSuppressed(k), ~Contains(recent, active[k])
    PROVE  Cardinality(OtherKeysRaised(k)) >= RecentMax
<1> DEFINE a == active[k]
           T == OtherKeysRaised(k)
           f == [n \in 1 .. RecentMax |-> ctxs[a + n].key]
<1>1. /\ a \in DOMAIN ctxs /\ ctxs \in Seq(Context) /\ recent \in Seq(Nat)
      /\ RecentMax \in Nat \ {0}
  BY AggregationAssumption DEF IInv, TypeOK, SuppressedHasOpenAlert
<1>2. a + RecentMax <= Len(ctxs)
  <2>1. Len(ctxs) \in Nat /\ a \in 1 .. Len(ctxs)
    BY <1>1
  <2>2. ~(Len(ctxs) + 1 - a \in DOMAIN recent)
    <3>1. ASSUME Len(ctxs) + 1 - a \in DOMAIN recent
          PROVE  FALSE
      <4>1. recent[Len(ctxs) + 1 - a] = a
        BY <2>1, <3>1 DEF RecentIsNewest
      <4> QED
        BY <3>1, <4>1 DEF Contains
    <3> QED
      BY <3>1
  <2>3. /\ DOMAIN recent = 1 .. Len(recent)
        /\ Len(recent) = IF Len(ctxs) < RecentMax THEN Len(ctxs) ELSE RecentMax
    BY <1>1 DEF RecentIsNewest
  <2> QED
    BY <1>1, <2>1, <2>2, <2>3
<1>3. \A n \in 1 .. RecentMax : a + n \in DOMAIN ctxs /\ a < a + n
  BY <1>1, <1>2
<1>4. \A n \in 1 .. RecentMax : ctxs[a + n].key \in T
  BY <1>3, NewerKeysDiffer
<1>5. ASSUME NEW m \in 1 .. RecentMax, NEW n \in 1 .. RecentMax,
             ctxs[a + m].key = ctxs[a + n].key
      PROVE  m = n
  <2>1. a + m = a + n
    BY <1>3, <1>5, NewerKeysDiffer
  <2> QED
    BY <1>1, <2>1
<1> HIDE DEF a, T
<1>6. f \in Injection(1 .. RecentMax, T)
  BY <1>4, <1>5 DEF Injection, IsInjective
<1>7. IsFiniteSet(T)
  BY <1>1, OtherKeysFinite DEF T
<1>8. Cardinality(1 .. RecentMax) <= Cardinality(T)
  <2> HIDE DEF f
  <2> QED
    BY <1>6, <1>7, FS_Injection
<1>9. Cardinality(1 .. RecentMax) = RecentMax /\ Cardinality(T) \in Nat
  <2>1. Cardinality(1 .. RecentMax) = RecentMax
    BY <1>1, FS_Interval
  <2> QED
    BY <1>7, <2>1, FS_CardinalityType
<1> QED
  BY <1>1, <1>8, <1>9 DEF T

\* The list misses an alert that is still being merged into only while RecentMax
\* other keys raised alerts within one window.
THEOREM UnlistedUnderFlood == Spec => []UnlistedOnlyByFlood
<1>1. IInv /\ RecentIsNewest /\ RaisedInOrder => UnlistedOnlyByFlood
  BY UnlistedIsOutnumbered DEF UnlistedOnlyByFlood
<1> QED
  BY <1>1, Inductive, NewestAlertsListed, PTL
=============================================================================
