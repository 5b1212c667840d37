------------------------ MODULE DetectionPipeline_proofs ------------------------
(***************************************************************************)
(* Proofs about DetectionPipeline, for any records, flows and consumers,   *)
(* and about ThreatDecision, which is what a consumer concludes about one  *)
(* of them.  The two models share no state and no theorem relates them.    *)
(***************************************************************************)
EXTENDS DetectionPipeline, ThreatDecision, FiniteSetTheorems, WellFoundedInduction, TLAPS

-----------------------------------------------------------------------------
(* The inductive invariant *)

\* A record that a consumer has taken, whatever became of it since.
Taken(r) == ~Unseen(r) /\ ~Queued(r) /\ outcome[r] # "rejected"

\* An RST reply is skipped before a consumer gets to the rules.
RstNeverMatched ==
    \A c \in Consumers :
        stage[c] \in {"rules", "ml", "evidence"} => holds[c] \notin TcpRst \ Syn

\* A flow is in the table because one of its records was taken.
KnownHasRecord ==
    \A f \in known : \E q \in Records : FlowOf[q] = f /\ Taken(q)

StoppedIsCancelled == stopped => \A c \in Consumers : stage[c] = "cancelled"

Inv ==
    /\ TypeOK
    /\ NoneDoubled
    /\ RstNeverMatched
    /\ RstReplyNeverAlerts
    /\ KnownHasRecord
    /\ SkipHasCause
    /\ StoppedIsCancelled

-----------------------------------------------------------------------------
(* Queues *)

\* What Append does to the members of a queue without repeats.
LEMMA AppendMembers ==
    ASSUME NEW S, NEW q \in Seq(S), NEW e \in S,
           \A i \in DOMAIN q : q[i] # e,
           \A i, j \in DOMAIN q : q[i] = q[j] => i = j
    PROVE  /\ Append(q, e) \in Seq(S) /\ Len(Append(q, e)) = Len(q) + 1
           /\ \A x : (\E i \in DOMAIN Append(q, e) : Append(q, e)[i] = x)
                        <=> ((\E i \in DOMAIN q : q[i] = x) \/ x = e)
           /\ \A i, j \in DOMAIN Append(q, e) :
                Append(q, e)[i] = Append(q, e)[j] => i = j
<1>1. Append(q, e) \in Seq(S) /\ Len(Append(q, e)) = Len(q) + 1
  OBVIOUS
<1>2. DOMAIN q = 1..Len(q) /\ DOMAIN Append(q, e) = 1..(Len(q) + 1) /\ Len(q) \in Nat
  OBVIOUS
<1>3. /\ \A i \in 1..Len(q) : Append(q, e)[i] = q[i]
      /\ Append(q, e)[Len(q) + 1] = e
  OBVIOUS
<1>4. \A x : (\E i \in DOMAIN Append(q, e) : Append(q, e)[i] = x)
                <=> ((\E i \in DOMAIN q : q[i] = x) \/ x = e)
  BY <1>2, <1>3
<1>5. \A i, j \in DOMAIN Append(q, e) : Append(q, e)[i] = Append(q, e)[j] => i = j
  BY <1>2, <1>3
<1> QED BY <1>1, <1>4, <1>5

\* What Tail does to them.
LEMMA TailMembers ==
    ASSUME NEW S, NEW q \in Seq(S), q # <<>>,
           \A i, j \in DOMAIN q : q[i] = q[j] => i = j
    PROVE  /\ Tail(q) \in Seq(S) /\ Len(Tail(q)) = Len(q) - 1 /\ Head(q) \in S
           /\ \E i \in DOMAIN q : q[i] = Head(q)
           /\ \A x : (\E i \in DOMAIN Tail(q) : Tail(q)[i] = x)
                        <=> ((\E i \in DOMAIN q : q[i] = x) /\ x # Head(q))
           /\ \A i, j \in DOMAIN Tail(q) : Tail(q)[i] = Tail(q)[j] => i = j
<1>1. /\ Tail(q) \in Seq(S) /\ Len(Tail(q)) = Len(q) - 1 /\ Head(q) \in S
      /\ Len(q) \in Nat /\ Len(q) >= 1
  OBVIOUS
<1>2. /\ DOMAIN q = 1..Len(q) /\ DOMAIN Tail(q) = 1..(Len(q) - 1)
      /\ Head(q) = q[1]
      /\ \A i \in 1..(Len(q) - 1) : Tail(q)[i] = q[i + 1]
  BY <1>1
<1>3. \E i \in DOMAIN q : q[i] = Head(q)
  BY <1>1, <1>2
<1>4. ASSUME NEW x, NEW i \in DOMAIN Tail(q), Tail(q)[i] = x
      PROVE  (\E j \in DOMAIN q : q[j] = x) /\ x # Head(q)
  BY <1>1, <1>2, <1>4
<1>5. ASSUME NEW x, NEW i \in DOMAIN q, q[i] = x, x # Head(q)
      PROVE  \E j \in DOMAIN Tail(q) : Tail(q)[j] = x
  <2>1. i # 1 /\ i - 1 \in DOMAIN Tail(q)
    BY <1>1, <1>2, <1>5
  <2>2. Tail(q)[i - 1] = x
    BY <1>1, <1>2, <1>5, <2>1
  <2> QED BY <2>1, <2>2
<1>6. \A i, j \in DOMAIN Tail(q) : Tail(q)[i] = Tail(q)[j] => i = j
  BY <1>1, <1>2
<1> QED BY <1>1, <1>3, <1>4, <1>5, <1>6

-----------------------------------------------------------------------------
(* Steps that leave the queue alone *)

\* Consumers keep or give up their records, and a record given up is finished.
Release ==
    /\ queue' = queue
    /\ \A c \in Consumers : holds'[c] \in {holds[c], NoRecord}
    /\ \A r \in Records :
        \/ outcome'[r] = outcome[r] /\ (Held(r) => Held(r)')
        \/ Held(r) /\ ~Held(r)' /\ outcome'[r] \notin {"none", "rejected"}

LEMMA ReleaseKeepsPlaces ==
    ASSUME TypeOK, NoneDoubled, Release
    PROVE  NoneDoubled' /\ \A r \in Records : Taken(r) => Taken(r)'
<1>1. ASSUME NEW r \in Records, Held(r)'
      PROVE  Held(r) /\ outcome'[r] = outcome[r]
  BY <1>1, PipelineAssumption DEF Release, Held
<1>2. \A r \in Records : Queued(r)' <=> Queued(r)
  BY DEF Release, Queued
<1>3. ASSUME NEW r \in Records
      PROVE  /\ \A i, j \in DOMAIN queue' : (queue'[i] = r /\ queue'[j] = r) => i = j
             /\ \A c, d \in Consumers : (holds'[c] = r /\ holds'[d] = r) => c = d
             /\ Queued(r)' => ~Held(r)'
             /\ (Queued(r)' \/ Held(r)') => outcome'[r] = "none"
  <2>1. \A i, j \in DOMAIN queue' : (queue'[i] = r /\ queue'[j] = r) => i = j
    BY DEF NoneDoubled, Release
  <2>2. \A c, d \in Consumers : (holds'[c] = r /\ holds'[d] = r) => c = d
    BY PipelineAssumption DEF NoneDoubled, Release
  <2>3. Queued(r)' => ~Held(r)'
    BY <1>1, <1>2 DEF NoneDoubled
  <2>4. Held(r)' => outcome'[r] = "none"
    BY <1>1 DEF NoneDoubled
  <2>5. Queued(r)' => outcome'[r] = "none"
    BY <1>2 DEF NoneDoubled, Release
  <2> QED BY <2>1, <2>2, <2>3, <2>4, <2>5
<1>4. NoneDoubled'
  BY <1>3 DEF NoneDoubled, Queued, Held
<1>5. ASSUME NEW r \in Records, Taken(r)
      PROVE  Taken(r)'
  <2>1. ~Queued(r)'
    BY <1>2, <1>5 DEF Taken
  <2>2. outcome[r] # "none" \/ Held(r)
    BY <1>5 DEF Taken, Unseen
  <2>3. outcome'[r] # "rejected" /\ (outcome'[r] # "none" \/ Held(r)')
    BY <1>5, <2>2 DEF Release, Taken
  <2> QED BY <2>1, <2>3 DEF Taken, Unseen
<1> QED BY <1>4, <1>5

\* Finishing a record and suspending at an await are such steps.
LEMMA FinishReleases ==
    ASSUME TypeOK, NoneDoubled, NEW c \in Consumers, holds[c] \in Records,
           NEW how \in {"skipped", "failed", "done"}, Finish(c, how),
           UNCHANGED queue
    PROVE  /\ Release
           /\ holds' \in [Consumers -> Records \cup {NoRecord}]
           /\ stage' \in [Consumers -> Stages]
           /\ outcome' \in [Records -> Outcomes]
           /\ \A d \in Consumers :
                 (holds'[d] = NoRecord) <=> (stage'[d] \in {"get", "cancelled"})
           /\ \A d \in Consumers :
                 stage'[d] # "get" => stage'[d] = stage[d] /\ holds'[d] = holds[d]
           /\ \A r \in Records : outcome'[r] # outcome[r] => r = holds[c] /\ outcome'[r] = how
<1>1. /\ holds' \in [Consumers -> Records \cup {NoRecord}]
      /\ holds'[c] = NoRecord
      /\ \A d \in Consumers \ {c} : holds'[d] = holds[d]
  BY DEF TypeOK, Finish
<1>2. /\ stage' \in [Consumers -> Stages]
      /\ stage'[c] = "get"
      /\ \A d \in Consumers \ {c} : stage'[d] = stage[d]
  BY DEF TypeOK, Finish, Stages
<1>3. /\ outcome' \in [Records -> Outcomes]
      /\ outcome'[holds[c]] = how
      /\ \A r \in Records \ {holds[c]} : outcome'[r] = outcome[r]
  BY DEF TypeOK, Finish, Outcomes
<1>4. ASSUME NEW r \in Records, r = holds[c]
      PROVE  Held(r) /\ ~Held(r)'
  <2>1. Held(r) /\ \A d \in Consumers \ {c} : holds'[d] # r
    BY <1>1, <1>4 DEF Held, NoneDoubled
  <2> QED BY <1>1, <1>4, <2>1, PipelineAssumption DEF Held
<1>5. \A r \in Records \ {holds[c]} : Held(r) => Held(r)'
  BY <1>1 DEF Held
<1>6. Release
  <2>1. \A d \in Consumers : holds'[d] \in {holds[d], NoRecord}
    BY <1>1
  <2>2. \A r \in Records :
          \/ outcome'[r] = outcome[r] /\ (Held(r) => Held(r)')
          \/ Held(r) /\ ~Held(r)' /\ outcome'[r] \notin {"none", "rejected"}
    BY <1>3, <1>4, <1>5
  <2> QED BY <2>1, <2>2 DEF Release
<1>7. \A d \in Consumers : (holds'[d] = NoRecord) <=> (stage'[d] \in {"get", "cancelled"})
  BY <1>1, <1>2 DEF TypeOK
<1> QED BY <1>1, <1>2, <1>3, <1>6, <1>7

LEMMA AwaitReleases ==
    ASSUME TypeOK, NEW c \in Consumers, holds[c] \in Records,
           NEW s \in {"rules", "ml", "evidence"}, Await(c, s), UNCHANGED queue
    PROVE  /\ Release
           /\ stage' \in [Consumers -> Stages]
           /\ \A d \in Consumers :
                 (holds'[d] = NoRecord) <=> (stage'[d] \in {"get", "cancelled"})
           /\ \A d \in Consumers \ {c} : stage'[d] = stage[d]
           /\ stage'[c] = s
<1>1. /\ stage' \in [Consumers -> Stages]
      /\ \A d \in Consumers \ {c} : stage'[d] = stage[d]
      /\ stage'[c] = s
  BY DEF TypeOK, Await, Stages
<1>2. holds' = holds /\ outcome' = outcome
  BY DEF Await
<1>3. Release
  BY <1>2 DEF Release, Held
<1>4. \A d \in Consumers : (holds'[d] = NoRecord) <=> (stage'[d] \in {"get", "cancelled"})
  BY <1>1, <1>2, PipelineAssumption DEF TypeOK
<1> QED BY <1>1, <1>3, <1>4

-----------------------------------------------------------------------------
(* Each action preserves the invariant *)

\* Where the table and the outcomes change with a Release, the facts about
\* them follow from what was taken before.
LEMMA CausesKept ==
    ASSUME Inv, Release,
           \A f \in known' : f \in known \/ \E q \in Records : FlowOf[q] = f /\ Taken(q)',
           \A r \in Records : outcome'[r] = "skipped" /\ outcome[r] # "skipped" =>
               /\ r \notin Syn
               /\ r \in TcpRst \/ Reverse[FlowOf[r]] \in known'
    PROVE  KnownHasRecord' /\ SkipHasCause'
<1>1. \A r \in Records : Taken(r) => Taken(r)'
  BY ReleaseKeepsPlaces DEF Inv
<1>2. KnownHasRecord'
  BY <1>1 DEF Inv, KnownHasRecord
<1>3. ASSUME NEW r \in Records, outcome'[r] = "skipped", outcome[r] # "skipped", r \notin TcpRst
      PROVE  \E q \in Records : FlowOf[q] = Reverse[FlowOf[r]] /\ Taken(q)'
  BY <1>2, <1>3 DEF KnownHasRecord
<1>4. ASSUME NEW r \in Records, outcome[r] = "skipped", r \notin TcpRst
      PROVE  \E q \in Records : FlowOf[q] = Reverse[FlowOf[r]] /\ Taken(q)'
  BY <1>1, <1>4 DEF Inv, SkipHasCause, Taken
<1>5. \A r \in Records : outcome'[r] = "skipped" =>
          /\ r \notin Syn
          /\ r \in TcpRst \/ \E q \in Records : FlowOf[q] = Reverse[FlowOf[r]] /\ Taken(q)'
  BY <1>3, <1>4 DEF Inv, SkipHasCause
<1>6. SkipHasCause'
  BY <1>5 DEF SkipHasCause, Taken
<1> QED BY <1>2, <1>6

\* A consumer at work holds a record.
LEMMA AtWork ==
    ASSUME Inv, NEW c \in Consumers, stage[c] \notin {"get", "cancelled"}
    PROVE  /\ holds[c] \in Records /\ ~stopped
           /\ \A r \in Records : r = holds[c] => Taken(r)
<1>1. holds[c] \in Records /\ ~stopped
  BY DEF Inv, TypeOK, StoppedIsCancelled
<1>2. \A r \in Records : r = holds[c] => Taken(r)
  BY DEF Inv, NoneDoubled, Taken, Unseen, Held
<1> QED BY <1>1, <1>2

LEMMA SubmitStep ==
    ASSUME Inv, NEW r \in Records, Submit(r)
    PROVE  Inv'
<1>1. /\ outcome[r] = "none" /\ ~Held(r) /\ ~Queued(r)
      /\ UNCHANGED <<stage, holds, known, raised, stopped>>
      /\ queue \in Seq(Records) /\ Len(queue) \in Nat
  BY DEF Submit, Unseen, Inv, TypeOK
<1>2. \A i, j \in DOMAIN queue : queue[i] = queue[j] => i = j
  BY PipelineAssumption DEF Inv, TypeOK, NoneDoubled
<1>3. /\ queue' \in Seq(Records) /\ Len(queue') <= QueueMax
      /\ outcome' \in [Records -> Outcomes]
      /\ \A q \in Records \ {r} : outcome'[q] = outcome[q] /\ (Queued(q)' <=> Queued(q))
      /\ \A i, j \in DOMAIN queue' : queue'[i] = queue'[j] => i = j
      /\ Queued(r)' => outcome'[r] = "none"
      /\ outcome'[r] \in {"none", "rejected"}
      /\ Queued(r)' \/ outcome'[r] = "rejected"
      /\ accepted' \in {accepted, accepted \cup {r}}
  <2>1. CASE Len(queue) >= QueueMax /\ UNCHANGED <<queue, accepted>>
                /\ outcome' = [outcome EXCEPT ![r] = "rejected"]
    BY <1>1, <1>2, <2>1 DEF Inv, TypeOK, Outcomes, Queued
  <2>2. CASE Len(queue) < QueueMax /\ queue' = Append(queue, r) /\ UNCHANGED outcome
                /\ accepted' = accepted \cup {r}
    <3>1. \A i \in DOMAIN queue : queue[i] # r
      BY <1>1 DEF Queued
    <3>2. /\ queue' \in Seq(Records) /\ Len(queue') = Len(queue) + 1
          /\ \A x : Queued(x)' <=> (Queued(x) \/ x = r)
          /\ \A i, j \in DOMAIN queue' : queue'[i] = queue'[j] => i = j
      BY <1>1, <1>2, <2>2, <3>1, AppendMembers DEF Queued
    <3>3. Len(queue') <= QueueMax
      BY <1>1, <2>2, <3>2, PipelineAssumption
    <3> QED BY <1>1, <2>2, <3>2, <3>3 DEF Inv, TypeOK
  <2> QED BY <2>1, <2>2 DEF Submit
<1>4. \A q \in Records : Held(q)' <=> Held(q)
  BY <1>1 DEF Held
<1>5. TypeOK'
  BY <1>1, <1>3 DEF Inv, TypeOK
<1>6. NoneDoubled'
  <2>1. \A q \in Records : (Queued(q)' => ~Held(q)')
                          /\ (Queued(q)' \/ Held(q)' => outcome'[q] = "none")
    BY <1>1, <1>3, <1>4 DEF Inv, NoneDoubled
  <2>2. \A q \in Records, c, d \in Consumers : (holds'[c] = q /\ holds'[d] = q) => c = d
    BY <1>1 DEF Inv, NoneDoubled
  <2> QED BY <1>3, <2>1, <2>2 DEF NoneDoubled, Queued, Held
<1>7. \A q \in Records : Taken(q) => Taken(q)'
  BY <1>1, <1>3, <1>4 DEF Taken, Unseen
<1>8. KnownHasRecord'
  BY <1>1, <1>7 DEF Inv, KnownHasRecord
<1>9. SkipHasCause'
  <2>1. \A q \in Records : outcome'[q] = "skipped" => outcome[q] = "skipped"
    BY <1>3
  <2>2. \A q \in Records : outcome'[q] = "skipped" =>
          /\ q \notin Syn
          /\ q \in TcpRst \/ \E p \in Records : FlowOf[p] = Reverse[FlowOf[q]] /\ Taken(p)'
    BY <1>7, <2>1 DEF Inv, SkipHasCause, Taken
  <2> QED BY <2>2 DEF SkipHasCause, Taken
<1> QED
  BY <1>1, <1>5, <1>6, <1>8, <1>9
  DEF Inv, RstNeverMatched, RstReplyNeverAlerts, StoppedIsCancelled

LEMMA TakeStep ==
    ASSUME Inv, NEW c \in Consumers, Take(c)
    PROVE  Inv'
<1>1. /\ stage[c] = "get" /\ queue # <<>> /\ queue \in Seq(Records)
      /\ queue' = Tail(queue)
      /\ UNCHANGED <<known, outcome, raised, stopped, accepted>>
  BY DEF Take, Inv, TypeOK
<1>2. \A i, j \in DOMAIN queue : queue[i] = queue[j] => i = j
  BY DEF Inv, TypeOK, NoneDoubled
<1> DEFINE h == Head(queue)
<1>3. /\ queue' \in Seq(Records) /\ Len(queue') = Len(queue) - 1 /\ h \in Records
      /\ Queued(h)
      /\ \A x : Queued(x)' <=> (Queued(x) /\ x # h)
      /\ \A i, j \in DOMAIN queue' : queue'[i] = queue'[j] => i = j
  <2>1. /\ queue' \in Seq(Records) /\ Len(queue') = Len(queue) - 1 /\ h \in Records
        /\ \E i \in DOMAIN queue : queue[i] = h
        /\ \A x : (\E i \in DOMAIN queue' : queue'[i] = x)
                     <=> ((\E i \in DOMAIN queue : queue[i] = x) /\ x # h)
        /\ \A i, j \in DOMAIN queue' : queue'[i] = queue'[j] => i = j
    <3> DEFINE q == queue
    <3>1. /\ Tail(q) \in Seq(Records) /\ Len(Tail(q)) = Len(q) - 1 /\ Head(q) \in Records
          /\ \E i \in DOMAIN q : q[i] = Head(q)
          /\ \A x : (\E i \in DOMAIN Tail(q) : Tail(q)[i] = x)
                       <=> ((\E i \in DOMAIN q : q[i] = x) /\ x # Head(q))
          /\ \A i, j \in DOMAIN Tail(q) : Tail(q)[i] = Tail(q)[j] => i = j
      <4> HIDE DEF q
      <4>1. q \in Seq(Records) /\ q # <<>> /\ \A i, j \in DOMAIN q : q[i] = q[j] => i = j
        BY <1>1, <1>2 DEF q
      <4>2. QED
        BY <4>1, TailMembers
    <3>2. QED
      BY <1>1, <3>1, Zenon
  <2>2. QED
    BY <2>1 DEF Queued
<1>4. /\ holds' \in [Consumers -> Records \cup {NoRecord}]
      /\ holds'[c] = h
      /\ \A d \in Consumers \ {c} : holds'[d] = holds[d]
  BY <1>3 DEF Inv, TypeOK, Take
<1>5. /\ stage' \in [Consumers -> Stages]
      /\ stage'[c] = "pcap"
      /\ \A d \in Consumers \ {c} : stage'[d] = stage[d]
  BY DEF Inv, TypeOK, Take, Stages
<1>6. \A d \in Consumers : holds[d] # h
  BY <1>3 DEF Inv, NoneDoubled, Held
<1>7. holds[c] = NoRecord
  BY <1>1 DEF Inv, TypeOK
<1>8. \A x \in Records : Held(x)' <=> (Held(x) \/ x = h)
  BY <1>4, <1>7, PipelineAssumption DEF Held
<1>9. TypeOK'
  <2>1. Len(queue') <= QueueMax
    BY <1>1, <1>3, PipelineAssumption DEF Inv, TypeOK
  <2>2. \A d \in Consumers : (holds'[d] = NoRecord) <=> (stage'[d] \in {"get", "cancelled"})
    BY <1>3, <1>4, <1>5, PipelineAssumption DEF Inv, TypeOK
  <2> QED BY <1>1, <1>3, <1>4, <1>5, <2>1, <2>2 DEF Inv, TypeOK
<1>10. NoneDoubled'
  <2>1. \A q \in Records : (Queued(q)' => ~Held(q)')
                          /\ (Queued(q)' \/ Held(q)' => outcome'[q] = "none")
    BY <1>1, <1>3, <1>8 DEF Inv, NoneDoubled
  <2>2. \A q \in Records, d, e \in Consumers : (holds'[d] = q /\ holds'[e] = q) => d = e
    BY <1>4, <1>6 DEF Inv, NoneDoubled
  <2> QED BY <1>3, <2>1, <2>2 DEF NoneDoubled, Queued, Held
<1>11. \A q \in Records : Taken(q) => Taken(q)'
  BY <1>1, <1>3, <1>8 DEF Taken, Unseen
<1>12. KnownHasRecord'
  BY <1>1, <1>11 DEF Inv, KnownHasRecord
<1>13. SkipHasCause'
  <2>1. \A q \in Records : outcome'[q] = "skipped" =>
          /\ q \notin Syn
          /\ q \in TcpRst \/ \E p \in Records : FlowOf[p] = Reverse[FlowOf[q]] /\ Taken(p)'
    BY <1>1, <1>11 DEF Inv, SkipHasCause, Taken
  <2> QED BY <2>1 DEF SkipHasCause, Taken
<1>14. RstNeverMatched' /\ RstReplyNeverAlerts' /\ StoppedIsCancelled'
  BY <1>1, <1>4, <1>5 DEF Inv, RstNeverMatched, RstReplyNeverAlerts, StoppedIsCancelled
<1> QED BY <1>9, <1>10, <1>12, <1>13, <1>14 DEF Inv

\* What a step may do to the flow table.
LEMMA TableSees ==
    ASSUME NEW f, Table!See(f)
    PROVE  known' \subseteq known \cup {f}
<1>1. \A gone \in Table!Forgettable : gone \subseteq known
  BY DEF Table!Forgettable
<1> QED BY <1>1 DEF Table!See

LEMMA TableExpires ==
    ASSUME Table!Expire
    PROVE  known' \subseteq known
BY DEF Table!Expire

LEMMA EnterStep ==
    ASSUME Inv, NEW c \in Consumers, Enter(c)
    PROVE  Inv'
<1>1. /\ stage[c] = "pcap"
      /\ known' \subseteq known \cup {FlowOf[holds[c]]}
      /\ UNCHANGED <<queue, raised, stopped, accepted>>
  BY TableSees DEF Enter
<1>2. PICK r \in Records : r = holds[c] /\ Taken(r) /\ ~stopped
  BY <1>1, AtWork
<1>3. known' \in SUBSET Flows
  BY <1>1, <1>2, PipelineAssumption DEF Inv, TypeOK
<1>4. CASE IsResponse(r, known') /\ Finish(c, "skipped")
  <2>1. /\ Release
        /\ holds' \in [Consumers -> Records \cup {NoRecord}]
        /\ stage' \in [Consumers -> Stages]
        /\ outcome' \in [Records -> Outcomes]
        /\ \A d \in Consumers :
              (holds'[d] = NoRecord) <=> (stage'[d] \in {"get", "cancelled"})
        /\ \A d \in Consumers :
              stage'[d] # "get" => stage'[d] = stage[d] /\ holds'[d] = holds[d]
        /\ \A q \in Records : outcome'[q] # outcome[q] => q = holds[c] /\ outcome'[q] = "skipped"
    BY <1>1, <1>2, <1>4, FinishReleases DEF Inv
  <2>2. TypeOK'
    BY <1>1, <1>3, <2>1 DEF Inv, TypeOK
  <2>3. NoneDoubled' /\ Taken(r)'
    BY <1>2, <2>1, ReleaseKeepsPlaces DEF Inv
  <2>4. \A q \in Records : outcome'[q] = "skipped" /\ outcome[q] # "skipped" =>
            /\ q \notin Syn
            /\ q \in TcpRst \/ Reverse[FlowOf[q]] \in known'
    BY <1>2, <1>4, <2>1 DEF IsResponse
  <2>5. KnownHasRecord' /\ SkipHasCause'
    BY <1>1, <1>2, <2>1, <2>3, <2>4, CausesKept
  <2>6. RstNeverMatched' /\ RstReplyNeverAlerts' /\ StoppedIsCancelled'
    BY <1>1, <1>2, <2>1 DEF Inv, RstNeverMatched, RstReplyNeverAlerts, StoppedIsCancelled
  <2> QED BY <2>2, <2>3, <2>5, <2>6 DEF Inv
<1>5. CASE ~IsResponse(r, known') /\ Await(c, "rules")
  <2>1. /\ Release
        /\ stage' \in [Consumers -> Stages]
        /\ \A d \in Consumers :
              (holds'[d] = NoRecord) <=> (stage'[d] \in {"get", "cancelled"})
        /\ \A d \in Consumers \ {c} : stage'[d] = stage[d]
        /\ holds' = holds /\ outcome' = outcome
    BY <1>1, <1>2, <1>5, AwaitReleases DEF Inv, Await
  <2>2. TypeOK'
    BY <1>1, <1>3, <2>1 DEF Inv, TypeOK
  <2>3. NoneDoubled' /\ Taken(r)'
    BY <1>2, <2>1, ReleaseKeepsPlaces DEF Inv
  <2>4. KnownHasRecord' /\ SkipHasCause'
    BY <1>1, <1>2, <2>1, <2>3, CausesKept
  <2>5. holds'[c] \notin TcpRst \ Syn
    BY <1>2, <1>5, <2>1 DEF IsResponse
  <2>6. RstNeverMatched' /\ RstReplyNeverAlerts' /\ StoppedIsCancelled'
    BY <1>1, <1>2, <2>1, <2>5 DEF Inv, RstNeverMatched, RstReplyNeverAlerts, StoppedIsCancelled
  <2> QED BY <2>2, <2>3, <2>4, <2>6 DEF Inv
<1> QED BY <1>2, <1>4, <1>5 DEF Enter

\* Every other step of a consumer finishes its record or goes on to the next
\* await, with the queue and the shutdown flag untouched.
LEMMA FinishStep ==
    ASSUME Inv, NEW c \in Consumers, stage[c] \notin {"get", "cancelled"},
           NEW how \in {"failed", "done"}, Finish(c, how),
           UNCHANGED <<queue, stopped, accepted>>,
           known' \subseteq known \cup {FlowOf[holds[c]]},
           raised' \in {raised, raised \cup {holds[c]}},
           raised' = raised \/ stage[c] \in {"rules", "ml", "evidence"}
    PROVE  Inv'
<1>1. PICK r \in Records : r = holds[c] /\ Taken(r) /\ ~stopped
  BY AtWork
<1>2. known' \in SUBSET Flows /\ raised' \in SUBSET Records
  BY <1>1, PipelineAssumption DEF Inv, TypeOK
<1>3. /\ Release
      /\ holds' \in [Consumers -> Records \cup {NoRecord}]
      /\ stage' \in [Consumers -> Stages]
      /\ outcome' \in [Records -> Outcomes]
      /\ \A d \in Consumers :
            (holds'[d] = NoRecord) <=> (stage'[d] \in {"get", "cancelled"})
      /\ \A d \in Consumers :
            stage'[d] # "get" => stage'[d] = stage[d] /\ holds'[d] = holds[d]
      /\ \A q \in Records : outcome'[q] # outcome[q] => q = holds[c] /\ outcome'[q] = how
  BY <1>1, FinishReleases DEF Inv
<1>4. TypeOK'
  BY <1>2, <1>3 DEF Inv, TypeOK
<1>5. NoneDoubled' /\ Taken(r)'
  BY <1>1, <1>3, ReleaseKeepsPlaces DEF Inv
<1>6. KnownHasRecord' /\ SkipHasCause'
  BY <1>1, <1>3, <1>5, CausesKept
<1>7. RstNeverMatched' /\ StoppedIsCancelled'
  BY <1>1, <1>3 DEF Inv, RstNeverMatched, StoppedIsCancelled
<1>8. RstReplyNeverAlerts'
  BY <1>1 DEF Inv, RstNeverMatched, RstReplyNeverAlerts
<1> QED BY <1>4, <1>5, <1>6, <1>7, <1>8 DEF Inv

LEMMA AwaitStep ==
    ASSUME Inv, NEW c \in Consumers, stage[c] \in {"rules", "ml"},
           NEW s \in {"ml", "evidence"}, Await(c, s),
           UNCHANGED <<queue, known, stopped, accepted>>,
           raised' \in {raised, raised \cup {holds[c]}}
    PROVE  Inv'
<1>1. PICK r \in Records : r = holds[c] /\ Taken(r) /\ ~stopped
  BY AtWork
<1>2. /\ Release
      /\ stage' \in [Consumers -> Stages]
      /\ \A d \in Consumers :
            (holds'[d] = NoRecord) <=> (stage'[d] \in {"get", "cancelled"})
      /\ \A d \in Consumers \ {c} : stage'[d] = stage[d]
      /\ holds' = holds /\ outcome' = outcome
  BY <1>1, AwaitReleases DEF Inv, Await
<1>3. TypeOK'
  BY <1>1, <1>2 DEF Inv, TypeOK
<1>4. NoneDoubled' /\ Taken(r)'
  BY <1>1, <1>2, ReleaseKeepsPlaces DEF Inv
<1>5. KnownHasRecord' /\ SkipHasCause'
  BY <1>2, CausesKept
<1>6. RstNeverMatched' /\ StoppedIsCancelled'
  BY <1>1, <1>2 DEF Inv, RstNeverMatched, StoppedIsCancelled
<1>7. RstReplyNeverAlerts'
  BY <1>1 DEF Inv, RstNeverMatched, RstReplyNeverAlerts
<1> QED BY <1>3, <1>4, <1>5, <1>6, <1>7 DEF Inv

LEMMA WorkStep ==
    ASSUME Inv, NEW c \in Consumers, Work(c)
    PROVE  Inv'
<1>1. CASE Enter(c)
  BY <1>1, EnterStep
<1>2. ASSUME stage[c] \in {"rules", "ml"}, Decide(c),
             UNCHANGED <<queue, known, stopped, accepted>>
      PROVE  Inv'
  <2>1. CASE Finish(c, "done") /\ raised' \in {raised, raised \cup {holds[c]}}
    BY <1>2, <2>1, FinishStep
  <2>2. CASE Await(c, "evidence") /\ raised' = raised \cup {holds[c]}
    BY <1>2, <2>2, AwaitStep
  <2> QED BY <1>2, <2>1, <2>2 DEF Decide
<1>3. CASE Match(c)
  <2>1. CASE Decide(c)
    BY <1>2, <1>3, <2>1 DEF Match
  <2>2. CASE Await(c, "ml") /\ UNCHANGED raised
    BY <1>3, <2>2, AwaitStep DEF Match
  <2> QED BY <1>3, <2>1, <2>2 DEF Match
<1>4. CASE Infer(c)
  BY <1>2, <1>4 DEF Infer
<1>5. CASE Preserve(c)
  BY <1>5, FinishStep DEF Preserve
<1>6. CASE Fail(c)
  BY <1>6, FinishStep, TableSees DEF Fail
<1> QED BY <1>1, <1>3, <1>4, <1>5, <1>6 DEF Work

LEMMA StopStep ==
    ASSUME Inv, Stop
    PROVE  Inv'
<1>1. /\ \A c \in Consumers : holds'[c] = NoRecord /\ stage'[c] = "cancelled"
      /\ \A r \in Records : outcome'[r] = IF Held(r) THEN "cancelled" ELSE outcome[r]
      /\ UNCHANGED <<queue, known, raised, accepted>>
  BY DEF Stop
<1>2. \A r \in Records : ~Held(r)'
  BY <1>1, PipelineAssumption DEF Held
<1>3. Release
  BY <1>1, <1>2 DEF Release
<1>4. NoneDoubled'
  BY <1>3, ReleaseKeepsPlaces DEF Inv
<1>5. KnownHasRecord' /\ SkipHasCause'
  BY <1>1, <1>3, CausesKept
<1>6. TypeOK'
  BY <1>1, PipelineAssumption DEF Stop, Inv, TypeOK, Stages, Outcomes
<1>7. RstNeverMatched' /\ RstReplyNeverAlerts' /\ StoppedIsCancelled'
  BY <1>1 DEF Inv, RstNeverMatched, RstReplyNeverAlerts, StoppedIsCancelled
<1> QED BY <1>4, <1>5, <1>6, <1>7 DEF Inv

LEMMA ForgetStep ==
    ASSUME Inv, Forget
    PROVE  Inv'
<1>1. known' \subseteq known /\ UNCHANGED <<queue, stage, holds, outcome, raised, stopped, accepted>>
  BY TableExpires DEF Forget
<1>2. Release
  BY <1>1 DEF Release, Held
<1>3. NoneDoubled'
  BY <1>2, ReleaseKeepsPlaces DEF Inv
<1>4. KnownHasRecord' /\ SkipHasCause'
  BY <1>1, <1>2, CausesKept
<1>5. TypeOK'
  BY <1>1 DEF Inv, TypeOK
<1>6. RstNeverMatched' /\ RstReplyNeverAlerts' /\ StoppedIsCancelled'
  BY <1>1 DEF Inv, RstNeverMatched, RstReplyNeverAlerts, StoppedIsCancelled
<1> QED BY <1>3, <1>4, <1>5, <1>6 DEF Inv

-----------------------------------------------------------------------------
(* The theorems *)

\* The invariant holds in every reachable state.
THEOREM PipelineInvariant == Spec => []Inv
<1>1. Init => Inv
  <2> SUFFICES ASSUME Init
               PROVE  Inv
    OBVIOUS
  <2>1. TypeOK
    <3>1. queue \in Seq(Records) /\ Len(queue) <= QueueMax
      BY PipelineAssumption DEF Init
    <3>2. /\ stage \in [Consumers -> Stages]
          /\ holds \in [Consumers -> Records \cup {NoRecord}]
          /\ outcome \in [Records -> Outcomes]
      BY DEF Init, Stages, Outcomes
    <3>3. \A c \in Consumers : (holds[c] = NoRecord) <=> (stage[c] \in {"get", "cancelled"})
      BY DEF Init
    <3> QED BY <3>1, <3>2, <3>3 DEF Init, Table!MemoryInit, TypeOK
  <2>2. \A r \in Records : ~Queued(r) /\ ~Held(r) /\ outcome[r] = "none"
    BY PipelineAssumption DEF Init, Queued, Held
  <2>3. NoneDoubled
    BY <2>2 DEF Init, NoneDoubled, Queued, Held
  <2>4. RstNeverMatched /\ RstReplyNeverAlerts /\ KnownHasRecord /\ StoppedIsCancelled
    BY DEF Init, Table!MemoryInit, RstNeverMatched, RstReplyNeverAlerts, KnownHasRecord, StoppedIsCancelled
  <2>5. SkipHasCause
    BY <2>2 DEF SkipHasCause
  <2> QED BY <2>1, <2>3, <2>4, <2>5 DEF Inv
<1>2. Inv /\ [Next]_vars => Inv'
  <2> SUFFICES ASSUME Inv, [Next]_vars
               PROVE  Inv'
    OBVIOUS
  <2>1. ASSUME NEW r \in Records, Submit(r) PROVE Inv'
    BY <2>1, SubmitStep
  <2>2. ASSUME NEW c \in Consumers, Take(c) PROVE Inv'
    BY <2>2, TakeStep
  <2>3. ASSUME NEW c \in Consumers, Work(c) PROVE Inv'
    BY <2>3, WorkStep
  <2>4. CASE Forget
    BY <2>4, ForgetStep
  <2>5. CASE Stop
    BY <2>5, StopStep
  <2>6. CASE UNCHANGED vars
    BY <2>6 DEF vars, Inv, TypeOK, NoneDoubled, RstNeverMatched, RstReplyNeverAlerts,
                KnownHasRecord, SkipHasCause, StoppedIsCancelled, Taken, Unseen, Queued, Held
  <2> QED BY <2>1, <2>2, <2>3, <2>4, <2>5, <2>6 DEF Next
<1> QED BY <1>1, <1>2, PTL DEF Spec

\* The queue stays within its bound, and a consumer holds a record exactly while it
\* is at one of the stages of process.
THEOREM PipelineTyped == Spec => []TypeOK
BY PipelineInvariant, PTL DEF Inv

\* The sensor's RST answer to a probe never raises an alert.
THEOREM RstRepliesNeverAlert == Spec => []RstReplyNeverAlerts
BY PipelineInvariant, PTL DEF Inv

\* Only RST replies and answers to a flow already taken are skipped.
THEOREM SkipsHaveCause == Spec => []SkipHasCause
BY PipelineInvariant, PTL DEF Inv

\* Cancelled consumers decide nothing more.
THEOREM QuietOnceStopped == Spec => QuietAfterStop
<1>1. Inv /\ [Next]_vars => [stopped => known' \subseteq known /\ raised' = raised]_vars
  <2> SUFFICES ASSUME Inv, Next, stopped
               PROVE  known' \subseteq known /\ raised' = raised
    OBVIOUS
  <2>1. \A c \in Consumers : stage[c] = "cancelled"
    BY DEF Inv, StoppedIsCancelled
  <2>2. \A c \in Consumers : ~Take(c) /\ ~Work(c)
    BY <2>1 DEF Take, Work, Enter, Match, Infer, Preserve, Fail
  <2> QED BY <2>2, TableExpires DEF Next, Submit, Forget, Stop
<1> QED BY <1>1, PipelineInvariant, PTL DEF Spec, QuietAfterStop

\* The pipeline touches the flow table only as module FlowMemory allows: it sees the
\* flow of the record in hand, or lets the sweep expire flows.
THEOREM TableIsMemory == Spec => Table!MemorySpec
<1>1. Init => Table!MemoryInit
  BY DEF Init
<1>2. Inv /\ [Next]_vars => [Table!MemoryNext]_known
  <2> SUFFICES ASSUME Inv, Next
               PROVE  Table!MemoryNext \/ UNCHANGED known
    BY DEF vars
  <2>1. ASSUME NEW c \in Consumers, stage[c] = "pcap", Table!See(FlowOf[holds[c]])
        PROVE  Table!MemoryNext
    <3>1. FlowOf[holds[c]] \in Flows
      BY <2>1, AtWork, PipelineAssumption
    <3> QED BY <2>1, <3>1 DEF Table!MemoryNext
  <2>2. ASSUME NEW c \in Consumers, Work(c)
        PROVE  Table!MemoryNext \/ UNCHANGED known
    BY <2>1, <2>2 DEF Work, Enter, Match, Infer, Preserve, Fail
  <2>3. CASE Forget
    BY <2>3 DEF Forget, Table!MemoryNext
  <2> QED BY <2>2, <2>3 DEF Next, Submit, Take, Stop
<1> QED BY <1>1, <1>2, PipelineInvariant, PTL DEF Spec, Table!MemorySpec

-----------------------------------------------------------------------------
(* What becomes of an accepted record.  A step either releases records, or *)
(* moves one into the queue or out of it.                                  *)

LEMMA ReleaseKeepsAccepted ==
    ASSUME Release
    PROVE  Accepted' = Accepted /\ Len(queue)' = Len(queue)
<1>1. \A r \in Records : Held(r)' => Held(r)
  BY PipelineAssumption DEF Release, Held
<1>2. \A r \in Records : Queued(r)' <=> Queued(r)
  BY DEF Release, Queued
<1>3. ASSUME NEW r \in Records
      PROVE  (Queued(r)' \/ Held(r)' \/ outcome'[r] \notin {"none", "rejected"})
                <=> (Queued(r) \/ Held(r) \/ outcome[r] \notin {"none", "rejected"})
  BY <1>1, <1>2 DEF Release
<1>4. Accepted' = Accepted
  BY <1>3 DEF Accepted
<1> QED
  BY <1>4 DEF Release

LEMMA WorkReleases ==
    ASSUME Inv, NEW c \in Consumers, Work(c)
    PROVE  Release
<1>1. stage[c] \notin {"get", "cancelled"} /\ UNCHANGED queue
  BY DEF Work, Enter, Match, Infer, Preserve, Fail
<1>2. holds[c] \in Records
  BY <1>1, AtWork
<1>3. ASSUME NEW how \in {"skipped", "failed", "done"}, Finish(c, how)
      PROVE  Release
  BY <1>1, <1>2, <1>3, FinishReleases DEF Inv
<1>4. ASSUME NEW s \in {"rules", "ml", "evidence"}, Await(c, s)
      PROVE  Release
  BY <1>1, <1>2, <1>4, AwaitReleases DEF Inv
<1>5. \/ \E how \in {"skipped", "failed", "done"} : Finish(c, how)
      \/ \E s \in {"rules", "ml", "evidence"} : Await(c, s)
  BY DEF Work, Enter, Match, Infer, Preserve, Fail, Decide
<1> QED
  BY <1>3, <1>4, <1>5

LEMMA RecordQueued ==
    ASSUME Inv, NEW r \in Records, Submit(r), Len(queue) < QueueMax
    PROVE  Len(queue)' = Len(queue) + 1 /\ Accepted' = Accepted \cup {r}
<1>1. /\ queue' = Append(queue, r) /\ queue \in Seq(Records)
      /\ UNCHANGED <<outcome, holds>>
  BY PipelineAssumption DEF Submit, Inv, TypeOK
<1>2. (\A i \in DOMAIN queue : queue[i] # r)
      /\ \A i, j \in DOMAIN queue : queue[i] = queue[j] => i = j
  BY <1>1 DEF Submit, Unseen, Queued, Inv, NoneDoubled
<1>3. /\ Len(queue') = Len(queue) + 1
      /\ \A x : Queued(x)' <=> (Queued(x) \/ x = r)
  BY <1>1, <1>2, AppendMembers DEF Queued
<1>4. \A x \in Records : Held(x)' <=> Held(x)
  BY <1>1 DEF Held
<1> QED
  BY <1>1, <1>3, <1>4 DEF Accepted

LEMMA RecordRejected ==
    ASSUME Inv, NEW r \in Records, Submit(r), ~(Len(queue) < QueueMax)
    PROVE  Len(queue)' = Len(queue) /\ Accepted' = Accepted
<1>1. /\ UNCHANGED <<queue, holds>>
      /\ outcome' = [outcome EXCEPT ![r] = "rejected"] /\ outcome \in [Records -> Outcomes]
      /\ outcome[r] = "none"
  BY DEF Submit, Unseen, Inv, TypeOK
<1>2. \A x \in Records : (Held(x)' <=> Held(x)) /\ (Queued(x)' <=> Queued(x))
  BY <1>1 DEF Held, Queued
<1>3. \A x \in Records : outcome'[x] \in {"none", "rejected"} <=> outcome[x] \in {"none", "rejected"}
  BY <1>1
<1> QED
  BY <1>1, <1>2, <1>3 DEF Accepted

LEMMA RecordTaken ==
    ASSUME Inv, NEW c \in Consumers, Take(c)
    PROVE  Len(queue) > 0 /\ Len(queue)' = Len(queue) - 1 /\ Accepted' = Accepted
<1> DEFINE h == Head(queue)
<1>1. /\ stage[c] = "get" /\ queue # <<>> /\ queue \in Seq(Records)
      /\ queue' = Tail(queue) /\ UNCHANGED outcome
      /\ holds' = [holds EXCEPT ![c] = h] /\ holds \in [Consumers -> Records \cup {NoRecord}]
  BY DEF Take, Inv, TypeOK
<1>2. \A i, j \in DOMAIN queue : queue[i] = queue[j] => i = j
  BY DEF Inv, TypeOK, NoneDoubled
<1>3. /\ Len(queue') = Len(queue) - 1 /\ Len(queue) > 0
      /\ Queued(h) /\ \A x : Queued(x)' <=> (Queued(x) /\ x # h)
  <2>1. /\ Len(Tail(queue)) = Len(queue) - 1
        /\ \E i \in DOMAIN queue : queue[i] = h
        /\ \A x : (\E i \in DOMAIN Tail(queue) : Tail(queue)[i] = x)
                     <=> ((\E i \in DOMAIN queue : queue[i] = x) /\ x # h)
    BY <1>1, <1>2, TailMembers
  <2>2. Len(queue) > 0
    BY <1>1
  <2> QED
    BY <1>1, <2>1, <2>2, Zenon DEF Queued
<1>4. holds[c] = NoRecord
  BY <1>1 DEF Inv, TypeOK
<1>5. \A x \in Records : Held(x)' <=> (Held(x) \/ x = h)
  BY <1>1, <1>4, PipelineAssumption DEF Held
<1> QED
  BY <1>1, <1>3, <1>5 DEF Accepted

LEMMA OthersRelease ==
    ASSUME Forget \/ Stop \/ UNCHANGED vars
    PROVE  Release
<1>1. CASE Forget \/ UNCHANGED vars
  <2>1. UNCHANGED <<queue, holds, outcome>>
    BY <1>1 DEF Forget, vars
  <2> QED
    BY <2>1 DEF Release, Held
<1>2. CASE Stop
  <2>1. /\ \A c \in Consumers : holds'[c] = NoRecord
        /\ \A r \in Records : outcome'[r] = IF Held(r) THEN "cancelled" ELSE outcome[r]
        /\ UNCHANGED queue
    BY <1>2 DEF Stop
  <2>2. \A r \in Records : ~Held(r)'
    BY <2>1, PipelineAssumption DEF Held
  <2> QED
    BY <2>1, <2>2 DEF Release
<1> QED
  BY <1>1, <1>2

\* A record that submit has accepted is queued, in hand or finished, once and only
\* once, and nothing else is: no failure, cancellation or overtaking loses, doubles
\* or invents one.  RecordInOnePlace, both halves of it.
THEOREM RecordsInOnePlace == Spec => []RecordInOnePlace
<1>1. Init => NoneLost
  <2> SUFFICES ASSUME Init PROVE Accepted = {} /\ accepted = {}
    BY DEF NoneLost
  <2>1. \A r \in Records : ~Queued(r) /\ ~Held(r) /\ outcome[r] = "none"
    BY PipelineAssumption DEF Init, Queued, Held
  <2> QED
    BY <2>1 DEF Init, Accepted
<1>2. Inv /\ NoneLost /\ [Next]_vars => NoneLost'
  <2> SUFFICES ASSUME Inv, accepted = Accepted, [Next]_vars
               PROVE  accepted' = Accepted'
    BY DEF NoneLost
  <2>1. ASSUME NEW r \in Records, Submit(r), Len(queue) < QueueMax
        PROVE  accepted' = Accepted'
    <3>1. accepted' = accepted \cup {r}
      BY <2>1, PipelineAssumption DEF Submit, Inv, TypeOK
    <3> QED
      BY <2>1, <3>1, RecordQueued
  <2>2. ASSUME NEW r \in Records, Submit(r), ~(Len(queue) < QueueMax)
        PROVE  accepted' = Accepted'
    BY <2>2, RecordRejected DEF Submit
  <2>3. ASSUME NEW c \in Consumers, Take(c)
        PROVE  accepted' = Accepted'
    BY <2>3, RecordTaken DEF Take
  <2>4. ASSUME NEW c \in Consumers, Work(c)
        PROVE  accepted' = Accepted'
    <3>1. accepted' = accepted
      BY <2>4 DEF Work, Enter, Match, Infer, Preserve, Fail
    <3> QED
      BY <2>4, <3>1, WorkReleases, ReleaseKeepsAccepted
  <2>5. ASSUME Forget \/ Stop \/ UNCHANGED vars
        PROVE  accepted' = Accepted'
    <3>1. accepted' = accepted
      BY <2>5 DEF Forget, Stop, vars
    <3> QED
      BY <2>5, <3>1, OthersRelease, ReleaseKeepsAccepted
  <2> QED
    BY <2>1, <2>2, <2>3, <2>4, <2>5 DEF Next
<1>3. Spec => []NoneLost
  BY <1>1, <1>2, PipelineInvariant, PTL DEF Spec
<1> QED
  BY <1>3, PipelineInvariant, PTL DEF Inv, RecordInOnePlace

-----------------------------------------------------------------------------
(* The pipeline is the queue its sources model.                            *)

\* What PipelineQueue's words mean here.
LEMMA QueueWords ==
    /\ Queue!QueueInit <=> Len(queue) = 0 /\ Accepted = {}
    /\ UNCHANGED Queue!queueVars <=> Len(queue)' = Len(queue) /\ Accepted' = Accepted
    /\ Queue!Consume <=>
         Len(queue) > 0 /\ Len(queue)' = Len(queue) - 1 /\ Accepted' = Accepted
  BY DEF Queue!QueueInit, Queue!queueVars, Queue!Consume

\* A record that finds room is a batch of one.
LEMMA RecordIsBatch ==
    ASSUME NEW r \in Records, Len(queue) \in Nat, Len(queue) < QueueMax,
           Len(queue)' = Len(queue) + 1, Accepted' = Accepted \cup {r}
    PROVE  Queue!QueueNext(Records)
<1> DEFINE batch == {r}
           rank == [q \in batch |-> 0]
<1>1. Queue!Cardinality(batch) = 1
  <2>1. Queue!Cardinality(batch) = Cardinality(batch)
    BY DEF Queue!Cardinality, Cardinality
  <2> QED
    BY <2>1, FS_Singleton
<1>2. rank \in Queue!Ranks(batch)
  BY <1>1 DEF Queue!Ranks
<1>3. Queue!Fits(batch, rank) = batch
  BY PipelineAssumption DEF Queue!Fits
<1>4. Queue!SubmitBatch(batch, rank)
  BY <1>1, <1>3 DEF Queue!SubmitBatch
<1>5. batch \in SUBSET Records
  OBVIOUS
<1> QED
  BY <1>2, <1>4, <1>5 DEF Queue!QueueNext

\* DetectionPipeline implements the queue of PipelineQueue, which FlowExport and
\* SensorUplink are built on: ImplementsQueue.
THEOREM QueueImplemented == Spec => ImplementsQueue
<1>1. Init => Queue!QueueInit
  <2> SUFFICES ASSUME Init PROVE Len(queue) = 0 /\ Accepted = {}
    BY QueueWords
  <2>1. \A r \in Records : ~Queued(r) /\ ~Held(r) /\ outcome[r] = "none"
    BY PipelineAssumption DEF Init, Queued, Held
  <2> QED
    BY <2>1 DEF Init, Accepted
<1>2. Inv /\ [Next]_vars => [Queue!QueueNext(Records)]_(Queue!queueVars)
  <2> SUFFICES ASSUME Inv, [Next]_vars
               PROVE  Queue!QueueNext(Records) \/ UNCHANGED Queue!queueVars
    OBVIOUS
  <2>1. ASSUME NEW r \in Records, Submit(r)
        PROVE  Queue!QueueNext(Records) \/ UNCHANGED Queue!queueVars
    <3>1. CASE Len(queue) < QueueMax
      <4>1. Len(queue) \in Nat
        BY DEF Inv, TypeOK
      <4> QED
        BY <2>1, <3>1, <4>1, RecordQueued, RecordIsBatch
    <3>2. CASE ~(Len(queue) < QueueMax)
      BY <2>1, <3>2, RecordRejected, QueueWords
    <3> QED
      BY <3>1, <3>2
  <2>2. ASSUME NEW c \in Consumers, Take(c)
        PROVE  Queue!QueueNext(Records)
    BY <2>2, RecordTaken, QueueWords DEF Queue!QueueNext
  <2>3. Release => UNCHANGED Queue!queueVars
    BY ReleaseKeepsAccepted, QueueWords
  <2>4. ASSUME NEW c \in Consumers, Work(c)
        PROVE  UNCHANGED Queue!queueVars
    BY <2>3, <2>4, WorkReleases
  <2>5. ASSUME Forget \/ Stop \/ UNCHANGED vars
        PROVE  UNCHANGED Queue!queueVars
    BY <2>3, <2>5, OthersRelease
  <2> QED
    BY <2>1, <2>2, <2>4, <2>5 DEF Next
<1> QED
  BY <1>1, <1>2, PipelineInvariant, PTL DEF Spec, ImplementsQueue

-----------------------------------------------------------------------------
(* ThreatDecision, beside the pipeline that runs it: for any flows whose   *)
(* measures are numbers, any answers of the models and any threshold.      *)

\* A set of numbers that is not empty has a least one.
LEMMA LeastExists ==
    ASSUME NEW S \in SUBSET Nat, S # {}
    PROVE  \E least \in S : \A i \in S : least <= i
<1>1. PICK least \in S : \A i \in S : ~(<<i, least>> \in OpToRel(<, Nat))
  BY NatLessThanWellFounded, WFMin
<1>2. \A i \in S : i < least => <<i, least>> \in OpToRel(<, Nat)
  BY DEF OpToRel
<1>3. \A i \in S : ~(i < least)
  BY <1>1, <1>2
<1> QED
  BY <1>3

\* One that also has a bound has a greatest one.
LEMMA GreatestExists ==
    ASSUME NEW n \in Nat, NEW S \in SUBSET (0 .. n), S # {}
    PROVE  Greatest(S) \in S /\ \A i \in S : i <= Greatest(S)
<1> DEFINE Below == {n - i : i \in S}
<1>0. \A i \in S : i \in Nat /\ i <= n /\ n - i \in Nat /\ n - i \in Below
  OBVIOUS
<1>1. Below \in SUBSET Nat /\ Below # {}
  BY <1>0
<1>2. PICK least \in Below : \A d \in Below : least <= d
  <2> HIDE DEF Below
  <2> QED
    BY <1>1, LeastExists
<1>3. PICK greatest \in S : least = n - greatest
  OBVIOUS
<1>4. \A i \in S : i <= greatest
  <2> SUFFICES ASSUME NEW i \in S PROVE i <= greatest
    OBVIOUS
  <2>1. least <= n - i
    BY <1>0, <1>2
  <2> QED
    BY <1>0, <1>3, <2>1
<1> QED
  BY <1>3, <1>4 DEF Greatest

\* Among places with numbers, one is the first of those with the greatest number.
LEMMA FirstMaxExists ==
    ASSUME NEW D \in SUBSET Nat, D # {}, NEW n \in Nat, NEW key \in [D -> 0 .. n]
    PROVE  FirstMax(key) \in D
<1> DEFINE Keys == {key[i] : i \in D}
<1>1. Keys \in SUBSET (0 .. n) /\ Keys # {}
  OBVIOUS
<1>2. PICK greatest \in Keys : \A k \in Keys : k <= greatest
  <2> HIDE DEF Keys
  <2> QED
    BY <1>1, GreatestExists
<1> DEFINE Tops == {i \in D : key[i] = greatest}
<1>3. Tops \in SUBSET Nat /\ Tops # {}
  OBVIOUS
<1>4. PICK first \in Tops : \A i \in Tops : first <= i
  <2> HIDE DEF Tops
  <2> QED
    BY <1>3, LeastExists
<1>5. \A i \in D : key[i] < key[first] \/ (key[i] = key[first] /\ first <= i)
  BY <1>2, <1>4
<1>6. DOMAIN key = D /\ first \in D
  OBVIOUS
<1> QED
  BY <1>5, <1>6 DEF FirstMax

-----------------------------------------------------------------------------
(* Rules.  What matches is a technique with a score.                       *)

Measured(f) == \A name \in Measures : f[name] \in Nat
RuleTypes == ThreatTypes \ {"benign", "suspicious_traffic"}

RuleIds ==
    {"stat_syn_ratio_high", "stat_conn_freq_high", "stat_pps_high", "stat_bps_high",
     "stat_dns_entropy_high", "stat_unique_ports_high", "stat_unique_ips_high",
     "stat_outbound_ratio_high", "stat_small_packet_high", "stat_source_entropy_high",
     "stat_udp_amp_high", "behav_periodic_conn", "behav_syn_flood", "behav_udp_flood",
     "behav_slowloris", "behav_port_sweep", "behav_small_pkt_many_conn",
     "behav_brute_force", "behav_lateral_move", "behav_tls_ja3_blocklist"}

Outcome ==
    {m \in [id : RuleIds, category : {"statistical", "behavioral"}, type : RuleTypes, score : Int] :
        m.score <= 100 /\ (m.id = "behav_slowloris" => m.type = "dos")}

LEMMA OutcomeIs ==
    ASSUME NEW id \in RuleIds, NEW category \in {"statistical", "behavioral"},
           NEW type \in RuleTypes, NEW score \in Int, score <= 100,
           id = "behav_slowloris" => type = "dos"
    PROVE  RuleMatch(id, category, type, score) \in Outcome
  BY DEF RuleMatch, Outcome

LEMMA StatisticalOutcomes ==
    ASSUME NEW f, Measured(f)
    PROVE  StatisticalMatches(f) \in Seq(Outcome)
<1> DEFINE Thresholds == {30, 50, 80, 85, 250, 350, 1000, 2000, 10000}
           Rule == {r \in [id : RuleIds, field : Measures, threshold : Thresholds,
                           type : RuleTypes] : r.id # "behav_slowloris"}
           R(id, field, threshold, type) == StatRule(id, field, threshold, type)
           rules == StatisticalRules
<1>1. \A id \in RuleIds, field \in Measures, threshold \in Thresholds, type \in RuleTypes :
        id # "behav_slowloris" => R(id, field, threshold, type) \in Rule
  BY DEF StatRule
<1>2. /\ "syn_ratio" \in Measures /\ "connection_frequency" \in Measures
      /\ "packets_per_sec" \in Measures /\ "bytes_per_sec" \in Measures
      /\ "dns_entropy" \in Measures /\ "unique_dst_ports" \in Measures
      /\ "unique_dst_ips" \in Measures /\ "outbound_inbound_ratio" \in Measures
      /\ "small_packet_ratio" \in Measures /\ "source_entropy" \in Measures
      /\ "udp_amp_ratio" \in Measures
      /\ "dos" \in RuleTypes /\ "lateral_movement" \in RuleTypes /\ "data_exfiltration" \in RuleTypes
      /\ "dns_tunneling" \in RuleTypes /\ "port_scan" \in RuleTypes /\ "reconnaissance" \in RuleTypes
      /\ "ddos" \in RuleTypes
      /\ 30 \in Thresholds /\ 50 \in Thresholds /\ 80 \in Thresholds /\ 85 \in Thresholds
      /\ 250 \in Thresholds /\ 350 \in Thresholds /\ 1000 \in Thresholds /\ 2000 \in Thresholds
      /\ 10000 \in Thresholds
  BY DEF Measures, RuleTypes, ThreatTypes
<1>3. rules \in Seq(Rule)
  <2> HIDE DEF Rule, R, Thresholds
  <2>1. R("stat_syn_ratio_high", "syn_ratio", 80, "dos") \in Rule
    BY <1>1, <1>2 DEF RuleIds
  <2>2. R("stat_conn_freq_high", "connection_frequency", 10000, "lateral_movement") \in Rule
    BY <1>1, <1>2 DEF RuleIds
  <2>3. R("stat_pps_high", "packets_per_sec", 2000, "dos") \in Rule
    BY <1>1, <1>2 DEF RuleIds
  <2>4. R("stat_bps_high", "bytes_per_sec", 2000, "data_exfiltration") \in Rule
    BY <1>1, <1>2 DEF RuleIds
  <2>5. R("stat_dns_entropy_high", "dns_entropy", 350, "dns_tunneling") \in Rule
    BY <1>1, <1>2 DEF RuleIds
  <2>6. R("stat_unique_ports_high", "unique_dst_ports", 50, "port_scan") \in Rule
    BY <1>1, <1>2 DEF RuleIds
  <2>7. R("stat_unique_ips_high", "unique_dst_ips", 30, "lateral_movement") \in Rule
    BY <1>1, <1>2 DEF RuleIds
  <2>8. R("stat_outbound_ratio_high", "outbound_inbound_ratio", 1000, "data_exfiltration") \in Rule
    BY <1>1, <1>2 DEF RuleIds
  <2>9. R("stat_small_packet_high", "small_packet_ratio", 80, "reconnaissance") \in Rule
    BY <1>1, <1>2 DEF RuleIds
  <2>10. R("stat_source_entropy_high", "source_entropy", 250, "ddos") \in Rule
    BY <1>1, <1>2 DEF RuleIds
  <2>11. R("stat_udp_amp_high", "udp_amp_ratio", 85, "ddos") \in Rule
    BY <1>1, <1>2 DEF RuleIds
  <2> QED
    BY <2>1, <2>2, <2>3, <2>4, <2>5, <2>6, <2>7, <2>8, <2>9, <2>10, <2>11
       DEF StatisticalRules, R
<1>4. \A actual \in Int, threshold \in Thresholds :
        /\ StatisticalScore(actual, threshold) \in Int
        /\ StatisticalScore(actual, threshold) <= 100
  BY DEF StatisticalScore, Lesser
<1> HIDE DEF rules, R, Thresholds
<1>5. ASSUME NEW i \in DOMAIN rules PROVE StatisticalMatches(f)[i] \in Outcome
  <2>1. rules[i] \in Rule
    BY <1>3
  <2>2. /\ rules[i].id \in RuleIds /\ rules[i].id # "behav_slowloris"
        /\ rules[i].field \in Measures /\ rules[i].threshold \in Thresholds
        /\ rules[i].type \in RuleTypes
    BY <2>1
  <2>3. f[rules[i].field] \in Int
    BY <2>2 DEF Measured
  <2>4. StatisticalMatches(f)[i] =
          RuleMatch(rules[i].id, "statistical", rules[i].type,
                        StatisticalScore(f[rules[i].field], rules[i].threshold))
    BY DEF StatisticalMatches, rules
  <2> QED
    BY <1>4, <2>2, <2>3, <2>4, OutcomeIs
<1>6. StatisticalMatches(f) =
        [i \in DOMAIN rules |-> StatisticalMatches(f)[i]]
  BY DEF StatisticalMatches, rules
<1>7. DOMAIN rules = 1 .. Len(rules) /\ Len(rules) \in Nat
  BY <1>3
<1> QED
  BY <1>5, <1>6, <1>7

LEMMA BehavioralOutcomes ==
    ASSUME NEW f, Measured(f)
    PROVE  BehavioralMatches(f) \in Seq(Outcome)
<1>1. /\ f.syn_ratio \in Nat /\ f.connection_frequency \in Nat /\ f.packets_per_sec \in Nat
      /\ f.unique_dst_ports \in Nat /\ f.unique_dst_ips \in Nat
      /\ f.outbound_inbound_ratio \in Nat /\ f.small_packet_ratio \in Nat
      /\ f.periodicity \in Nat /\ f.avg_packet_size \in Nat /\ f.fin_ratio \in Nat
      /\ f.dst_port_conn_freq \in Nat
  BY DEF Measured, Measures
<1> DEFINE Scored(score) == score \in Int /\ score <= 100
<1>2. Scored(PeriodicPattern(f))
  BY <1>1 DEF PeriodicPattern, Lesser
<1>3. Scored(SynFloodPattern(f))
  BY <1>1 DEF SynFloodPattern
<1>4. Scored(UdpFloodPattern(f))
  BY <1>1 DEF UdpFloodPattern, Lesser
<1>5. Scored(Slowloris(f))
  BY <1>1 DEF Slowloris, Lesser
<1>6. Scored(PortSweep(f))
  BY <1>1 DEF PortSweep
<1>7. Scored(SmallPacketsManyConnections(f)) /\ Scored(BruteForce(f))
      /\ Scored(LateralBeacon(f)) /\ Scored(TlsJa3Blocklist(f))
  BY DEF SmallPacketsManyConnections, BruteForce, LateralBeacon,
         TlsJa3Blocklist
<1>8. {"c2_communication", "ddos", "dos", "port_scan", "reconnaissance", "brute_force",
       "lateral_movement", "malware_communication"} \subseteq RuleTypes
  BY DEF RuleTypes, ThreatTypes
<1> DEFINE M(id, type, score) == RuleMatch(id, "behavioral", type, score)
<1>9. /\ M("behav_periodic_conn", "c2_communication", PeriodicPattern(f)) \in Outcome
      /\ M("behav_syn_flood", "ddos", SynFloodPattern(f)) \in Outcome
      /\ M("behav_udp_flood", "ddos", UdpFloodPattern(f)) \in Outcome
      /\ M("behav_slowloris", "dos", Slowloris(f)) \in Outcome
      /\ M("behav_port_sweep", "port_scan", PortSweep(f)) \in Outcome
      /\ M("behav_small_pkt_many_conn", "reconnaissance",
           SmallPacketsManyConnections(f)) \in Outcome
      /\ M("behav_brute_force", "brute_force", BruteForce(f)) \in Outcome
      /\ M("behav_lateral_move", "lateral_movement", LateralBeacon(f)) \in Outcome
      /\ M("behav_tls_ja3_blocklist", "malware_communication",
           TlsJa3Blocklist(f)) \in Outcome
  BY <1>2, <1>3, <1>4, <1>5, <1>6, <1>7, <1>8, OutcomeIs DEF RuleIds
<1> QED
  BY <1>9 DEF BehavioralMatches

\* The matches of a flow: outcomes of rules that scored, at places of the registry.
Matched(ms) ==
    /\ DOMAIN ms \in SUBSET Nat /\ IsFiniteSet(DOMAIN ms)
    /\ ms = [i \in DOMAIN ms |-> ms[i]]
    /\ \A i \in DOMAIN ms : ms[i] \in Outcome /\ ms[i].score > 0

LEMMA RulesMatch ==
    ASSUME NEW f, Measured(f)
    PROVE  Matched(RuleMatches(f))
<1> DEFINE all == StatisticalMatches(f) \o BehavioralMatches(f)
           ms == RuleMatches(f)
<1>1. all \in Seq(Outcome)
  BY StatisticalOutcomes, BehavioralOutcomes
<1>2. ms = [i \in {j \in DOMAIN all : all[j].score > 0} |-> all[i]]
  BY DEF RuleMatches
<1> HIDE DEF all, ms
<1>3. DOMAIN all = 1 .. Len(all) /\ Len(all) \in Nat
  BY <1>1
<1>4. DOMAIN ms \subseteq 1 .. Len(all)
  BY <1>2, <1>3
<1>5. IsFiniteSet(1 .. Len(all))
  BY <1>3, FS_Interval
<1>6. IsFiniteSet(DOMAIN ms)
  BY <1>4, <1>5, FS_Subset
<1>7. \A i \in DOMAIN ms : ms[i] \in Outcome /\ ms[i].score > 0
  BY <1>1, <1>2
<1>8. DOMAIN ms \in SUBSET Nat /\ ms = [i \in DOMAIN ms |-> ms[i]]
  BY <1>2, <1>3, <1>4
<1> QED
  BY <1>6, <1>7, <1>8 DEF Matched, ms

\* What a match is known to be.
LEMMA MatchIs ==
    ASSUME NEW ms, Matched(ms), NEW m \in Elements(ms)
    PROVE  /\ m.type \in RuleTypes /\ m.score \in 1 .. 100
           /\ m.category \in {"statistical", "behavioral"}
           /\ m.id = "behav_slowloris" => m.type = "dos"
<1>1. PICK i \in DOMAIN ms : m = ms[i]
  BY DEF Elements
<1>2. m \in Outcome /\ m.score > 0
  BY <1>1 DEF Matched
<1> QED
  BY <1>2 DEF Outcome

\* Every rule is for a technique or a volume, so all matches are specific.
LEMMA AllSpecific ==
    ASSUME NEW ms, Matched(ms)
    PROVE  Specific(ms) = ms
<1>1. \A i \in DOMAIN ms : ms[i].type # "suspicious_traffic"
  BY DEF Matched, Outcome, RuleTypes
<1>2. {j \in DOMAIN ms : ms[j].type # "suspicious_traffic"} = DOMAIN ms
  BY <1>1
<1> QED
  BY <1>2 DEF Specific, Matched

LEMMA NothingMatched ==
    ASSUME NEW ms, Matched(ms)
    PROVE  (ms = <<>>) <=> (DOMAIN ms = {})
  BY DEF Matched

\* The winning match is one of them.
LEMMA BestIsMatch ==
    ASSUME NEW ms, Matched(ms), ms # <<>>
    PROVE  Best(ms) \in Elements(ms)
<1> DEFINE D == DOMAIN ms
           key == [i \in D |-> 10 * ms[i].score + Priority(ms[i].type)]
           n == 1005
<1>1. D \in SUBSET Nat /\ D # {}
  BY NothingMatched DEF Matched
<1>2. \A type : Priority(type) \in 0 .. 5
  BY DEF Priority
<1>3. \A i \in D : ms[i].score \in 1 .. 100
  BY MatchIs DEF Elements
<1>4. key \in [D -> 0 .. n]
  <2>1. \A i \in D : ms[i].score \in 1 .. 100 /\ Priority(ms[i].type) \in 0 .. 5
    BY <1>2, <1>3
  <2>2. \A s \in 1 .. 100, p \in 0 .. 5 : 10 * s + p \in Int /\ 0 <= 10 * s + p /\ 10 * s + p <= 1005
    OBVIOUS
  <2>3. \A s \in 1 .. 100, p \in 0 .. 5 : 10 * s + p \in 0 .. n
    BY <2>2
  <2> HIDE DEF n
  <2>4. \A i \in D : 10 * ms[i].score + Priority(ms[i].type) \in 0 .. n
    BY <2>1, <2>3
  <2> QED
    BY <2>4
<1>5. n \in Nat
  OBVIOUS
<1>6. FirstMax(key) \in D
  <2> HIDE DEF D, key, n
  <2> QED
    BY <1>1, <1>4, <1>5, FirstMaxExists
<1> QED
  BY <1>6 DEF Best, Elements

\* Refinement of a technique's label gives a technique's label.
LEMMA RefinedIsRuleType ==
    ASSUME NEW ms, NEW winner \in RuleTypes
    PROVE  RefineLabel(winner, ms) \in RuleTypes
<1>1. {"port_scan", "c2_communication", "dns_tunneling", "dos"} \subseteq RuleTypes
  BY DEF RuleTypes, ThreatTypes
<1>2. RefineLabel(winner, ms) \in
        {"port_scan", "c2_communication", "dns_tunneling", "dos", winner}
  BY DEF RefineLabel
<1> QED
  BY <1>1, <1>2

\* The label that the specific matches give, whatever the models say.
RuleLabel(ms) == RefineLabel(Best(ms).type, ms)

LEMMA LabelledByRules ==
    ASSUME NEW ms, Matched(ms), ms # <<>>
    PROVE  /\ RuleLabel(ms) \in RuleTypes
           /\ \A risk, result, f :
                Classify(risk, ms, result, f) = VetLabel(RuleLabel(ms), ms, f)
<1>1. Best(ms).type \in RuleTypes
  BY BestIsMatch, MatchIs
<1>2. RuleLabel(ms) \in RuleTypes
  BY <1>1, RefinedIsRuleType DEF RuleLabel
<1>3. Specific(ms) = ms
  BY AllSpecific
<1> QED
  BY <1>2, <1>3 DEF Classify, RuleLabel

-----------------------------------------------------------------------------
(* Models and fusion. *)

\* What the models may answer, a failure or skipped inference included.
Answer(result) ==
    /\ result.probability \in 0 .. 100 /\ result.anomaly \in 0 .. 100
    /\ result.blended > 5000 => result.probability > 50 \/ result.isAnomaly
    /\ result.blended = Blended(result.probability, result.anomaly)
    /\ result.blended \in Risks

LEMMA ResultAnswers ==
    ASSUME NEW c, NEW p \in 0 .. 100, NEW a \in 0 .. 100
    PROVE  Answer(MLResult(c, p, a))
<1> DEFINE result == MLResult(c, p, a)
<1>1. result.probability = p /\ result.anomaly = a /\ result.blended = Blended(p, a)
  BY DEF MLResult
<1>2. result.isAnomaly = (a > 50)
  BY DEF MLResult
<1>3. Blended(p, a) \in Risks
  <2>1. 100 * p \in Risks
    BY DEF Risks
  <2>2. 100 * p + 15 * (a - 50) >= 0 \/ a <= 50
    OBVIOUS
  <2>3. a > 50 => Lesser(10000, 100 * p + 15 * (a - 50)) \in Risks
    BY <2>2 DEF Lesser, Risks
  <2> QED
    BY <2>1, <2>3, SMT DEF Blended
<1> HIDE DEF result
<1>4. a > 50 => result.isAnomaly
  <2> SUFFICES ASSUME a > 50 PROVE result.isAnomaly
    OBVIOUS
  <2>1. (a > 50) = TRUE
    OBVIOUS
  <2> QED
    BY <1>2, <2>1, Zenon
<1>5. result.blended > 5000 => result.probability > 50 \/ result.isAnomaly
  <2>1. Blended(p, a) > 5000 => p > 50 \/ a > 50
    BY DEF Blended
  <2> QED
    BY <1>1, <1>4, <2>1
<1>6. /\ result.probability \in 0 .. 100 /\ result.anomaly \in 0 .. 100
      /\ result.blended \in Risks
      /\ result.blended = Blended(result.probability, result.anomaly)
  BY <1>1, <1>3, Zenon
<1> QED
  BY <1>5, <1>6 DEF Answer, result

LEMMA ConfidentBlend ==
    ASSUME NEW p \in 0 .. 20, NEW a \in 0 .. 100
    PROVE  Blended(p, a) = 100 * p
<1>1. p <= 20
  OBVIOUS
<1> QED
  BY <1>1, SMT DEF Blended

LEMMA MLAnswers ==
    ASSUME Probabilities \subseteq 0 .. 100, AnomalyScores \subseteq 0 .. 100,
           NEW result \in MLResults \cup {NoML}
    PROVE  Answer(result)
<1>1. ASSUME NEW failed, failed = NoML PROVE Answer(failed)
  <2>1. failed.probability = 0 /\ failed.anomaly = 0 /\ failed.blended = 0
    BY <1>1 DEF NoML
  <2>2. Blended(0, 0) = 0
    BY ConfidentBlend
  <2>3. failed.blended \in Risks /\ ~(failed.blended > 5000)
    BY <2>1 DEF Risks
  <2>4. /\ failed.probability \in 0 .. 100 /\ failed.anomaly \in 0 .. 100
        /\ failed.blended = Blended(failed.probability, failed.anomaly)
    BY <2>1, <2>2
  <2> QED
    BY <2>3, <2>4 DEF Answer
<1>2. CASE result \in MLResults
  <2>1. PICK c \in ClassNames, p \in Probabilities, a \in AnomalyScores :
             result = MLResult(c, p, a)
    BY <1>2 DEF MLResults
  <2>2. p \in 0 .. 100 /\ a \in 0 .. 100
    OBVIOUS
  <2> QED
    BY <2>1, <2>2, ResultAnswers, Zenon
<1> QED
  BY <1>1, <1>2

\* Without a match, the label is generic.
LEMMA LabelledByModels ==
    ASSUME NEW ms, Matched(ms), ms = <<>>, NEW result, Answer(result), NEW risk, NEW f
    PROVE  Classify(risk, ms, result, f) \in {"benign", "suspicious_traffic"}
<1> DEFINE modelCounts == result.label = "benign" \/ result.probability >= 50
           place == DOMAIN ms \cup (IF modelCounts THEN {ModelPlace} ELSE {})
                      \cup (IF result.anomaly > 60 THEN {ModelPlace + 1} ELSE {})
           supervised ==
               [type |-> IF result.label = "benign" THEN "benign" ELSE "suspicious_traffic",
                score |-> result.probability]
           anomaly == [type |-> "suspicious_traffic", score |-> result.anomaly]
           candidates ==
               [i \in place |->
                   IF i = ModelPlace THEN supervised
                   ELSE IF i = ModelPlace + 1 THEN anomaly
                   ELSE [type |-> ms[i].type, score |-> ms[i].score]]
           key == [i \in place |-> candidates[i].score]
           n == 100
<1>1. place \in SUBSET {100, 101} /\ place \in SUBSET Nat
  BY NothingMatched DEF ModelPlace
<1>2. \A i \in place : /\ candidates[i].score \in 0 .. n
                       /\ candidates[i].type \in {"benign", "suspicious_traffic"}
  <2>1. ASSUME NEW i \in place PROVE candidates[i] \in {supervised, anomaly}
    <3>1. i = ModelPlace \/ i = ModelPlace + 1
      BY <1>1 DEF ModelPlace
    <3> HIDE DEF place, supervised, anomaly
    <3> QED
      BY <3>1
  <2>2. /\ supervised.score \in 0 .. n /\ anomaly.score \in 0 .. n
        /\ supervised.type \in {"benign", "suspicious_traffic"}
        /\ anomaly.type \in {"benign", "suspicious_traffic"}
    BY DEF Answer
  <2> HIDE DEF place, supervised, anomaly, candidates, n
  <2> QED
    BY <2>1, <2>2
<1>3. key \in [place -> 0 .. n] /\ n \in Nat
  BY <1>2
<1>4. place # {} => FirstMax(key) \in place
  <2> HIDE DEF key, n, place
  <2> QED
    BY <1>1, <1>3, FirstMaxExists
<1>5. GenericLabel(ms, result)
        = IF place = {} THEN "suspicious_traffic" ELSE candidates[FirstMax(key)].type
  BY DEF GenericLabel
<1> HIDE DEF candidates, key, place
<1>6. GenericLabel(ms, result) \in {"benign", "suspicious_traffic"}
  BY <1>2, <1>4, <1>5
<1>7. \A label \in {"benign", "suspicious_traffic"} :
        VetLabel(label, ms, f) \in {"benign", "suspicious_traffic"}
  BY DEF VetLabel
<1>8. Specific(ms) = <<>>
  BY AllSpecific
<1> QED
  BY <1>6, <1>7, <1>8 DEF Classify

\* Categories that matched and their scores.
LEMMA CategoryScores ==
    ASSUME NEW ms, Matched(ms), NEW c \in Categories(ms)
    PROVE  c \in {"statistical", "behavioral"} /\ SourceScore(ms, c) \in 1 .. 100
<1> DEFINE ofCategory == {m \in Elements(ms) : m.category = c}
           scores == {m.score : m \in ofCategory}
           n == 100
<1>1. PICK m \in Elements(ms) : c = m.category
  BY DEF Categories
<1>2. m.score \in scores
  BY <1>1
<1>3. scores \in SUBSET (0 .. n) /\ scores # {} /\ \A s \in scores : s \in 1 .. 100
  BY <1>2, MatchIs
<1>4. Greatest(scores) \in scores
  <2> HIDE DEF scores, n
  <2>1. n \in Nat
    BY DEF n
  <2> QED
    BY <1>3, <2>1, GreatestExists
<1>5. SourceScore(ms, c) = Greatest(scores)
  BY DEF SourceScore
<1> QED
  BY <1>1, <1>3, <1>4, <1>5, MatchIs

\* The score of a category is the score of a match.
LEMMA SourceIsMatch ==
    ASSUME NEW ms, Matched(ms), NEW c \in Categories(ms)
    PROVE  \E m \in Elements(ms) : m.score = SourceScore(ms, c)
<1> DEFINE ofCategory == {m \in Elements(ms) : m.category = c}
           scores == {m.score : m \in ofCategory}
           n == 100
<1>1. PICK m \in Elements(ms) : c = m.category
  BY DEF Categories
<1>2. m.score \in scores
  BY <1>1
<1>3. scores \in SUBSET (0 .. n) /\ scores # {}
  BY <1>2, MatchIs
<1>4. Greatest(scores) \in scores
  <2> HIDE DEF scores, n
  <2>1. n \in Nat
    BY DEF n
  <2> QED
    BY <1>3, <2>1, GreatestExists
<1>5. SourceScore(ms, c) = Greatest(scores)
  BY DEF SourceScore
<1> QED
  BY <1>4, <1>5

\* A sum over categories of what is a number for each.
LEMMA SumOfNumbers ==
    ASSUME NEW ms, Matched(ms), NEW f, \A c \in Categories(ms) : f[c] \in Nat
    PROVE  SumOver(Categories(ms), f) \in Nat
  BY DEF SumOver

\* Without matches, there is nothing to sum.
LEMMA SumOfNothing ==
    ASSUME NEW ms, ms = <<>>, NEW f
    PROVE  /\ Categories(ms) = {} /\ Elements(ms) = {}
           /\ SumOver(Categories(ms), f) = 0
<1>1. DOMAIN ms = {}
  OBVIOUS
<1>2. Elements(ms) = {}
  BY <1>1 DEF Elements
<1>3. Categories(ms) = {}
  BY <1>2 DEF Categories
<1> QED
  BY <1>2, <1>3 DEF SumOver

LEMMA RisksAreNumbers ==
    \A risk \in Risks : risk \in Nat /\ risk <= 10000
  BY DEF Risks

LEMMA LesserBounds ==
    ASSUME NEW n \in Nat
    PROVE  Lesser(10000, n) \in Risks
  BY DEF Lesser, Risks

\* Fusion gives a risk; without a match, the answer of the models.
LEMMA FuseTyped ==
    ASSUME NEW ms, Matched(ms), NEW result, Answer(result)
    PROVE  /\ Fuse(ms, result) \in Risks
           /\ ms = <<>> => Fuse(ms, result) = result.blended
<1> DEFINE present == Categories(ms)
           weighted == [c \in present |-> 100 * SourceScore(ms, c) * Weight(c)]
           weights == [c \in present |-> Weight(c)]
           sum == SumOver(present, weighted)
           weight == SumOver(present, weights)
           risk == sum + result.blended * Weight("ml_blended")
           total == weight + Weight("ml_blended")
<1>1. Fuse(ms, result) = Lesser(10000, (2 * risk + total) \div (2 * total))
  BY DEF Fuse
<1>2. Weight("ml_blended") = 20
  BY DEF Weight
<1>3. \A c \in present : Weight(c) \in Nat
  BY DEF Weight
<1>4. \A c \in present : SourceScore(ms, c) \in Nat
  BY CategoryScores
<1>5. \A a, b \in Nat : 100 * a * b \in Nat
  OBVIOUS
<1>6. (\A c \in present : weighted[c] \in Nat) /\ (\A c \in present : weights[c] \in Nat)
  <2> HIDE DEF present
  <2> QED
    BY <1>3, <1>4, <1>5
<1>7. sum \in Nat /\ weight \in Nat
  <2> HIDE DEF weighted, weights
  <2> QED
    BY <1>6, SumOfNumbers
<1>8. result.blended \in Nat /\ result.blended <= 10000
  <2>1. result.blended \in Risks
    BY DEF Answer
  <2> QED
    BY <2>1, RisksAreNumbers
<1> HIDE DEF sum, weight
<1>9. (2 * risk + total) \div (2 * total) \in Nat
  <2>1. \A x \in Nat, y \in Nat \ {0} : x \div y \in Nat
    OBVIOUS
  <2>2. 2 * risk + total \in Nat /\ 2 * total \in Nat \ {0}
    BY <1>2, <1>7, <1>8
  <2> QED
    BY <2>1, <2>2
<1>10. ASSUME ms = <<>> PROVE Fuse(ms, result) = result.blended
  <2>1. sum = 0 /\ weight = 0
    BY <1>10, SumOfNothing DEF sum, weight
  <2>2. \A b \in Nat : (2 * (b * 20) + 20) \div 40 = b
    OBVIOUS
  <2>3. (2 * risk + total) \div (2 * total) = result.blended
    BY <1>2, <1>8, <2>1, <2>2
  <2> QED
    BY <1>1, <1>8, <2>3 DEF Lesser
<1> QED
  BY <1>1, <1>9, <1>10, LesserBounds

\* Rounding a weighted mean keeps it between what it is the mean of.
LEMMA RoundedMean ==
    ASSUME NEW sum \in Nat, NEW total \in {20, 45, 70}, NEW lo \in Nat, NEW hi \in Nat,
           lo * total <= sum, sum <= hi * total
    PROVE  LET mean == (2 * sum + total) \div (2 * total)
           IN  lo <= mean /\ mean <= hi
<1>1. CASE total = 20
  <2>1. lo * 20 <= sum /\ sum <= hi * 20
    BY <1>1
  <2>2. lo <= (2 * sum + 20) \div 40 /\ (2 * sum + 20) \div 40 <= hi
    BY <2>1
  <2> QED
    BY <1>1, <2>2
<1>2. CASE total = 45
  <2>1. lo * 45 <= sum /\ sum <= hi * 45
    BY <1>2
  <2>2. lo <= (2 * sum + 45) \div 90 /\ (2 * sum + 45) \div 90 <= hi
    BY <2>1
  <2> QED
    BY <1>2, <2>2
<1>3. CASE total = 70
  <2>1. lo * 70 <= sum /\ sum <= hi * 70
    BY <1>3
  <2>2. lo <= (2 * sum + 70) \div 140 /\ (2 * sum + 70) \div 140 <= hi
    BY <2>1
  <2> QED
    BY <1>3, <2>2
<1> QED
  BY <1>1, <1>2, <1>3

\* Fusion is a mean: it stays between the weakest and the strongest of its sources,
\* whichever categories of rules are among them.
LEMMA FuseBetween ==
    ASSUME NEW ms, Matched(ms), NEW result, Answer(result),
           NEW lo \in Nat, NEW hi \in Nat, hi <= 10000,
           lo <= result.blended, result.blended <= hi,
           \A c \in Categories(ms) : lo <= 100 * SourceScore(ms, c) /\ 100 * SourceScore(ms, c) <= hi
    PROVE  lo <= Fuse(ms, result) /\ Fuse(ms, result) <= hi
<1> DEFINE present == Categories(ms)
           weighted == [c \in present |-> 100 * SourceScore(ms, c) * Weight(c)]
           weights == [c \in present |-> Weight(c)]
           sum == SumOver(present, weighted) + result.blended * Weight("ml_blended")
           total == SumOver(present, weights) + Weight("ml_blended")
           mean == (2 * sum + total) \div (2 * total)
           part(c) == IF c \in present THEN 2500 * SourceScore(ms, c) ELSE 0
           share(c) == IF c \in present THEN 25 ELSE 0
<1>1. Fuse(ms, result) = Lesser(10000, mean)
  BY DEF Fuse
<1>2. /\ Weight("ml_blended") = 20 /\ Weight("statistical") = 25 /\ Weight("behavioral") = 25
      /\ "signature" \notin present
  BY CategoryScores DEF Weight
<1>3. \A c \in present : SourceScore(ms, c) \in Nat
  BY CategoryScores
<1>4. \A c \in {"statistical", "behavioral"} : c \in present =>
          weighted[c] = 2500 * SourceScore(ms, c) /\ weights[c] = 25
  <2>1. \A x \in Nat : 100 * x * 25 = 2500 * x
    OBVIOUS
  <2> HIDE DEF present
  <2> QED
    BY <1>2, <1>3, <2>1
<1>5. /\ SumOver(present, weighted) = part("statistical") + part("behavioral")
      /\ SumOver(present, weights) = share("statistical") + share("behavioral")
  <2> HIDE DEF weighted, weights, present
  <2> QED
    BY <1>2, <1>3, <1>4 DEF SumOver
<1>6. \A c \in {"statistical", "behavioral"} :
          /\ part(c) \in Nat /\ share(c) \in {0, 25}
          /\ lo * share(c) <= part(c) /\ part(c) <= hi * share(c)
  <2> SUFFICES ASSUME NEW c \in {"statistical", "behavioral"}
               PROVE  /\ part(c) \in Nat /\ share(c) \in {0, 25}
                      /\ lo * share(c) <= part(c) /\ part(c) <= hi * share(c)
    OBVIOUS
  <2>1. CASE c \in present
    <3> DEFINE x == SourceScore(ms, c)
    <3>1. x \in Nat /\ lo <= 100 * x /\ 100 * x <= hi
      BY <1>3, <2>1
    <3>2. part(c) = 2500 * x /\ share(c) = 25
      BY <2>1
    <3> HIDE DEF x, part, share
    <3> QED
      BY <3>1, <3>2
  <2>2. CASE c \notin present
    <3>1. part(c) = 0 /\ share(c) = 0
      BY <2>2
    <3> HIDE DEF part, share
    <3> QED
      BY <3>1
  <2> QED
    BY <2>1, <2>2
<1>7. result.blended \in Nat
  <2>1. result.blended \in Risks
    BY DEF Answer
  <2> QED
    BY <2>1, RisksAreNumbers
<1>8. /\ sum = part("statistical") + part("behavioral") + 20 * result.blended
      /\ total = share("statistical") + share("behavioral") + 20
  <2> HIDE DEF part, share
  <2> QED
    BY <1>2, <1>5, <1>6, <1>7
<1> HIDE DEF sum, total, part, share
<1>9. total \in {20, 45, 70} /\ sum \in Nat
  BY <1>6, <1>7, <1>8
<1>10. lo * total <= sum /\ sum <= hi * total
  <2> DEFINE s == share("statistical")
             t == share("behavioral")
             b == result.blended
  <2>1. /\ s \in {0, 25} /\ t \in {0, 25} /\ total = s + t + 20
        /\ lo * s <= part("statistical") /\ part("statistical") <= hi * s
        /\ lo * t <= part("behavioral") /\ part("behavioral") <= hi * t
        /\ part("statistical") \in Nat /\ part("behavioral") \in Nat
        /\ sum = part("statistical") + part("behavioral") + 20 * b
        /\ b \in Nat /\ lo <= b /\ b <= hi
    BY <1>6, <1>7, <1>8
  <2> HIDE DEF s, t, b
  <2>2. ASSUME NEW n \in Nat
        PROVE  n * total = n * s + n * t + 20 * n
    <3>1. CASE s = 0 /\ t = 0
      BY <2>1, <3>1
    <3>2. CASE s = 0 /\ t = 25
      BY <2>1, <3>2
    <3>3. CASE s = 25 /\ t = 0
      BY <2>1, <3>3
    <3>4. CASE s = 25 /\ t = 25
      BY <2>1, <3>4
    <3> QED
      BY <2>1, <3>1, <3>2, <3>3, <3>4
  <2>3. /\ lo * s \in Nat /\ lo * t \in Nat /\ hi * s \in Nat /\ hi * t \in Nat
        /\ lo * total = lo * s + lo * t + 20 * lo
        /\ hi * total = hi * s + hi * t + 20 * hi
    BY <2>1, <2>2
  <2> QED
    BY <2>1, <2>3
<1>11. lo <= mean /\ mean <= hi /\ mean \in Nat
  <2>1. lo <= mean /\ mean <= hi
    BY <1>9, <1>10, RoundedMean
  <2>2. mean \in Int
    BY <1>9
  <2> HIDE DEF mean
  <2> QED
    BY <2>1, <2>2
<1> HIDE DEF mean
<1> QED
  BY <1>1, <1>11 DEF Lesser

\* The sources are a handful.
LEMMA SourcesCounted ==
    ASSUME NEW ms, Matched(ms), NEW result
    PROVE  /\ Cardinality(DetectionSources(ms, result)) \in Nat
           /\ Cardinality(DOMAIN ms) \in Nat
<1> DEFINE names == {"statistical"} \cup {"behavioral"}
                      \cup {"supervised_ml"} \cup {"anomaly_detection"}
           sources == DetectionSources(ms, result)
<1>1. \A c \in Categories(ms) : c \in {"statistical", "behavioral"}
  BY CategoryScores
<1>2. sources \subseteq names
  BY <1>1 DEF DetectionSources
<1>3. IsFiniteSet(names)
  BY FS_Singleton, FS_Union
<1> HIDE DEF names, sources
<1>4. IsFiniteSet(sources) /\ IsFiniteSet(DOMAIN ms)
  BY <1>2, <1>3, FS_Subset DEF Matched
<1>5. Cardinality(sources) \in Nat /\ Cardinality(DOMAIN ms) \in Nat
  BY <1>4, FS_CardinalityType
<1> QED
  BY <1>5 DEF sources

LEMMA ConfidenceTyped ==
    ASSUME NEW ms, Matched(ms), NEW result, Answer(result), NEW count \in Nat
    PROVE  Confidence(ms, result, count) \in Risks
<1> DEFINE present == Categories(ms)
           strength == [c \in present |->
               SourceScore(ms, c) * (IF c = "signature" THEN 30 ELSE 20)]
           sum == SumOver(present, strength)
           evidence == sum + (result.blended * 30) \div 100
           spread == (2000 * Lesser(count, 3)) \div 3
           rules == 250 * Lesser(Cardinality(DOMAIN ms), 4)
           anomaly == IF result.isAnomaly THEN 1000 ELSE 0
<1>1. Confidence(ms, result, count) =
        Lesser(10000, (evidence * 6) \div 10 + spread + rules + anomaly)
  BY DEF Confidence
<1>2. \A c \in present : SourceScore(ms, c) \in Nat
  BY CategoryScores
<1>3. \A c \in present : strength[c] \in Nat
  <2> HIDE DEF present
  <2> QED
    BY <1>2
<1>4. sum \in Nat
  <2> HIDE DEF strength
  <2> QED
    BY <1>3, SumOfNumbers
<1>5. \A x \in Nat, y \in Nat \ {0} : x \div y \in Nat
  OBVIOUS
<1>6. result.blended \in Nat
  <2>1. result.blended \in Risks
    BY DEF Answer
  <2> QED
    BY <2>1, RisksAreNumbers
<1> HIDE DEF sum
<1>7. (result.blended * 30) \div 100 \in Nat
  BY <1>5, <1>6
<1>8. (evidence * 6) \div 10 \in Nat
  BY <1>4, <1>5, <1>7
<1>9. \A x, y \in Nat : Lesser(x, y) \in Nat
  BY DEF Lesser
<1>10. spread \in Nat
  <2>1. 2000 * Lesser(count, 3) \in Nat
    BY <1>9
  <2> QED
    BY <1>5, <2>1
<1>11. rules \in Nat
  <2>1. Cardinality(DOMAIN ms) \in Nat
    BY SourcesCounted
  <2>2. Lesser(Cardinality(DOMAIN ms), 4) \in Nat
    BY <1>9, <2>1
  <2> QED
    BY <2>2
<1>12. anomaly \in Nat
  OBVIOUS
<1> HIDE DEF evidence, spread, rules, anomaly
<1>13. (evidence * 6) \div 10 + spread + rules + anomaly \in Nat
  BY <1>8, <1>10, <1>11, <1>12
<1> QED
  BY <1>1, <1>13, LesserBounds

\* The floor under a technique: no less than the score of any match, than the
\* threshold and than what fusion gave.  Other labels keep what fusion gave.
LEMMA FloorLifts ==
    ASSUME NEW ms, Matched(ms), NEW risk \in Risks, DetectionThreshold \in Risks, NEW type
    PROVE  LET floor == Floor(risk, type, ms)
           IN  /\ floor \in Risks
               /\ (ms # <<>> /\ type \in RuleTypes) =>
                    /\ floor >= DetectionThreshold
                    /\ \A m \in Elements(ms) : floor >= 100 * m.score
               /\ (ms = <<>> \/ type \in {"benign", "suspicious_traffic"}) => floor = risk
<1> DEFINE scores == {100 * m.score : m \in Elements(ms)}
           all == scores \cup {risk, DetectionThreshold}
           n == 10000
           floor == Floor(risk, type, ms)
<1>1. floor = IF scores # {} /\ type \notin {"benign", "suspicious_traffic"}
              THEN Greatest(all) ELSE risk
  <2>1. Specific(ms) = ms
    BY AllSpecific
  <2> QED
    BY <2>1 DEF Floor
<1>2. scores = {} <=> ms = <<>>
  <2>1. (ms = <<>>) <=> DOMAIN ms = {}
    BY NothingMatched
  <2>2. \A i \in DOMAIN ms : 100 * ms[i].score \in scores
    BY DEF Elements
  <2>3. DOMAIN ms = {} => scores = {}
    BY DEF Elements
  <2> QED
    BY <2>1, <2>2, <2>3
<1>3. all \in SUBSET (0 .. n)
  <2>1. \A s \in 1 .. 100 : 100 * s \in Int /\ 0 <= 100 * s /\ 100 * s <= 10000
    OBVIOUS
  <2>2. \A m \in Elements(ms) : 100 * m.score \in Int /\ 0 <= 100 * m.score
                                        /\ 100 * m.score <= n
    BY <2>1, MatchIs
  <2>3. \A r \in Risks : r \in Nat /\ r <= n
    BY RisksAreNumbers
  <2> HIDE DEF n
  <2>4. n \in Nat
    BY DEF n
  <2> QED
    BY <2>2, <2>3, <2>4
<1>4. Greatest(all) \in all /\ \A s \in all : s <= Greatest(all)
  <2>1. n \in Nat /\ all # {}
    OBVIOUS
  <2> HIDE DEF n, all
  <2> QED
    BY <1>3, <2>1, GreatestExists
<1>5. Risks = 0 .. n
  BY DEF Risks
<1>6. Greatest(all) \in Risks
  <2> HIDE DEF n, all
  <2> QED
    BY <1>3, <1>4, <1>5
<1>7. /\ Greatest(all) >= DetectionThreshold
      /\ \A m \in Elements(ms) : Greatest(all) >= 100 * m.score
  <2> DEFINE most == Greatest(all)
  <2>1. DetectionThreshold \in all /\ \A m \in Elements(ms) : 100 * m.score \in all
    OBVIOUS
  <2>2. \A s \in all : s <= most
    BY <1>4
  <2> HIDE DEF all, most
  <2>3. DetectionThreshold <= most /\ \A m \in Elements(ms) : 100 * m.score <= most
    BY <2>1, <2>2
  <2> QED
    BY <2>3 DEF most
<1>8. type \in RuleTypes => type \notin {"benign", "suspicious_traffic"}
  BY DEF RuleTypes
<1> HIDE DEF scores, all, floor
<1>9. floor \in Risks
  BY <1>1, <1>6
<1>10. (ms # <<>> /\ type \in RuleTypes) => floor = Greatest(all)
  BY <1>1, <1>2, <1>8
<1>11. (ms = <<>> \/ type \in {"benign", "suspicious_traffic"}) => floor = risk
  BY <1>1, <1>2
<1> QED
  BY <1>7, <1>9, <1>10, <1>11 DEF floor

\* What fusion gives is no more than some source gave.
LEMMA FusedIsEarned ==
    ASSUME NEW ms, Matched(ms), NEW result, Answer(result)
    PROVE  \/ Fuse(ms, result) <= result.blended
           \/ \E m \in Elements(ms) : Fuse(ms, result) <= 100 * m.score
<1> DEFINE fused == Fuse(ms, result)
           most == fused - 1
<1> SUFFICES ASSUME ~(fused <= result.blended),
                    ~\E m \in Elements(ms) : fused <= 100 * m.score
             PROVE  FALSE
  OBVIOUS
<1>1. /\ fused \in Nat /\ fused <= 10000
      /\ result.blended \in Nat
  <2>1. fused \in Risks /\ result.blended \in Risks
    BY FuseTyped DEF Answer
  <2> HIDE DEF fused
  <2> QED
    BY <2>1, RisksAreNumbers
<1>2. \A c \in Categories(ms) : SourceScore(ms, c) \in Nat
  BY CategoryScores
<1>3. \A c \in Categories(ms) : ~(fused <= 100 * SourceScore(ms, c))
  <2> HIDE DEF fused
  <2> QED
    BY SourceIsMatch
<1> HIDE DEF fused
<1>4. /\ most \in Nat /\ most <= 10000
      /\ 0 <= result.blended /\ result.blended <= most
      /\ \A c \in Categories(ms) :
           0 <= 100 * SourceScore(ms, c) /\ 100 * SourceScore(ms, c) <= most
  BY <1>1, <1>2, <1>3
<1>5. fused <= most
  <2> HIDE DEF most
  <2> QED
    BY <1>4, FuseBetween DEF fused
<1> QED
  BY <1>1, <1>5

\* The floor is what fusion gave, the alert threshold, or the score of a match.
LEMMA FloorIs ==
    ASSUME NEW ms, Matched(ms), NEW risk \in Risks, DetectionThreshold \in Risks, NEW type
    PROVE  LET floor == Floor(risk, type, ms)
           IN  \/ floor = risk
               \/ \E m \in Elements(ms) : floor = 100 * m.score
               \/ /\ floor = DetectionThreshold
                  /\ ms # <<>> /\ type \notin {"benign", "suspicious_traffic"}
<1> DEFINE scores == {100 * m.score : m \in Elements(ms)}
           all == scores \cup {risk, DetectionThreshold}
           n == 10000
<1>1. Floor(risk, type, ms) =
        IF scores # {} /\ type \notin {"benign", "suspicious_traffic"}
        THEN Greatest(all) ELSE risk
  <2>1. Specific(ms) = ms
    BY AllSpecific
  <2> QED
    BY <2>1 DEF Floor
<1>2. scores # {} => ms # <<>>
  BY SumOfNothing
<1>3. all \in SUBSET (0 .. n)
  <2>1. \A s \in 1 .. 100 : 100 * s \in Int /\ 0 <= 100 * s /\ 100 * s <= 10000
    OBVIOUS
  <2>2. \A m \in Elements(ms) : 100 * m.score \in Int /\ 0 <= 100 * m.score
                                        /\ 100 * m.score <= n
    BY <2>1, MatchIs
  <2>3. \A r \in Risks : r \in Nat /\ r <= n
    BY RisksAreNumbers
  <2> HIDE DEF n
  <2>4. n \in Nat
    BY DEF n
  <2> QED
    BY <2>2, <2>3, <2>4
<1>4. Greatest(all) \in all
  <2>1. n \in Nat /\ all # {}
    OBVIOUS
  <2> HIDE DEF n, all
  <2> QED
    BY <1>3, <2>1, GreatestExists
<1> QED
  <2>1. \A x \in all : x = risk \/ x = DetectionThreshold \/ \E m \in Elements(ms) : x = 100 * m.score
    OBVIOUS
  <2> HIDE DEF all, scores
  <2> QED
    BY <1>1, <1>2, <1>4, <2>1

-----------------------------------------------------------------------------
(* Verdicts. *)

\* Vetting a technique's label leaves it, or makes it benign or suspicious.
LEMMA VettedIs ==
    ASSUME NEW label \in RuleTypes, NEW ms, NEW f
    PROVE  LET vetted == VetLabel(label, ms, f)
           IN  /\ vetted \in {label, "benign", "suspicious_traffic"}
               /\ IsNoise(f) => vetted = "benign"
               /\ (~IsNoise(f) /\ ~IsInternal(f)) => vetted = label
  BY DEF VetLabel

\* Noise is benign, by the rules or by the models.
LEMMA NoiseIsBenign ==
    ASSUME NEW risk, NEW ms, NEW result, NEW f, IsNoise(f)
    PROVE  Classify(risk, ms, result, f) = "benign"
<1>1. \A label : VetLabel(label, Specific(ms), f) = "benign"
  BY DEF VetLabel
<1> QED
  BY <1>1 DEF Classify

\* What the engine decides on matches, an answer and a flow.
LEMMA JudgeIs ==
    ASSUME NEW ms, Matched(ms), NEW result, Answer(result), DetectionThreshold \in Risks, NEW f
    PROVE  LET verdict == Judge(f, ms, result)
           IN  /\ verdict.type \in RuleTypes \cup {"benign", "suspicious_traffic"}
               /\ verdict.risk \in Risks /\ verdict.confidence \in Risks
               /\ verdict.severity = Severity(verdict.risk, verdict.confidence)
               /\ verdict.sources = DetectionSources(ms, result)
               /\ verdict.isThreat \in BOOLEAN
               /\ verdict.isThreat <=> (verdict.risk >= DetectionThreshold /\ verdict.type # "benign")
               /\ IsNoise(f) => verdict.type = "benign"
               /\ ms = <<>> => /\ verdict.type \in {"benign", "suspicious_traffic"}
                               /\ verdict.risk = result.blended
               /\ ms # <<>> => verdict.type = VetLabel(RuleLabel(ms), ms, f)
               /\ (ms # <<>> /\ verdict.type \in RuleTypes) =>
                    /\ verdict.risk >= DetectionThreshold
                    /\ \A m \in Elements(ms) : verdict.risk >= 100 * m.score
<1> DEFINE fused == Fuse(ms, result)
           type == Classify(fused, ms, result, f)
           risk == Floor(fused, type, ms)
           sources == DetectionSources(ms, result)
           confidence == Confidence(ms, result, Cardinality(sources))
           verdict == Judge(f, ms, result)
<1>1. /\ verdict.type = type /\ verdict.risk = risk /\ verdict.confidence = confidence
      /\ verdict.severity = Severity(risk, confidence) /\ verdict.sources = sources
  BY DEF Judge
<1>2. /\ verdict.isThreat \in BOOLEAN
      /\ verdict.isThreat <=> (risk >= DetectionThreshold /\ type # "benign")
  <2>1. verdict.isThreat = (risk >= DetectionThreshold /\ type # "benign")
    BY DEF Judge
  <2> HIDE DEF verdict, risk, type
  <2> QED
    BY <2>1
<1>3. fused \in Risks /\ (ms = <<>> => fused = result.blended)
  BY FuseTyped
<1>4. confidence \in Risks
  BY SourcesCounted, ConfidenceTyped
<1>5. ms = <<>> => type \in {"benign", "suspicious_traffic"}
  BY LabelledByModels
<1>6. ms # <<>> => /\ RuleLabel(ms) \in RuleTypes
                   /\ type = VetLabel(RuleLabel(ms), ms, f)
  BY LabelledByRules
<1>7. ms # <<>> => type \in RuleTypes \cup {"benign", "suspicious_traffic"}
  BY <1>6, VettedIs
<1>8. IsNoise(f) => type = "benign"
  BY NoiseIsBenign
<1> HIDE DEF fused, type, confidence
<1>9. /\ risk \in Risks
      /\ (ms # <<>> /\ type \in RuleTypes) =>
           /\ risk >= DetectionThreshold
           /\ \A m \in Elements(ms) : risk >= 100 * m.score
      /\ (ms = <<>> \/ type \in {"benign", "suspicious_traffic"}) => risk = fused
  BY <1>3, FloorLifts
<1> HIDE DEF risk, verdict
<1>10. verdict.type \in RuleTypes \cup {"benign", "suspicious_traffic"}
  BY <1>1, <1>5, <1>7
<1> QED
  BY <1>1, <1>2, <1>3, <1>4, <1>5, <1>6, <1>8, <1>9, <1>10 DEF verdict

\* A flood label comes from a flood rule: its match won, or a slowloris match
\* explains the spread of sources.
LEMMA FloodIsMatched ==
    ASSUME NEW ms, Matched(ms), ms # <<>>, RuleLabel(ms) = "dos"
    PROVE  \E m \in Elements(ms) : m.type = "dos"
<1> DEFINE winner == Best(ms).type
<1>1. winner = "dos" \/ IsSlowlorisSpread(ms)
  BY DEF RuleLabel, RefineLabel
<1>2. CASE winner = "dos"
  BY <1>2, BestIsMatch
<1>3. CASE IsSlowlorisSpread(ms)
  BY <1>3, MatchIs DEF IsSlowlorisSpread
<1> QED
  BY <1>1, <1>2, <1>3

\* Inside the segment, volume alone is no flood and nothing is exfiltration.
LEMMA InternalVetted ==
    ASSUME NEW ms, Matched(ms), ms # <<>>, NEW f, IsInternal(f)
    PROVE  LET vetted == VetLabel(RuleLabel(ms), ms, f)
           IN  /\ vetted # "data_exfiltration"
               /\ vetted = "dos" =>
                    \E m \in Elements(ms) :
                        m.type = "dos" /\ m.id \notin VolumeRules
<1> DEFINE dosRules == {m.id : m \in {x \in Elements(ms) : x.type = "dos"}}
           label == RuleLabel(ms)
           vetted == VetLabel(label, ms, f)
<1>1. \/ vetted = "benign" \/ vetted = "suspicious_traffic"
      \/ /\ vetted = label /\ label # "data_exfiltration"
         /\ label = "dos" => dosRules = {} \/ ~(dosRules \subseteq VolumeRules)
  BY DEF VetLabel
<1>2. ASSUME vetted = "dos"
      PROVE  \E m \in Elements(ms) : m.type = "dos" /\ m.id \notin VolumeRules
  <2>1. label = "dos" /\ (dosRules = {} \/ ~(dosRules \subseteq VolumeRules))
    BY <1>1, <1>2
  <2>2. PICK m \in Elements(ms) : m.type = "dos"
    BY <2>1, FloodIsMatched
  <2>3. m.id \in dosRules
    BY <2>2
  <2>4. PICK id \in dosRules : id \notin VolumeRules
    BY <2>1, <2>3
  <2> QED
    BY <2>4
<1> HIDE DEF vetted
<1> QED
  BY <1>1, <1>2 DEF vetted

\* From the threshold on at which the bands fit, a risk that alerts has a severity.
LEMMA SeverityAbove ==
    ASSUME NEW risk \in Risks, NEW confidence \in Risks, risk >= 5715
    PROVE  Severity(risk, confidence) # "info"
<1> DEFINE factor == 7000 + (3 * confidence) \div 10
           effective == (risk * factor) \div 10000
<1>1. risk \in Nat /\ confidence \in Nat
  BY RisksAreNumbers
<1>2. factor \in Nat /\ factor >= 7000
  BY <1>1
<1> HIDE DEF factor
<1>3. risk * factor \in Nat /\ risk * factor >= 40000000
  <2>1. \A r, k \in Nat : r * k \in Nat
    OBVIOUS
  <2>2. PICK r \in Nat : risk = 5715 + r
    <3>1. risk - 5715 \in Nat /\ risk = 5715 + (risk - 5715)
      BY <1>1
    <3> QED
      BY <3>1
  <2>3. risk * factor = 5715 * factor + r * factor
    BY <1>2, <2>2
  <2>4. r * factor \in Nat /\ 5715 * factor >= 40000000
    BY <1>2, <2>1
  <2> QED
    BY <1>2, <2>3, <2>4
<1>4. \A x \in Nat : x >= 40000000 => x \div 10000 >= 4000
  OBVIOUS
<1>5. effective >= 4000
  BY <1>3, <1>4
<1>6. Severity(risk, confidence) =
        IF effective >= 9500 THEN "critical"
        ELSE IF effective >= 8000 THEN "high"
        ELSE IF effective >= 6000 THEN "medium"
        ELSE IF effective >= 4000 THEN "low"
        ELSE "info"
  BY DEF Severity, factor
<1> HIDE DEF effective
<1> QED
  BY <1>5, <1>6

\* The sources of a risk above one half: a rule, a model or an anomaly.
LEMMA SourceNamed ==
    ASSUME NEW ms, Matched(ms), NEW result, Answer(result),
           ms # <<>> \/ result.blended > 5000
    PROVE  DetectionSources(ms, result) # {}
<1>1. CASE ms # <<>>
  <2>1. PICK i \in DOMAIN ms : TRUE
    BY <1>1, NothingMatched
  <2>2. ms[i].category \in Categories(ms)
    BY DEF Categories, Elements
  <2> QED
    BY <2>2 DEF DetectionSources
<1>2. CASE result.blended > 5000
  <2>1. CASE result.probability > 50
    <3>1. "supervised_ml" \in DetectionSources(ms, result)
      BY <2>1 DEF DetectionSources
    <3> QED
      BY <3>1
  <2>2. CASE result.isAnomaly
    <3>1. "anomaly_detection" \in DetectionSources(ms, result)
      BY <2>2 DEF DetectionSources
    <3> QED
      BY <3>1
  <2>3. result.probability > 50 \/ result.isAnomaly
    BY <1>2 DEF Answer
  <2> QED
    BY <2>1, <2>2, <2>3
<1> QED
  BY <1>1, <1>2
-----------------------------------------------------------------------------
(* The verdict on a flow follows from what the stages before handed on.    *)

VerdictInv ==
    /\ progress \in {"extracted", "rules", "ml", "decided"}
    /\ flow \in Judged
    /\ matches = IF progress = "extracted" THEN <<>> ELSE RuleMatches(flow)
    /\ ml \in MLResults \cup {NoML}
    /\ decision = IF progress = "decided" THEN Judge(flow, matches, ml)
                  ELSE Undecided

\* Every verdict is the engine's on the rule matches of the flow and an answer of
\* the models, whether they ran, failed or were skipped.
THEOREM VerdictsFollow == VerdictSpec => []VerdictInv
<1>1. VerdictInit => VerdictInv
  BY DEF VerdictInit, VerdictInv
<1>2. ASSUME VerdictInv, [VerdictNext]_verdictVars PROVE VerdictInv'
  <2>1. CASE EvaluateRules
    BY <1>2, <2>1 DEF VerdictInv, EvaluateRules
  <2>2. CASE SkipML
    BY <1>2, <2>2 DEF VerdictInv, SkipML
  <2>3. CASE RunML
    BY <1>2, <2>3 DEF VerdictInv, RunML
  <2>4. CASE ReachVerdict
    BY <1>2, <2>4 DEF VerdictInv, ReachVerdict
  <2>5. CASE UNCHANGED verdictVars
    BY <1>2, <2>5 DEF VerdictInv, verdictVars
  <2> QED
    BY <1>2, <2>1, <2>2, <2>3, <2>4, <2>5 DEF VerdictNext
<1> QED
  BY <1>1, <1>2, PTL DEF VerdictSpec

\* What the invariant says of the matches and the answer, under the assumption on
\* the constants.
LEMMA VerdictInputs ==
    ASSUME VerdictInv
    PROVE  /\ Matched(matches) /\ Answer(ml) /\ DetectionThreshold \in Risks
           /\ \A result \in MLResults : Answer(result)
<1>1. /\ Probabilities \subseteq 0 .. 100 /\ AnomalyScores \subseteq 0 .. 100
      /\ DetectionThreshold \in Risks
      /\ \A f \in Judged : Measured(f)
  BY DecisionAssumption DEF Risks, Measured
<1>2. \A result \in MLResults \cup {NoML} : Answer(result)
  BY <1>1, MLAnswers
<1>3. Matched(<<>>)
  <2>1. DOMAIN <<>> = {}
    OBVIOUS
  <2> QED
    BY <2>1, FS_EmptySet DEF Matched
<1>4. Matched(RuleMatches(flow))
  BY <1>1, RulesMatch DEF VerdictInv
<1> QED
  BY <1>1, <1>2, <1>3, <1>4 DEF VerdictInv

\* What holds once a verdict is out.
LEMMA OnceDecided ==
    ASSUME VerdictInv, Decided
    PROVE  decision = Judge(flow, matches, ml)
  BY DEF VerdictInv, Decided

\* Types: every rule's score, the fused and floored risk and the confidence stay
\* within their scales, and every label is one of the known threat types.
THEOREM VerdictTyped == VerdictSpec => []VerdictTypeOK
<1>1. ASSUME VerdictInv PROVE VerdictTypeOK
  <2>1. Matched(matches) /\ Answer(ml) /\ DetectionThreshold \in Risks
    BY <1>1, VerdictInputs
  <2>2. RuleTypes \subseteq ThreatTypes
        /\ {"benign", "suspicious_traffic"} \subseteq ThreatTypes
    BY DEF RuleTypes, ThreatTypes
  <2>3. \A m \in Elements(matches) : m.type \in ThreatTypes /\ m.score \in 1 .. 100
    BY <2>1, <2>2, MatchIs
  <2>4. /\ decision.type \in ThreatTypes /\ decision.risk \in Risks
        /\ decision.confidence \in Risks
    <3>1. CASE progress = "decided"
      <4>1. decision = Judge(flow, matches, ml)
        BY <1>1, <3>1 DEF VerdictInv
      <4> QED
        BY <2>1, <2>2, <4>1, JudgeIs
    <3>2. CASE progress # "decided"
      <4>1. decision = Undecided
        BY <1>1, <3>2 DEF VerdictInv
      <4> QED
        BY <2>2, <4>1 DEF Undecided, Risks
    <3> QED
      BY <3>1, <3>2
  <2>5. progress \in {"extracted", "rules", "ml", "decided"}
        /\ ml \in MLResults \cup {NoML}
    BY <1>1 DEF VerdictInv
  <2> QED
    BY <2>3, <2>4, <2>5, Zenon DEF VerdictTypeOK
<1> QED
  BY <1>1, VerdictsFollow, PTL

\* Every risk goes back to the models, to a matched rule, or to the threshold a
\* technique is lifted to, whatever rules match and whatever the models answer.
THEOREM RisksAreEarned == VerdictSpec => []RiskIsEarned
<1>1. ASSUME VerdictInv PROVE RiskIsEarned
  <2> SUFFICES ASSUME Decided
               PROVE  \/ decision.risk <= ml.blended
                      \/ \E m \in Elements(matches) : decision.risk <= 100 * m.score
                      \/ /\ decision.risk = DetectionThreshold
                         /\ matches # <<>>
                         /\ decision.type \notin {"benign", "suspicious_traffic"}
    BY DEF RiskIsEarned
  <2> DEFINE fused == Fuse(matches, ml)
  <2>1. Matched(matches) /\ Answer(ml) /\ DetectionThreshold \in Risks
    BY <1>1, VerdictInputs
  <2>2. decision.risk = Floor(fused, decision.type, matches)
    BY <1>1, OnceDecided DEF Judge
  <2>3. fused \in Risks
    BY <2>1, FuseTyped
  <2>4. fused <= ml.blended \/ \E m \in Elements(matches) : fused <= 100 * m.score
    BY <2>1, FusedIsEarned
  <2>5. \A m \in Elements(matches) : 100 * m.score <= 100 * m.score
    BY <2>1, MatchIs
  <2> HIDE DEF fused
  <2>6. \/ decision.risk = fused
        \/ \E m \in Elements(matches) : decision.risk = 100 * m.score
        \/ /\ decision.risk = DetectionThreshold
           /\ matches # <<>> /\ decision.type \notin {"benign", "suspicious_traffic"}
    BY <2>1, <2>2, <2>3, FloorIs
  <2> QED
    BY <2>4, <2>5, <2>6
<1> QED
  BY <1>1, VerdictsFollow, PTL

\* Whatever fusion dilutes and refinement renames, a technique on a flow across the
\* border alerts, at least as strong as its rule.
THEOREM BorderTechniquesAlert == VerdictSpec => []BorderTechniquesSurface
<1>1. ASSUME VerdictInv PROVE BorderTechniquesSurface
  <2> SUFFICES ASSUME Decided, ~IsNoise(flow), ~IsInternal(flow),
                      NEW m \in Elements(Specific(matches))
               PROVE  decision.isThreat /\ decision.risk >= 100 * m.score
    BY DEF BorderTechniquesSurface
  <2>1. Matched(matches) /\ Answer(ml) /\ DetectionThreshold \in Risks
    BY <1>1, VerdictInputs
  <2>2. m \in Elements(matches)
    BY <2>1, AllSpecific
  <2>3. matches # <<>>
    BY <2>2, SumOfNothing
  <2>4. decision = Judge(flow, matches, ml)
    BY <1>1, OnceDecided
  <2>5. decision.type = RuleLabel(matches) /\ decision.type \in RuleTypes
    <3>1. decision.type = VetLabel(RuleLabel(matches), matches, flow)
      BY <2>1, <2>3, <2>4, JudgeIs
    <3>2. RuleLabel(matches) \in RuleTypes
      BY <2>1, <2>3, LabelledByRules
    <3> QED
      BY <3>1, <3>2, VettedIs
  <2>6. /\ decision.risk >= DetectionThreshold
        /\ decision.risk >= 100 * m.score
        /\ decision.isThreat <=> (decision.risk >= DetectionThreshold /\ decision.type # "benign")
    BY <2>1, <2>2, <2>3, <2>4, <2>5, JudgeIs
  <2>7. decision.type # "benign"
    BY <2>5 DEF RuleTypes
  <2> QED
    BY <2>6, <2>7
<1> QED
  BY <1>1, VerdictsFollow, PTL

\* Noise never alerts; inside the segment nothing reads as exfiltration, and as a
\* flood only what matched more than a rule of volume.
THEOREM SegmentSpared == VerdictSpec => []SegmentTrafficSpared
<1>1. ASSUME VerdictInv PROVE SegmentTrafficSpared
  <2> SUFFICES ASSUME Decided
               PROVE  /\ IsNoise(flow) => ~decision.isThreat
                      /\ IsInternal(flow) =>
                           /\ decision.type # "data_exfiltration"
                           /\ decision.type = "dos" =>
                                \E m \in TechniqueMatches :
                                    m.type = "dos" /\ m.id \notin VolumeRules
    BY DEF SegmentTrafficSpared
  <2>1. Matched(matches) /\ Answer(ml) /\ DetectionThreshold \in Risks
    BY <1>1, VerdictInputs
  <2>2. decision = Judge(flow, matches, ml)
    BY <1>1, OnceDecided
  <2>3. ASSUME IsNoise(flow) PROVE ~decision.isThreat
    <3>1. decision.type = "benign"
      BY <2>1, <2>2, <2>3, JudgeIs
    <3>2. decision.isThreat <=> (decision.risk >= DetectionThreshold /\ decision.type # "benign")
      BY <2>1, <2>2, JudgeIs
    <3> QED
      BY <3>1, <3>2
  <2>4. ASSUME IsInternal(flow)
        PROVE  /\ decision.type # "data_exfiltration"
               /\ decision.type = "dos" =>
                    \E m \in TechniqueMatches :
                        m.type = "dos" /\ m.id \notin VolumeRules
    <3>1. CASE matches = <<>>
      <4>1. decision.type \in {"benign", "suspicious_traffic"}
        BY <2>1, <2>2, <3>1, JudgeIs
      <4> QED
        BY <4>1
    <3>2. CASE matches # <<>>
      <4>1. decision.type = VetLabel(RuleLabel(matches), matches, flow)
        BY <2>1, <2>2, <3>2, JudgeIs
      <4>2. "dos" \in Techniques
        BY DEF Techniques
      <4> QED
        BY <2>1, <2>4, <3>2, <4>1, <4>2, InternalVetted DEF TechniqueMatches
    <3> QED
      BY <3>1, <3>2
  <2> QED
    BY <2>3, <2>4
<1> QED
  BY <1>1, VerdictsFollow, PTL

LEMMA AlertExplained ==
    ASSUME NEW ms, Matched(ms), NEW result, Answer(result), NEW f,
           DetectionThreshold \in Risks, DetectionThreshold >= 5715,
           Judge(f, ms, result).isThreat
    PROVE  LET verdict == Judge(f, ms, result)
           IN  verdict.sources # {} /\ verdict.severity # "info"
<1> DEFINE verdict == Judge(f, ms, result)
<1>1. /\ verdict.risk \in Risks /\ verdict.confidence \in Risks
      /\ verdict.severity = Severity(verdict.risk, verdict.confidence)
      /\ verdict.sources = DetectionSources(ms, result)
      /\ verdict.risk >= DetectionThreshold
      /\ ms = <<>> => verdict.risk = result.blended
  BY JudgeIs
<1> HIDE DEF verdict
<1>2. verdict.risk \in Nat /\ DetectionThreshold \in Nat
  BY <1>1, RisksAreNumbers
<1>3. verdict.risk >= 5715
  BY <1>1, <1>2
<1>4. verdict.severity # "info"
  BY <1>1, <1>3, SeverityAbove
<1>5. ms # <<>> \/ result.blended > 5000
  BY <1>1, <1>2, <1>3
<1>6. verdict.sources # {}
  BY <1>1, <1>5, SourceNamed
<1> QED
  BY <1>4, <1>6 DEF verdict

\* Where the alert threshold lies above one half and high enough for the bands of
\* severity, as the default of 0.60 does, no threat is without source or severity.
\* The four files fit from 0.5715 on.
THEOREM ThreatsExplained ==
    ASSUME DetectionThreshold >= 5715
    PROVE  VerdictSpec => []ThreatIsExplained
<1>1. ASSUME VerdictInv PROVE ThreatIsExplained
  <2> SUFFICES ASSUME Decided, decision.isThreat
               PROVE  decision.sources # {} /\ decision.severity # "info"
    BY DEF ThreatIsExplained
  <2>1. Matched(matches) /\ Answer(ml) /\ DetectionThreshold \in Risks
    BY <1>1, VerdictInputs
  <2>2. decision = Judge(flow, matches, ml)
    BY <1>1, OnceDecided
  <2> QED
    BY <2>1, <2>2, AlertExplained
<1> QED
  BY <1>1, VerdictsFollow, PTL

\* A label and an alert that do not depend on the models.
LEMMA ModelsDoNotMatter ==
    ASSUME NEW ms, Matched(ms), ms # <<>>, DetectionThreshold \in Risks,
           NEW one, Answer(one), NEW other, Answer(other),
           NEW f, ~IsInternal(f)
    PROVE  LET skipped == Judge(f, ms, one)
               full == Judge(f, ms, other)
           IN  skipped.type = full.type /\ skipped.isThreat = full.isThreat
<1> DEFINE label == VetLabel(RuleLabel(ms), ms, f)
           J(result) == Judge(f, ms, result)
<1>1. ASSUME NEW result, Answer(result)
      PROVE  /\ J(result).type = label
             /\ J(result).isThreat \in BOOLEAN
             /\ J(result).isThreat <=> ~IsNoise(f)
  <2>1. /\ J(result).type = label /\ J(result).isThreat \in BOOLEAN
        /\ J(result).isThreat <=> (J(result).risk >= DetectionThreshold /\ label # "benign")
        /\ label \in RuleTypes => J(result).risk >= DetectionThreshold
    BY <1>1, JudgeIs
  <2>2. IsNoise(f) => label = "benign"
    BY LabelledByRules, VettedIs
  <2>3. ~IsNoise(f) => label \in RuleTypes
    BY LabelledByRules, VettedIs
  <2>4. label \in RuleTypes => label # "benign"
    BY DEF RuleTypes
  <2> HIDE DEF label, J
  <2> QED
    BY <2>1, <2>2, <2>3, <2>4
<1>2. /\ J(one).type = J(other).type
      /\ J(one).isThreat \in BOOLEAN /\ J(other).isThreat \in BOOLEAN
      /\ J(one).isThreat <=> J(other).isThreat
  <2> HIDE DEF label, J
  <2> QED
    BY <1>1
<1> HIDE DEF J
<1>3. J(one).isThreat = J(other).isThreat
  BY <1>2
<1> QED
  BY <1>2, <1>3 DEF J

\* A flow that skips the models gets the label and the alert that any answer of
\* them would have led to, unless it stays inside the segment.
THEOREM FastPathSound == VerdictSpec => []FastPathAgrees
<1>1. ASSUME VerdictInv PROVE FastPathAgrees
  <2> SUFFICES ASSUME FastPath(matches), ~IsInternal(flow),
                      NEW r \in MLResults
               PROVE  LET skipped == Judge(flow, matches, ml)
                          full == Judge(flow, matches, r)
                      IN  skipped.type = full.type /\ skipped.isThreat = full.isThreat
    BY DEF FastPathAgrees
  <2>1. /\ Matched(matches) /\ Answer(ml) /\ DetectionThreshold \in Risks
        /\ Answer(r)
    BY <1>1, VerdictInputs
  <2>2. matches # <<>>
    BY SumOfNothing DEF FastPath
  <2> QED
    BY <2>1, <2>2, ModelsDoNotMatter
<1> QED
  BY <1>1, VerdictsFollow, PTL
=============================================================================
