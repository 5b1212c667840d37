------------------------ MODULE AlertPersistence_proofs ------------------------
(* Proofs about AlertPersistence, for any alerts and bounds, with or without    *)
(* failures and crashes.                                                        *)
EXTENDS AlertPersistence, TLAPS

-----------------------------------------------------------------------------
(* The inductive invariant *)

\* An alert that has not been raised is nowhere.
UnraisedIsNowhere ==
    \A a \in Alerts : handler[a] = "none" => a \notin ToSet(queue) \cup {inHand} \cup rows

\* The consumer stores a path only after the copy, in a row it has found.
PathsAreEarned ==
    \A a \in Alerts : /\ handler[a] \in {"select", "update"} => a \in files
                      /\ handler[a] = "update" => a \in rows

\* The worker saw the path in a context, and it inserts the alert row before the
\* detection row.
WriterIsHonest ==
    /\ readPath => inHand \in files
    /\ worker = "detection" => inHand \in rows

Safe == WrittenOnce /\ NothingForgotten /\ PathMeansFile

IInv == TypeOK /\ Safe /\ UnraisedIsNowhere /\ PathsAreEarned /\ WriterIsHonest

-----------------------------------------------------------------------------
(* Queues without repeats *)

LEMMA AppendMembers ==
    ASSUME NEW S, NEW q \in Seq(S), NEW e \in S, IsInjective(q), e \notin ToSet(q)
    PROVE  /\ Append(q, e) \in Seq(S) /\ Len(Append(q, e)) = Len(q) + 1
           /\ ToSet(Append(q, e)) = ToSet(q) \cup {e}
           /\ IsInjective(Append(q, e))
<1>1. Append(q, e) \in Seq(S) /\ Len(Append(q, e)) = Len(q) + 1
  OBVIOUS
<1>2. DOMAIN q = 1..Len(q) /\ DOMAIN Append(q, e) = 1..(Len(q) + 1) /\ Len(q) \in Nat
  OBVIOUS
<1>3. /\ \A i \in 1..Len(q) : Append(q, e)[i] = q[i]
      /\ Append(q, e)[Len(q) + 1] = e
  OBVIOUS
<1>4. ToSet(Append(q, e)) = ToSet(q) \cup {e}
  BY <1>2, <1>3 DEF ToSet
<1>5. IsInjective(Append(q, e))
  BY <1>2, <1>3 DEF ToSet, IsInjective
<1> QED BY <1>1, <1>4, <1>5

LEMMA TailMembers ==
    ASSUME NEW S, NEW q \in Seq(S), q # <<>>, IsInjective(q)
    PROVE  /\ Tail(q) \in Seq(S) /\ Len(Tail(q)) = Len(q) - 1
           /\ Head(q) \in S /\ Head(q) \in ToSet(q)
           /\ ToSet(Tail(q)) = ToSet(q) \ {Head(q)}
           /\ IsInjective(Tail(q))
<1>1. /\ Tail(q) \in Seq(S) /\ Len(Tail(q)) = Len(q) - 1 /\ Head(q) \in S
      /\ Len(q) \in Nat /\ Len(q) >= 1
  OBVIOUS
<1>2. /\ DOMAIN q = 1..Len(q) /\ DOMAIN Tail(q) = 1..(Len(q) - 1)
      /\ Head(q) = q[1]
      /\ \A i \in 1..(Len(q) - 1) : Tail(q)[i] = q[i + 1]
  BY <1>1
<1>3. Head(q) \in ToSet(q)
  BY <1>1, <1>2 DEF ToSet
<1>4. ASSUME NEW i \in DOMAIN Tail(q)
      PROVE  Tail(q)[i] \in ToSet(q) \ {Head(q)}
  <2>1. i + 1 \in DOMAIN q /\ i + 1 # 1 /\ 1 \in DOMAIN q
    BY <1>1, <1>2, <1>4
  <2> QED BY <1>2, <1>4, <2>1 DEF ToSet, IsInjective
<1>5. ASSUME NEW i \in DOMAIN q, q[i] # Head(q)
      PROVE  q[i] \in ToSet(Tail(q))
  <2>1. i - 1 \in DOMAIN Tail(q) /\ Tail(q)[i - 1] = q[i]
    BY <1>1, <1>2, <1>5
  <2> QED BY <2>1 DEF ToSet
<1>6. ToSet(Tail(q)) = ToSet(q) \ {Head(q)}
  <2>1. ToSet(Tail(q)) \subseteq ToSet(q) \ {Head(q)}
    BY <1>4 DEF ToSet
  <2>2. ToSet(q) \ {Head(q)} \subseteq ToSet(Tail(q))
    BY <1>5 DEF ToSet
  <2> QED BY <2>1, <2>2
<1>7. IsInjective(Tail(q))
  BY <1>1, <1>2 DEF IsInjective
<1> QED BY <1>1, <1>3, <1>6, <1>7

\* The live list is cut to its bound.
LEMMA NewestKept ==
    ASSUME NEW S, NEW s \in Seq(S), NEW e \in S, RecentMax \in Nat
    PROVE  KeepNewest(<<e>> \o s) \in Seq(S) /\ Len(KeepNewest(<<e>> \o s)) <= RecentMax
<1> DEFINE t == <<e>> \o s
           m == IF Len(t) < RecentMax THEN Len(t) ELSE RecentMax
<1>1. t \in Seq(S) /\ Len(t) \in Nat
  OBVIOUS
<1>2. m \in Nat /\ m <= Len(t) /\ m <= RecentMax
  BY <1>1
<1>3. SubSeq(t, 1, m) \in Seq(S) /\ Len(SubSeq(t, 1, m)) = m
  <2> HIDE DEF t, m
  <2> QED BY <1>1, <1>2
<1> QED BY <1>2, <1>3 DEF KeepNewest

-----------------------------------------------------------------------------
(* The initial state and the steps of the consumers *)

LEMMA InitSafe == Init => IInv
<1> SUFFICES ASSUME Init PROVE IInv
  OBVIOUS
<1>1. TypeOK
  <2>1. /\ recent \in Seq(Alerts) /\ Len(recent) <= RecentMax
        /\ queue \in Seq(Alerts) /\ Len(queue) <= QueueMax
    BY PersistenceAssumption DEF Init
  <2>2. handler \in [Alerts -> {"none", "evidence", "select", "update", "done"}]
    BY DEF Init
  <2> QED BY <2>1, <2>2 DEF Init, TypeOK
<1>2. ToSet(queue) = {} /\ IsInjective(queue)
  BY DEF Init, ToSet, IsInjective
<1>3. \A a \in Alerts : handler[a] = "none" /\ a # inHand
  BY PersistenceAssumption DEF Init
<1> QED
  BY <1>1, <1>2, <1>3 DEF Init, IInv, Safe, WrittenOnce, NothingForgotten, PathMeansFile,
     UnraisedIsNowhere, PathsAreEarned, WriterIsHonest

LEMMA RaiseSafe == ASSUME IInv, NEW a \in Alerts, Raise(a) PROVE IInv'
<1> USE DEF IInv, Raise, Step, disk
<1>1. /\ handler' = [handler EXCEPT ![a] = "evidence"] /\ handler[a] = "none"
      /\ handler \in [Alerts -> {"none", "evidence", "select", "update", "done"}]
  BY DEF TypeOK
<1>2. \A b \in Alerts : handler'[b] = IF b = a THEN "evidence" ELSE handler[b]
  BY <1>1
<1>3. a \notin ToSet(queue) \cup {inHand} \cup rows
  BY <1>1 DEF UnraisedIsNowhere
<1>4. /\ queue' \in Seq(Alerts) /\ Len(queue') <= QueueMax /\ IsInjective(queue')
      /\ \/ ToSet(queue') = ToSet(queue) \cup {a} /\ abandoned' = abandoned
         \/ ToSet(queue') = ToSet(queue) /\ abandoned' = abandoned \cup {a}
  <2>1. queue \in Seq(Alerts) /\ IsInjective(queue) /\ Len(queue) <= QueueMax
    BY DEF TypeOK, Safe, WrittenOnce
  <2>2. CASE Len(queue) < QueueMax
    <3>1. queue' = Append(queue, a) /\ abandoned' = abandoned
      BY <2>2
    <3>2. /\ Append(queue, a) \in Seq(Alerts) /\ Len(Append(queue, a)) = Len(queue) + 1
          /\ ToSet(Append(queue, a)) = ToSet(queue) \cup {a}
          /\ IsInjective(Append(queue, a))
      BY <1>3, <2>1, AppendMembers
    <3>3. Len(queue) + 1 <= QueueMax
      BY <2>1, <2>2, PersistenceAssumption
    <3> QED BY <3>1, <3>2, <3>3
  <2>3. CASE ~(Len(queue) < QueueMax)
    BY <2>1, <2>3
  <2> QED BY <2>2, <2>3
<1>5. recent' \in Seq(Alerts) /\ Len(recent') <= RecentMax
  BY NewestKept, PersistenceAssumption DEF TypeOK
<1>6. TypeOK'
  BY <1>1, <1>4, <1>5 DEF TypeOK
<1>7. WrittenOnce'
  BY <1>3, <1>4 DEF Safe, WrittenOnce
<1>8. NothingForgotten'
  BY <1>2, <1>4 DEF Safe, NothingForgotten
<1>9. PathMeansFile'
  BY DEF Safe, PathMeansFile
<1>10. UnraisedIsNowhere'
  BY <1>2, <1>4 DEF UnraisedIsNowhere
<1>11. PathsAreEarned' /\ WriterIsHonest'
  BY <1>2 DEF PathsAreEarned, WriterIsHonest
<1> QED BY <1>6, <1>7, <1>8, <1>9, <1>10, <1>11 DEF Safe

\* A consumer past Raise changes its own place, and the files or the row's path.
LEMMA ConsumerSafe ==
    ASSUME IInv, NEW a \in Alerts,
           Preserve(a) \/ NoEvidence(a) \/ Select(a) \/ Update(a) \/ UpdateFails(a)
    PROVE  IInv'
<1> USE DEF IInv, Step, disk
<1>1. PICK s \in {"select", "update", "done"} :
          /\ handler' = [handler EXCEPT ![a] = s] /\ handler[a] # "none"
          /\ s = "select" => a \in files'
          /\ s = "update" => a \in rows /\ a \in files
  <2>1. CASE Preserve(a)
    BY <2>1 DEF Preserve
  <2>2. CASE NoEvidence(a)
    BY <2>2 DEF NoEvidence
  <2>3. CASE Select(a)
    BY <2>3 DEF Select, PathsAreEarned
  <2>4. CASE Update(a)
    BY <2>4 DEF Update
  <2>5. CASE UpdateFails(a)
    BY <2>5 DEF UpdateFails
  <2> QED BY <2>1, <2>2, <2>3, <2>4, <2>5
<1>2. /\ handler \in [Alerts -> {"none", "evidence", "select", "update", "done"}]
      /\ \A b \in Alerts : handler'[b] = IF b = a THEN s ELSE handler[b]
  BY <1>1 DEF TypeOK
<1>3. /\ UNCHANGED <<recent, queue, worker, inHand, readPath, rows, detections, abandoned>>
      /\ files \subseteq files' /\ files' \subseteq files \cup {a}
      /\ ctxPath \cup rowPath \subseteq files => ctxPath' \cup rowPath' \subseteq files'
      /\ ctxPath' \subseteq ctxPath \cup {a} /\ rowPath' \subseteq rowPath \cup (rows \cap {a})
  <2>1. CASE Preserve(a)
    BY <2>1 DEF Preserve
  <2>2. CASE NoEvidence(a)
    BY <2>2 DEF NoEvidence
  <2>3. CASE Select(a)
    BY <2>3 DEF Select
  <2>4. CASE Update(a)
    <3>1. a \in rows /\ a \in files
      BY <2>4 DEF Update, PathsAreEarned
    <3> QED BY <2>4, <3>1 DEF Update
  <2>5. CASE UpdateFails(a)
    BY <2>5 DEF UpdateFails
  <2> QED BY <2>1, <2>2, <2>3, <2>4, <2>5
<1>4. TypeOK'
  BY <1>1, <1>2, <1>3 DEF TypeOK
<1>5. WrittenOnce'
  BY <1>3 DEF Safe, WrittenOnce
<1>6. NothingForgotten' /\ UnraisedIsNowhere'
  BY <1>1, <1>2, <1>3 DEF Safe, NothingForgotten, UnraisedIsNowhere
<1>7. PathMeansFile'
  BY <1>3 DEF Safe, PathMeansFile
<1>8. PathsAreEarned' /\ WriterIsHonest'
  BY <1>1, <1>2, <1>3 DEF PathsAreEarned, WriterIsHonest
<1> QED BY <1>4, <1>5, <1>6, <1>7, <1>8 DEF Safe

-----------------------------------------------------------------------------
(* The steps of the worker, and restarts *)

LEMMA TakeSafe == ASSUME IInv, Take PROVE IInv'
<1> USE DEF IInv, Take, disk
<1>1. queue \in Seq(Alerts) /\ IsInjective(queue) /\ queue # <<>>
  BY DEF TypeOK, Safe, WrittenOnce
<1>2. /\ queue' \in Seq(Alerts) /\ Len(queue') = Len(queue) - 1
      /\ inHand' \in Alerts /\ inHand' \in ToSet(queue)
      /\ ToSet(queue') = ToSet(queue) \ {inHand'}
      /\ IsInjective(queue')
  BY <1>1, TailMembers
<1>3. inHand = NoAlert /\ NoAlert \notin Alerts
  BY PersistenceAssumption DEF TypeOK
<1>4. TypeOK'
  <2>1. Len(queue') <= QueueMax
    BY <1>1, <1>2, PersistenceAssumption DEF TypeOK
  <2> QED BY <1>2, <1>3, <2>1 DEF TypeOK
<1>5. WrittenOnce'
  BY <1>2 DEF Safe, WrittenOnce
<1>6. NothingForgotten'
  BY <1>2, <1>3 DEF Safe, NothingForgotten
<1>7. PathMeansFile'
  BY DEF Safe, PathMeansFile
<1>8. UnraisedIsNowhere' /\ PathsAreEarned'
  BY <1>2, <1>3 DEF UnraisedIsNowhere, PathsAreEarned
<1>9. WriterIsHonest'
  BY DEF Safe, PathMeansFile, WriterIsHonest
<1> QED BY <1>4, <1>5, <1>6, <1>7, <1>8, <1>9 DEF Safe

\* The worker goes idle, fails or stops: it lets go of its alert, which is in the
\* table or given up on, and only the rows and their paths may have changed.
LetGo ==
    /\ inHand' = NoAlert /\ readPath' = FALSE
    /\ UNCHANGED <<recent, ctxPath, handler, queue, files>>
    /\ rows' \in {rows, rows \cup ({inHand} \cap Alerts)}
    /\ rowPath' \subseteq rowPath \cup (IF readPath THEN rows' \cap {inHand} ELSE {})
    /\ detections' \subseteq rows' /\ rowPath' \subseteq rows'
    /\ abandoned \subseteq abandoned' /\ abandoned' \subseteq Alerts
    /\ inHand \in Alerts => inHand \in rows' \cup abandoned'

LEMMA LetGoSafe == ASSUME IInv, LetGo, worker' \in {"idle", "stopped"} PROVE IInv'
<1> USE DEF IInv, LetGo
<1>1. NoAlert \notin Alerts
  BY PersistenceAssumption
<1>2. TypeOK'
  BY <1>1 DEF TypeOK
<1>3. WrittenOnce'
  <2>1. ToSet(queue) \subseteq Alerts
    BY DEF TypeOK, ToSet
  <2> QED BY <1>1, <2>1 DEF Safe, WrittenOnce
<1>4. NothingForgotten'
  BY <1>1 DEF Safe, NothingForgotten
<1>5. PathMeansFile'
  BY DEF Safe, PathMeansFile, WriterIsHonest
<1>6. UnraisedIsNowhere' /\ PathsAreEarned'
  BY <1>1 DEF UnraisedIsNowhere, PathsAreEarned
<1>7. WriterIsHonest'
  BY DEF WriterIsHonest
<1> QED BY <1>2, <1>3, <1>4, <1>5, <1>6, <1>7 DEF Safe

LEMMA InsertSafe == ASSUME IInv, Insert PROVE IInv'
<1> USE DEF IInv, Insert, WriteRow
<1>1. inHand \in Alerts
  BY DEF TypeOK
<1>2. /\ rows' = rows \cup {inHand}
      /\ rowPath' \subseteq rowPath \cup (IF readPath THEN {inHand} ELSE {})
  OBVIOUS
<1>3. TypeOK'
  BY <1>1, <1>2 DEF TypeOK
<1>4. WrittenOnce'
  BY <1>2 DEF Safe, WrittenOnce
<1>5. NothingForgotten'
  BY <1>2 DEF Safe, NothingForgotten
<1>6. PathMeansFile'
  BY <1>2 DEF Safe, PathMeansFile, WriterIsHonest
<1>7. UnraisedIsNowhere' /\ PathsAreEarned'
  BY <1>2 DEF UnraisedIsNowhere, PathsAreEarned
<1>8. WriterIsHonest'
  BY <1>2 DEF WriterIsHonest
<1> QED BY <1>3, <1>4, <1>5, <1>6, <1>7, <1>8 DEF Safe

LEMMA EndOfWriteSafe ==
    ASSUME IInv, InsertDetection \/ WriteFails \/ StopWorker
    PROVE  IInv'
<1>0. /\ inHand \in Alerts \cup {NoAlert} /\ (inHand = NoAlert <=> worker \in {"idle", "stopped"})
      /\ worker \in {"idle", "insert", "detection", "stopped"}
      /\ rowPath \subseteq rows /\ detections \subseteq rows /\ abandoned \subseteq Alerts
      /\ worker = "detection" => inHand \in rows
  BY DEF IInv, TypeOK, WriterIsHonest
<1>1. CASE InsertDetection
  <2>1. LetGo /\ worker' = "idle"
    BY <1>0, <1>1 DEF InsertDetection, Idle, LetGo
  <2> QED BY <2>1, LetGoSafe
<1>2. CASE WriteFails
  <2>1. LetGo /\ worker' = "idle"
    BY <1>0, <1>2 DEF WriteFails, Idle, LetGo, disk
  <2> QED BY <2>1, LetGoSafe
<1>3. CASE StopWorker
  <2>1. NoAlert \notin Alerts
    BY PersistenceAssumption
  <2>2. LetGo /\ worker' = "stopped"
    BY <1>0, <1>3, <2>1 DEF StopWorker, WriteRow, LetGo
  <2> QED BY <2>2, LetGoSafe
<1> QED BY <1>1, <1>2, <1>3

LEMMA RestartSafe == ASSUME IInv, Restart PROVE IInv'
<1> USE DEF IInv, Restart, Idle, disk
<1>1. NoAlert \notin Alerts
  BY PersistenceAssumption
<1>2. ToSet(queue) \subseteq Alerts /\ ToSet(queue') = {} /\ IsInjective(queue')
  BY DEF TypeOK, ToSet, IsInjective
<1>3. \A a \in Alerts : handler'[a] = IF handler[a] = "none" THEN "none" ELSE "done"
  OBVIOUS
<1>4. TypeOK'
  <2>1. (worker = "insert" => inHand \in Alerts) /\ abandoned' \subseteq Alerts
    BY <1>2 DEF TypeOK
  <2>2. recent' \in Seq(Alerts) /\ queue' \in Seq(Alerts)
        /\ Len(recent') <= RecentMax /\ Len(queue') <= QueueMax
    BY PersistenceAssumption
  <2>3. handler' \in [Alerts -> {"none", "evidence", "select", "update", "done"}]
    OBVIOUS
  <2> QED BY <2>1, <2>2, <2>3 DEF TypeOK
<1>5. WrittenOnce'
  BY <1>2 DEF WrittenOnce
<1>6. NothingForgotten'
  BY <1>3 DEF Safe, NothingForgotten, TypeOK, WriterIsHonest
<1>7. PathMeansFile'
  BY DEF Safe, PathMeansFile
<1>8. UnraisedIsNowhere'
  BY <1>1, <1>2, <1>3 DEF UnraisedIsNowhere
<1>9. PathsAreEarned' /\ WriterIsHonest'
  BY <1>3 DEF PathsAreEarned, WriterIsHonest
<1> QED BY <1>4, <1>5, <1>6, <1>7, <1>8, <1>9 DEF Safe

LEMMA StepSafe == IInv /\ [Next]_vars => IInv'
<1> SUFFICES ASSUME IInv, [Next]_vars PROVE IInv'
  OBVIOUS
<1>1. ASSUME NEW a \in Alerts, Raise(a) PROVE IInv'
  BY <1>1, RaiseSafe
<1>2. ASSUME NEW a \in Alerts,
             Preserve(a) \/ NoEvidence(a) \/ Select(a) \/ Update(a) \/ UpdateFails(a)
      PROVE  IInv'
  BY <1>2, ConsumerSafe
<1>3. CASE Drain
  BY <1>3, TakeSafe, InsertSafe, EndOfWriteSafe DEF Drain
<1>4. CASE StopWorker
  BY <1>4, EndOfWriteSafe
<1>5. CASE Restart
  BY <1>5, RestartSafe
<1>6. CASE UNCHANGED vars
  BY <1>6 DEF vars, memory, disk, IInv, Safe, TypeOK, WrittenOnce, NothingForgotten,
     PathMeansFile, UnraisedIsNowhere, PathsAreEarned, WriterIsHonest
<1> QED BY <1>1, <1>2, <1>3, <1>4, <1>5, <1>6 DEF Next

-----------------------------------------------------------------------------
(* Theorems *)

LEMMA Invariance == Spec => []IInv
<1> QED BY InitSafe, StepSafe, PTL DEF Spec

\* The queue, the worker and the rows of alerts/manager.py and db/persist.py keep
\* their shapes and bounds.
THEOREM PersistenceTyped == Spec => []TypeOK
<1>1. IInv => TypeOK
  BY DEF IInv
<1> QED BY Invariance, <1>1, PTL

\* PersistWorker never has an alert twice, in the queue, in hand or in the table.
THEOREM AlertsWrittenOnce == Spec => []WrittenOnce
<1>1. IInv => WrittenOnce
  BY DEF IInv, Safe
<1> QED BY Invariance, <1>1, PTL

\* No alert that create_alert raised falls between the queue and the database.
THEOREM AlertsAccountedFor == Spec => []NothingForgotten
<1>1. IInv => NothingForgotten
  BY DEF IInv, Safe
<1> QED BY Invariance, <1>1, PTL

\* A pcap_path, in the context or in the row, has its evidence file on disk.
THEOREM PathsMeanFiles == Spec => []PathMeansFile
<1>1. IInv => PathMeansFile
  BY DEF IInv, Safe
<1> QED BY Invariance, <1>1, PTL

\* The insert of a row never takes away a path that update_alert_pcap_path wrote.
THEOREM PathsKept == Spec => PathKept
<1>1. IInv /\ [Next]_vars => [rowPath \subseteq rowPath']_vars
  <2> SUFFICES ASSUME IInv, Next PROVE rowPath \subseteq rowPath'
    BY DEF vars
  <2>1. worker = "insert" => inHand \notin rowPath
    BY DEF IInv, Safe, WrittenOnce, TypeOK
  <2>2. ASSUME NEW a \in Alerts,
               \/ Raise(a) \/ Preserve(a) \/ NoEvidence(a)
               \/ Select(a) \/ Update(a) \/ UpdateFails(a)
        PROVE  rowPath \subseteq rowPath'
    BY <2>2 DEF Raise, Preserve, NoEvidence, Select, Update, UpdateFails, disk
  <2>3. CASE Insert
    BY <2>1, <2>3 DEF Insert, WriteRow
  <2>4. CASE StopWorker
    BY <2>1, <2>4 DEF StopWorker, WriteRow
  <2>5. CASE Take \/ InsertDetection \/ WriteFails \/ Restart
    BY <2>5 DEF Take, InsertDetection, WriteFails, Restart, disk
  <2> QED BY <2>2, <2>3, <2>4, <2>5 DEF Next, Drain
<1> QED BY Invariance, <1>1, PTL DEF Spec, PathKept
=============================================================================
