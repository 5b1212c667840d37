--------------------------- MODULE AlertPersistence ---------------------------
(***************************************************************************)
(* AlertPersistence: what happens to a fresh alert after it is raised.     *)
(*                                                                         *)
(* The consumer that raised an alert preserves the live capture as its     *)
(* evidence and records the path, first in the in-memory context and then  *)
(* in the alert's database row.  The row itself is written by another      *)
(* task: a single worker that drains a bounded queue of contexts.  Every   *)
(* database call is an await, and every failure of one is swallowed.       *)
(* There are at least as many consumers as alerts here (6 in the code's    *)
(* configuration), so no alert waits for another one's evidence.           *)
(*                                                                         *)
(* A path is one bit here: the evidence file of an alert has one name, so  *)
(* a context or a row either has the path or has None.  The order of the   *)
(* live list under merges is AlertAggregation's subject; without merges    *)
(* freshness order is insertion order.                                     *)
(***************************************************************************)
EXTENDS Integers, Sequences, FiniteSets, SequencesExt

CONSTANTS
    Alerts,      \* the alerts raised in a behaviour
    NoAlert,     \* what an idle worker holds
    QueueMax,    \* PersistWorker's maxsize
    RecentMax,   \* maxlen of AlertManager._recent
    MayFail,     \* whether database calls and the evidence copy may fail
    MayCrash     \* whether the process may die and be started again

ASSUME PersistenceAssumption ==
    /\ NoAlert \notin Alerts
    /\ QueueMax \in Nat \ {0} /\ RecentMax \in Nat \ {0}
    /\ MayFail \in BOOLEAN /\ MayCrash \in BOOLEAN

VARIABLES
    recent,     \* AlertManager._recent, newest first
    ctxPath,    \* the alerts whose context has a pcap_path
    handler,    \* where the consumer that raised the alert is with it
    queue,      \* PersistWorker._queue
    worker,     \* where the drain task is
    inHand,     \* the alert it is writing, or NoAlert
    readPath,   \* whether the context had a path when it took the alert
    files,      \* the alerts whose evidence file is on disk
    rows,       \* the alerts with a row in the alerts table
    rowPath,    \* the rows that have a pcap_path
    detections, \* the alerts with a row in the detections table
    abandoned   \* the alerts whose write was dropped, failed or cut off

memory == <<recent, ctxPath, handler, queue, worker, inHand, readPath>>
disk == <<files, rows, rowPath, detections>>
vars == <<memory, disk, abandoned>>

Init ==
    /\ recent = <<>>
    /\ ctxPath = {}
    /\ handler = [a \in Alerts |-> "none"]
    /\ queue = <<>>
    /\ worker = "idle" /\ inHand = NoAlert /\ readPath = FALSE
    /\ files = {} /\ rows = {} /\ rowPath = {} /\ detections = {}
    /\ abandoned = {}

-----------------------------------------------------------------------------
KeepNewest(s) == SubSeq(s, 1, IF Len(s) < RecentMax THEN Len(s) ELSE RecentMax)

Step(a, s) == handler' = [handler EXCEPT ![a] = s]

Idle == worker' = "idle" /\ inHand' = NoAlert /\ readPath' = FALSE

-----------------------------------------------------------------------------
\* Mutant: a full queue makes room by dropping its oldest alert.
RaiseOverOldest(a) ==
    /\ handler[a] = "none"
    /\ Step(a, "evidence")
    /\ recent' = KeepNewest(<<a>> \o recent)
    /\ queue' = Append(IF Len(queue) < QueueMax THEN queue ELSE Tail(queue), a)
    /\ UNCHANGED <<ctxPath, worker, inHand, readPath, disk, abandoned>>

\* The tail of create_alert: the alert joins the live list and is offered to
\* the persist queue; a full queue drops it.
Raise(a) ==
    /\ handler[a] = "none"
    /\ Step(a, "evidence")
    /\ recent' = KeepNewest(<<a>> \o recent)
    /\ IF Len(queue) < QueueMax
       THEN queue' = Append(queue, a) /\ UNCHANGED abandoned
       ELSE abandoned' = abandoned \cup {a} /\ UNCHANGED queue
    /\ UNCHANGED <<ctxPath, worker, inHand, readPath, disk>>

\* preserve_for_incident in its thread, then set_pcap_path: the context is
\* looked up in the live list, which may have dropped it by now.
Preserve(a) ==
    /\ handler[a] = "evidence"
    /\ files' = files \cup {a}
    /\ ctxPath' = IF Contains(recent, a) THEN ctxPath \cup {a} ELSE ctxPath
    /\ Step(a, "select")
    /\ UNCHANGED <<recent, queue, worker, inHand, readPath,
                   rows, rowPath, detections, abandoned>>

\* There is no capture to preserve, or the copy fails.
NoEvidence(a) ==
    /\ MayFail /\ handler[a] = "evidence"
    /\ Step(a, "done")
    /\ UNCHANGED <<recent, ctxPath, queue, worker, inHand, readPath, disk, abandoned>>

\* Mutant: a missing row is created to hold the path.
Upsert(a) ==
    /\ handler[a] = "select"
    /\ rows' = rows \cup {a}
    /\ Step(a, "update")
    /\ UNCHANGED <<recent, ctxPath, queue, worker, inHand, readPath,
                   files, rowPath, detections, abandoned>>

\* set_pcap_path of the repository: without a row there is nothing to update.
Select(a) ==
    /\ handler[a] = "select"
    /\ Step(a, IF a \in rows THEN "update" ELSE "done")
    /\ UNCHANGED <<recent, ctxPath, queue, worker, inHand, readPath, disk, abandoned>>

Update(a) ==
    /\ handler[a] = "update"
    /\ rowPath' = rowPath \cup {a}
    /\ Step(a, "done")
    /\ UNCHANGED <<recent, ctxPath, queue, worker, inHand, readPath,
                   files, rows, detections, abandoned>>

UpdateFails(a) ==
    /\ MayFail /\ handler[a] \in {"select", "update"}
    /\ Step(a, "done")
    /\ UNCHANGED <<recent, ctxPath, queue, worker, inHand, readPath, disk, abandoned>>

-----------------------------------------------------------------------------
\* Mutant: the alert is read off the queue but not removed.
Peek ==
    /\ worker = "idle" /\ queue # <<>>
    /\ worker' = "insert" /\ inHand' = Head(queue)
    /\ readPath' = (Head(queue) \in ctxPath)
    /\ UNCHANGED <<recent, ctxPath, handler, queue, disk, abandoned>>

\* The worker takes the oldest context and builds the row from it as it is now.
Take ==
    /\ worker = "idle" /\ queue # <<>>
    /\ queue' = Tail(queue)
    /\ worker' = "insert" /\ inHand' = Head(queue)
    /\ readPath' = (Head(queue) \in ctxPath)
    /\ UNCHANGED <<recent, ctxPath, handler, disk, abandoned>>

\* The row it built, on disk.  alert_id is unique in the table: the row is a new one
\* (WrittenOnce), and its path is what the context said.
WriteRow ==
    /\ rows' = rows \cup {inHand}
    /\ rowPath' = IF readPath THEN rowPath \cup {inHand} ELSE rowPath \ {inHand}

\* The commit of the alert row.
Insert ==
    /\ worker = "insert"
    /\ WriteRow
    /\ worker' = "detection"
    /\ UNCHANGED <<recent, ctxPath, handler, queue, inHand, readPath,
                   files, detections, abandoned>>

\* The commit of the detection row, in the same session after the first.
InsertDetection ==
    /\ worker = "detection"
    /\ detections' = detections \cup {inHand}
    /\ Idle
    /\ UNCHANGED <<recent, ctxPath, handler, queue, files, rows, rowPath, abandoned>>

\* Mutant: the exception ends the drain task.
WriteFailsForGood ==
    /\ MayFail /\ worker \in {"insert", "detection"}
    /\ abandoned' = abandoned \cup {inHand}
    /\ worker' = "dead" /\ inHand' = NoAlert /\ readPath' = FALSE
    /\ UNCHANGED <<recent, ctxPath, handler, queue, disk>>

\* persist_alert swallows the exception of either commit.
WriteFails ==
    /\ MayFail /\ worker \in {"insert", "detection"}
    /\ abandoned' = IF worker = "insert" THEN abandoned \cup {inHand} ELSE abandoned
    /\ Idle
    /\ UNCHANGED <<recent, ctxPath, handler, queue, disk>>

\* PersistWorker.stop: the commit in flight may or may not get through, and the
\* queue is left as it is.
StopWorker ==
    /\ worker # "stopped"
    /\ worker' = "stopped" /\ inHand' = NoAlert /\ readPath' = FALSE
    /\ \/ /\ worker = "insert" /\ WriteRow
          /\ UNCHANGED <<detections, abandoned>>
       \/ /\ worker = "detection" /\ detections' = detections \cup {inHand}
          /\ UNCHANGED <<rows, rowPath, abandoned>>
       \/ /\ UNCHANGED <<rows, rowPath, detections>>
          /\ abandoned' = IF worker = "insert" THEN abandoned \cup {inHand} ELSE abandoned
    /\ UNCHANGED <<recent, ctxPath, handler, queue, files>>

\* The process ends, by a crash or after a shutdown, and a new one starts: what
\* was in memory is gone.
Restart ==
    /\ MayCrash
    /\ recent' = <<>> /\ ctxPath' = {} /\ queue' = <<>>
    /\ handler' = [a \in Alerts |-> IF handler[a] = "none" THEN "none" ELSE "done"]
    /\ Idle
    /\ abandoned' = abandoned \cup ToSet(queue)
                    \cup (IF worker = "insert" THEN {inHand} ELSE {})
    /\ UNCHANGED disk

Drain == Take \/ Insert \/ InsertDetection \/ WriteFails

Next ==
    \/ \E a \in Alerts :
        \/ Raise(a) \/ Preserve(a) \/ NoEvidence(a)
        \/ Select(a) \/ Update(a) \/ UpdateFails(a)
    \/ Drain \/ StopWorker \/ Restart

Spec == Init /\ [][Next]_vars

\* The event loop resumes the drain task whenever it can go on.
FairSpec == Spec /\ WF_vars(Drain)

-----------------------------------------------------------------------------
(* Properties *)

TypeOK ==
    /\ recent \in Seq(Alerts) /\ Len(recent) <= RecentMax
    /\ queue \in Seq(Alerts) /\ Len(queue) <= QueueMax
    /\ ctxPath \in SUBSET Alerts
    /\ handler \in [Alerts -> {"none", "evidence", "select", "update", "done"}]
    /\ worker \in {"idle", "insert", "detection", "stopped"}
    /\ inHand \in Alerts \cup {NoAlert}
    /\ (inHand = NoAlert) <=> (worker \in {"idle", "stopped"})
    /\ readPath \in BOOLEAN
    /\ files \in SUBSET Alerts /\ rows \in SUBSET Alerts
    /\ rowPath \in SUBSET rows /\ detections \in SUBSET rows
    /\ abandoned \in SUBSET Alerts

\* An alert is written once: it is queued once, and neither a queued alert nor
\* the one about to be inserted has a row already (alert_id is unique in the
\* table, so a second insert would fail and take the detection with it).
WrittenOnce ==
    /\ IsInjective(queue)
    /\ \A a \in ToSet(queue) : a \notin rows /\ a # inHand
    /\ worker = "insert" => inHand \notin rows

\* Every alert raised is accounted for: waiting, being written, in the table or
\* given up on.  Nothing falls between the queue and the database.
NothingForgotten ==
    \A a \in Alerts : handler[a] # "none" =>
        a \in ToSet(queue) \cup {inHand} \cup rows \cup abandoned

\* A path is handed out only for evidence that is on disk, through whichever of
\* the two ways it reached the row.
PathMeansFile == ctxPath \cup rowPath \subseteq files

\* A row that has its evidence path keeps it: the insert, which writes what the
\* context said earlier, never comes after the update.
PathKept == [][rowPath \subseteq rowPath']_vars

\* A queued alert gets its row unless its write fails or the process ends.
QueuedIsWritten ==
    \A a \in Alerts : Contains(queue, a) ~> (a \in rows \cup abandoned \/ worker = "stopped")

\* What update_alert_pcap_path's docstring says of the order of the two writes:
\* the row is persisted before the evidence is preserved, so once the consumer
\* is through, a row whose evidence was preserved has the path.
EvidenceAttached ==
    \A a \in rows \cap files : handler[a] = "done" => a \in rowPath
=============================================================================
