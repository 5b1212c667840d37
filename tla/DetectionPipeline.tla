-------------------------- MODULE DetectionPipeline --------------------------
(***************************************************************************)
(* DetectionPipeline: a bounded queue of flow records and the consumer     *)
(* tasks that take them through capture, flow state, rules, ML, decision   *)
(* and alert.                                                              *)
(*                                                                         *)
(* Consumers share one event loop, so a consumer runs alone from one await *)
(* to the next; a step here is exactly such a stretch.  The awaits are the *)
(* four asyncio.to_thread calls and the pcap-path update behind the last   *)
(* of them, and it is at these that records overtake one another.          *)
(*                                                                         *)
(* What the rules, the models and the decision engine conclude about a     *)
(* record is a free choice here; what this module is about is which        *)
(* records get that far.  The flow table is that of module FlowMemory,     *)
(* which module FlowTables implements with entries, ages and caps.         *)
(***************************************************************************)
EXTENDS Integers, Sequences, FiniteSets

CONSTANTS
    Consumers,   \* the consumer tasks
    Records,     \* the flow records the sensors report, each reported once
    Flows,       \* directed flows
    FlowOf,      \* the flow of each record
    Reverse,     \* the flow in the opposite direction
    Initiators,  \* the flows that opened their connection
    Syn,         \* the records with syn_count > 0
    TcpRst,      \* the TCP records with rst_count > 0
    NoRecord,    \* what a waiting consumer holds
    QueueMax,    \* settings.pipeline_queue_size
    MayFail,     \* whether a stage may raise an exception
    MayForget    \* whether flow state expires within the behaviour

ASSUME PipelineAssumption ==
    /\ FlowOf \in [Records -> Flows]
    /\ Reverse \in [Flows -> Flows]
    /\ \A f \in Flows : Reverse[Reverse[f]] = f
    /\ Initiators \subseteq Flows
    /\ Syn \subseteq Records /\ TcpRst \subseteq Records
    /\ NoRecord \notin Records
    /\ QueueMax \in Nat \ {0}
    /\ MayFail \in BOOLEAN /\ MayForget \in BOOLEAN

VARIABLES
    queue,    \* the asyncio queue
    stage,    \* the await each consumer is suspended at
    holds,    \* the record each consumer is processing, or NoRecord
    known,    \* the flows in flow_state
    outcome,  \* what became of each record
    raised,   \* the records create_alert was called for
    stopped,  \* stop() has been called
    accepted  \* history: the records submit has returned a flow id for

vars == <<queue, stage, holds, known, outcome, raised, stopped, accepted>>

Stages == {"get", "pcap", "rules", "ml", "evidence", "cancelled"}

Outcomes == {"none", "rejected", "skipped", "failed", "done", "cancelled"}

Table == INSTANCE FlowMemory

Init ==
    /\ queue = <<>>
    /\ stage = [c \in Consumers |-> "get"]
    /\ holds = [c \in Consumers |-> NoRecord]
    /\ Table!MemoryInit
    /\ outcome = [r \in Records |-> "none"]
    /\ raised = {}
    /\ stopped = FALSE
    /\ accepted = {}

-----------------------------------------------------------------------------
Queued(r) == \E i \in DOMAIN queue : queue[i] = r

Held(r) == \E c \in Consumers : holds[c] = r

Unseen(r) == outcome[r] = "none" /\ ~Queued(r) /\ ~Held(r)

\* A sensor reports a reply only after it reported a record of the request.
Observable(r) ==
    \/ FlowOf[r] \in Initiators
    \/ \E q \in Records : FlowOf[q] = Reverse[FlowOf[r]] /\ ~Unseen(q)

\* Mutant: without clause (a), the unconditional skip of an RST reply.
IsResponseByTable(r, table) == r \notin Syn /\ Reverse[FlowOf[r]] \in table

\* The condition under which process returns before any detection runs,
\* evaluated on the flow table the record itself has just entered.
IsResponse(r, table) ==
    r \notin Syn /\ (r \in TcpRst \/ Reverse[FlowOf[r]] \in table)

\* The consumer is done with its record and waits for the next one.
Finish(c, how) ==
    /\ outcome' = [outcome EXCEPT ![holds[c]] = how]
    /\ stage' = [stage EXCEPT ![c] = "get"]
    /\ holds' = [holds EXCEPT ![c] = NoRecord]

Await(c, s) ==
    /\ stage' = [stage EXCEPT ![c] = s]
    /\ UNCHANGED <<holds, outcome>>

-----------------------------------------------------------------------------
\* Mutant: the queue takes one record too many.
SubmitPastFull(r) ==
    /\ Unseen(r) /\ Observable(r)
    /\ \/ /\ Len(queue) > QueueMax
          /\ outcome' = [outcome EXCEPT ![r] = "rejected"]
          /\ UNCHANGED <<queue, accepted>>
       \/ /\ Len(queue) <= QueueMax
          /\ queue' = Append(queue, r) /\ accepted' = accepted \cup {r}
          /\ UNCHANGED outcome
    /\ UNCHANGED <<stage, holds, known, raised, stopped>>

\* Mutant: a full queue makes room by dropping its oldest record.
SubmitDroppingOldest(r) ==
    /\ Unseen(r) /\ Observable(r)
    /\ queue' = Append(IF Len(queue) >= QueueMax THEN Tail(queue) ELSE queue, r)
    /\ accepted' = accepted \cup {r}
    /\ UNCHANGED <<stage, holds, known, outcome, raised, stopped>>

\* submit: a full queue rejects the record, and put never blocks.
Submit(r) ==
    /\ Unseen(r) /\ Observable(r)
    /\ \/ /\ Len(queue) >= QueueMax
          /\ outcome' = [outcome EXCEPT ![r] = "rejected"]
          /\ UNCHANGED <<queue, accepted>>
       \/ /\ Len(queue) < QueueMax
          /\ queue' = Append(queue, r) /\ accepted' = accepted \cup {r}
          /\ UNCHANGED outcome
    /\ UNCHANGED <<stage, holds, known, raised, stopped>>

\* _consume: take the oldest record and start writing it to the pcap.
Take(c) ==
    /\ stage[c] = "get" /\ queue # <<>>
    /\ queue' = Tail(queue)
    /\ holds' = [holds EXCEPT ![c] = Head(queue)]
    /\ stage' = [stage EXCEPT ![c] = "pcap"]
    /\ UNCHANGED <<known, outcome, raised, stopped, accepted>>

\* process, from the pcap await to the rules await: update the flow state, skip
\* the response direction, extract the features.
Enter(c) ==
    /\ stage[c] = "pcap"
    /\ Table!See(FlowOf[holds[c]])
    /\ IF IsResponse(holds[c], known')
       THEN Finish(c, "skipped")
       ELSE Await(c, "rules")
    /\ UNCHANGED <<queue, raised, stopped, accepted>>

\* decide and _handle_threat up to the evidence await: no threat, a threat
\* merged into an open alert, or a fresh alert whose evidence is to be kept.
Decide(c) ==
    \/ /\ Finish(c, "done")
       /\ raised' \in {raised, raised \cup {holds[c]}}
    \/ /\ Await(c, "evidence")
       /\ raised' = raised \cup {holds[c]}

\* process, from the rules await: a strong technique match goes straight to
\* the decision, anything else through the models first.
Match(c) ==
    /\ stage[c] = "rules"
    /\ \/ Decide(c)
       \/ Await(c, "ml") /\ UNCHANGED raised
    /\ UNCHANGED <<queue, known, stopped, accepted>>

Infer(c) ==
    /\ stage[c] = "ml"
    /\ Decide(c)
    /\ UNCHANGED <<queue, known, stopped, accepted>>

\* _handle_threat swallows whatever goes wrong while preserving evidence.
Preserve(c) ==
    /\ stage[c] = "evidence"
    /\ Finish(c, "done")
    /\ UNCHANGED <<queue, known, raised, stopped, accepted>>

\* Mutant: the exception ends the consumer.
FailForGood(c) ==
    /\ MayFail /\ stage[c] \in {"pcap", "rules", "ml"}
    /\ outcome' = [outcome EXCEPT ![holds[c]] = "failed"]
    /\ stage' = [stage EXCEPT ![c] = "cancelled"]
    /\ holds' = [holds EXCEPT ![c] = NoRecord]
    /\ UNCHANGED <<queue, known, raised, stopped, accepted>>

\* An exception of a stage, before or after it has touched the flow table, is
\* counted and the consumer carries on.
Fail(c) ==
    /\ MayFail
    /\ \/ stage[c] \in {"pcap", "rules", "ml"} /\ UNCHANGED known
       \/ stage[c] = "pcap" /\ Table!See(FlowOf[holds[c]])
    /\ Finish(c, "failed")
    /\ UNCHANGED <<queue, raised, stopped, accepted>>

\* stop: every consumer is cancelled at the await it is suspended at.
Stop ==
    /\ ~stopped
    /\ stopped' = TRUE
    /\ outcome' = [r \in Records |-> IF Held(r) THEN "cancelled" ELSE outcome[r]]
    /\ holds' = [c \in Consumers |-> NoRecord]
    /\ stage' = [c \in Consumers |-> "cancelled"]
    /\ UNCHANGED <<queue, known, raised, accepted>>

\* The expiry sweep, which runs between the steps of the consumers.
Forget ==
    /\ Table!Expire
    /\ UNCHANGED <<queue, stage, holds, outcome, raised, stopped, accepted>>

Work(c) == Enter(c) \/ Match(c) \/ Infer(c) \/ Preserve(c) \/ Fail(c)

Next ==
    \/ \E r \in Records : Submit(r)
    \/ \E c \in Consumers : Take(c) \/ Work(c)
    \/ Forget
    \/ Stop

Spec == Init /\ [][Next]_vars

\* The event loop resumes every consumer whose thread has returned, and hands
\* a queued record to a waiting consumer.
FairSpec == Spec /\ \A c \in Consumers : WF_vars(Take(c)) /\ WF_vars(Work(c))

-----------------------------------------------------------------------------
(* Properties *)

\* Consumers hold records exactly while they are at work.
TypeOK ==
    /\ queue \in Seq(Records) /\ Len(queue) <= QueueMax
    /\ stage \in [Consumers -> Stages]
    /\ holds \in [Consumers -> Records \cup {NoRecord}]
    /\ \A c \in Consumers : (holds[c] = NoRecord) <=> (stage[c] \in {"get", "cancelled"})
    /\ known \in SUBSET Flows
    /\ outcome \in [Records -> Outcomes]
    /\ raised \in SUBSET Records
    /\ stopped \in BOOLEAN
    /\ accepted \in SUBSET Records

\* The records that found room in the queue, wherever they are by now.
Accepted ==
    {r \in Records : Queued(r) \/ Held(r) \/ outcome[r] \notin {"none", "rejected"}}

NoneLost == accepted = Accepted

NoneDoubled ==
    \A r \in Records :
        /\ \A i, j \in DOMAIN queue : (queue[i] = r /\ queue[j] = r) => i = j
        /\ \A c, d \in Consumers : (holds[c] = r /\ holds[d] = r) => c = d
        /\ Queued(r) => ~Held(r)
        /\ (Queued(r) \/ Held(r)) => outcome[r] = "none"

\* A record that submit has accepted is in exactly one place: once in the queue,
\* with one consumer, or finished.  And only accepted records are.  No failure,
\* cancellation or overtaking loses, doubles or invents one.
RecordInOnePlace == NoneLost /\ NoneDoubled

Queue == INSTANCE PipelineQueue
         WITH PipelineMax <- QueueMax, waiting <- Len(queue), entered <- Accepted

\* The pipeline is the queue its sources model: it accepts a record if and only if
\* there is room, gives room back one record at a time, and nothing that happens
\* behind the queue (overtaking, failures, shutdown) unmakes an acceptance.
ImplementsQueue ==
    Queue!QueueInit /\ [][Queue!QueueNext(Records)]_(Queue!queueVars)

\* The sensor's RST answering a probe never raises an alert, in whatever order
\* the probe and the answer are processed.
RstReplyNeverAlerts == raised \cap (TcpRst \ Syn) = {}

\* A record is skipped only for a cause: it is an RST reply, or a record of the
\* opposite direction has already been through the flow table.
SkipHasCause ==
    \A r \in Records : outcome[r] = "skipped" =>
        /\ r \notin Syn
        /\ \/ r \in TcpRst
           \/ \E q \in Records :
                /\ FlowOf[q] = Reverse[FlowOf[r]]
                /\ ~Unseen(q) /\ ~Queued(q) /\ outcome[q] # "rejected"

\* Once the consumers are cancelled nothing is decided and no alert is raised.
QuietAfterStop ==
    [][stopped => known' \subseteq known /\ raised' = raised]_vars

\* Every accepted record is finished with, unless the pipeline is stopped: a
\* record whose processing fails does not take its consumer down with it.
AcceptedIsFinished ==
    \A r \in Records : Queued(r) ~> (outcome[r] # "none" \/ stopped)

\* What the comment above the response check says of its clause (b): the record
\* it skips is the responding half of an existing connection.
SkippedIsResponse ==
    \A r \in Records : outcome[r] = "skipped" => FlowOf[r] \notin Initiators
=============================================================================
