---------------------------- MODULE PipelineQueue ----------------------------
(***************************************************************************)
(* The detection pipeline as its sources see it: a bounded queue of flow   *)
(* records that is offered batches and takes as much of each as fits.      *)
(* What happens to a record behind the queue is the subject of module      *)
(* DetectionPipeline.                                                      *)
(***************************************************************************)
EXTENDS Integers, FiniteSets

CONSTANT PipelineMax   \* settings.pipeline_queue_size

ASSUME QueueAssumption == PipelineMax \in Nat

VARIABLES
    waiting,   \* how many records the queue holds
    entered    \* the records it has ever accepted

queueVars == <<waiting, entered>>

QueueInit == waiting = 0 /\ entered = {}

\* The records of a batch that find room: submit_batch offers them in order, rank[r]
\* of them before r.
Fits(batch, rank) == {r \in batch : rank[r] < PipelineMax - waiting}

\* submit_batch: submit never blocks, so no other task runs in between.
SubmitBatch(batch, rank) ==
    /\ entered' = entered \cup Fits(batch, rank)
    /\ waiting' = waiting + Cardinality(Fits(batch, rank))

\* A consumer takes a record.
Consume ==
    /\ waiting > 0
    /\ waiting' = waiting - 1
    /\ UNCHANGED entered

-----------------------------------------------------------------------------
(* What the sources rely on, when what they report is among Reported *)

\* The orders a batch can come in.
Ranks(batch) ==
    {rank \in [batch -> 0 .. Cardinality(batch) - 1] :
        \A a, b \in batch : rank[a] = rank[b] => a = b}

QueueNext(Reported) ==
    \/ \E batch \in SUBSET Reported : \E rank \in Ranks(batch) : SubmitBatch(batch, rank)
    \/ Consume
=============================================================================
