---------------------------- MODULE SensorUplink ----------------------------
(***************************************************************************)
(* The programs that turn packets into flow records and post them to       *)
(* /api/v1/traffic/flows: the standalone sensor, the live sensor           *)
(* (ScapyLiveSource under LiveCapture) and the replay of a capture file.   *)
(*                                                                         *)
(* A packet is a number, in the order of capture.  A record is a 5-tuple   *)
(* with the packets it counts, so that packets lost and packets counted    *)
(* twice can be told apart; sizes, flags and queries go with the packets.  *)
(* Posts fail, time out, and are handled after the sender gave up.         *)
(***************************************************************************)
EXTENDS PipelineQueue, Sequences

CONSTANTS
    Standalone, Live, Replay,  \* the sources of each kind
    Packets,                   \* all packets; those of a replay are in its file
    Of, Key,                   \* the source and the 5-tuple of each packet
    Wanted,                    \* IP packets of a known protocol, to local_ip if one is set
    Bad,                       \* packets whose parsing raises an exception
    BatchMax,                  \* --batch, --batch-size
    NoRequest

Sources == Standalone \cup Live \cup Replay

Records == [by : Sources, key : {Key[p] : p \in Packets}, packets : SUBSET Packets]

\* Posted batches.
Requests == [by : Sources, records : SUBSET Records]

ASSUME UplinkAssumption ==
    /\ Packets \subseteq Nat /\ IsFiniteSet(Packets)
    /\ Of \in [Packets -> Sources]
    /\ Standalone \cap Live = {} /\ Standalone \cap Replay = {} /\ Live \cap Replay = {}
    /\ Wanted \subseteq Packets /\ Bad \subseteq Packets
    /\ BatchMax \in Nat \ {0}
    /\ NoRequest \notin Requests

VARIABLES
    passing,   \* packets that have not come by yet
    sniffed,   \* what the running sniff of a live sensor has stored
    window,    \* window_meta: the packets aggregated so far
    batch,     \* records gathered for the next posts
    sending,   \* the live sensor is suspended at a yield
    requests,  \* posts the backend has not handled
    awaiting,  \* the post each source waits for, or NoRequest
    ended      \* replays that are over, and standalone sensors that have crashed

senderVars == <<sending, requests, awaiting, ended>>
vars == <<passing, sniffed, window, batch, senderVars, queueVars>>

\* The records a set of packets aggregates to, one for each 5-tuple.
Grouped(s, packets) ==
    {[by |-> s, key |-> k, packets |-> {p \in packets : Key[p] = k}] :
        k \in {Key[p] : p \in packets}}

Least(S) == CHOOSE x \in S : \A y \in S : x <= y

\* Dictionaries keep the order of insertion: that of a record's first packet.
Earlier(q, r) == Least(q.packets) < Least(r.packets)

Rank(records) == [r \in records |-> Cardinality({q \in records : Earlier(q, r)})]

FirstOf(n, records) == {r \in records : Rank(records)[r] < n}

FileOf(s) == {p \in Packets : Of[p] = s} \cap Wanted

Init ==
    /\ passing = {p \in Packets : Of[p] \notin Replay}
    /\ sniffed = [s \in Live |-> <<>>]
    /\ window = [s \in Sources |-> {}]
    /\ batch = [s \in Sources |-> IF s \in Replay THEN Grouped(s, FileOf(s)) ELSE {}]
    /\ sending = {} /\ requests = {} /\ ended = {}
    /\ awaiting = [s \in Sources |-> NoRequest]
    /\ QueueInit

-----------------------------------------------------------------------------
Reading(s) == awaiting[s] = NoRequest /\ s \notin sending \cup ended

\* The packet comes by: a sensor that is not sniffing misses it, the standalone
\* one aggregates it at once, the live one stores it.  Nothing catches an exception
\* of the standalone one's callback: the process ends, with what it holds.
Pass(p) ==
    LET s == Of[p] IN
    /\ p \in passing /\ \A q \in passing : Of[q] = s => p <= q
    /\ passing' = passing \ {p}
    /\ \/ /\ ~Reading(s)
          /\ UNCHANGED <<sniffed, window, ended>>
       \/ /\ Reading(s) /\ s \in Standalone /\ p \notin Bad
          /\ window' = [window EXCEPT ![s] = @ \cup ({p} \cap Wanted)]
          /\ UNCHANGED <<sniffed, ended>>
       \/ /\ Reading(s) /\ s \in Standalone /\ p \in Bad
          /\ ended' = ended \cup {s}
          /\ window' = [window EXCEPT ![s] = {}]
          /\ UNCHANGED sniffed
       \/ /\ Reading(s) /\ s \in Live
          /\ sniffed' = [sniffed EXCEPT ![s] = Append(@, p)]
          /\ UNCHANGED <<window, ended>>
    /\ UNCHANGED <<batch, sending, requests, awaiting, queueVars>>

Post(s, records) ==
    LET q == [by |-> s, records |-> records]
    IN /\ requests' = requests \cup {q}
       /\ awaiting' = [awaiting EXCEPT ![s] = q]

\* flush: after --window seconds or --batch packets.
Flush(s) ==
    /\ Reading(s) /\ window[s] # {}
    /\ Post(s, Grouped(s, window[s]))
    /\ window' = [window EXCEPT ![s] = {}]
    /\ UNCHANGED <<passing, sniffed, batch, sending, ended, queueVars>>

\* ScapyLiveSource.read after a sniff: an exception drops the rest of the sniff
\* and leaves what was aggregated in the window of the next one.
Aggregate(s) ==
    LET pkts == sniffed[s]
        good == {i \in DOMAIN pkts : \A j \in 1 .. i : pkts[j] \notin Bad}
        kept == window[s] \cup ({pkts[i] : i \in good} \cap Wanted)
    IN /\ Reading(s) /\ pkts # <<>>
       /\ sniffed' = [sniffed EXCEPT ![s] = <<>>]
       /\ IF good = DOMAIN pkts
          THEN /\ batch' = [batch EXCEPT ![s] = @ \cup Grouped(s, kept)]
               /\ window' = [window EXCEPT ![s] = {}]
               /\ sending' = sending \cup {s}
          ELSE /\ window' = [window EXCEPT ![s] = kept]
               /\ UNCHANGED <<batch, sending>>
       /\ UNCHANGED <<passing, requests, awaiting, ended, queueVars>>

\* LiveCapture.run and _send.  model_dump leaves ts a datetime, which json cannot
\* encode: the exception is printed, and the batch is gone before a request exists.
SendLive(s) ==
    /\ s \in sending
    /\ IF Cardinality(batch[s]) >= BatchMax
       THEN /\ batch' = [batch EXCEPT ![s] = @ \ FirstOf(BatchMax, @)]
            /\ UNCHANGED sending
       ELSE sending' = sending \ {s} /\ UNCHANGED batch
    /\ UNCHANGED <<passing, sniffed, window, requests, awaiting, ended, queueVars>>

\* replay_pcap.replay: the next chunk, once the one before it was answered.
SendChunk(s) ==
    /\ Reading(s) /\ batch[s] # {}
    /\ Post(s, FirstOf(BatchMax, batch[s]))
    /\ batch' = [batch EXCEPT ![s] = @ \ FirstOf(BatchMax, @)]
    /\ UNCHANGED <<passing, sniffed, window, sending, ended, queueVars>>

\* POST /traffic/replay reads the whole file into one batch.
ReplayAtOnce(s) ==
    /\ Reading(s)
    /\ batch[s] = Grouped(s, FileOf(s)) /\ batch[s] # {}
    /\ SubmitBatch(batch[s], Rank(batch[s]))
    /\ batch' = [batch EXCEPT ![s] = {}]
    /\ UNCHANGED <<passing, sniffed, window, senderVars>>

-----------------------------------------------------------------------------
\* The flow endpoint submits the batch, for a sender that may have given up; the
\* response arrives in time, or it does not.
Handle(q) ==
    /\ q \in requests
    /\ requests' = requests \ {q}
    /\ SubmitBatch(q.records, Rank(q.records))
    /\ \/ /\ awaiting[q.by] = q
          /\ awaiting' = [awaiting EXCEPT ![q.by] = NoRequest]
       \/ UNCHANGED awaiting
    /\ UNCHANGED <<passing, sniffed, window, batch, sending, ended>>

LoseRequest(q) ==
    /\ q \in requests
    /\ requests' = requests \ {q}
    /\ UNCHANGED <<passing, sniffed, window, batch, sending, awaiting, ended, queueVars>>

\* Mutant: a failed post is repeated with the next window.
GiveUpKeeping(s) ==
    /\ awaiting[s] # NoRequest
    /\ awaiting' = [awaiting EXCEPT ![s] = NoRequest]
    /\ window' = [window EXCEPT ![s] = @ \cup UNION {r.packets : r \in awaiting[s].records}]
    /\ ended' = ended \cup ({s} \cap Replay)
    /\ UNCHANGED <<passing, sniffed, batch, sending, requests, queueVars>>

\* Mutant: the replay goes on after a chunk that failed.
GiveUpAndGoOn(s) ==
    /\ awaiting[s] # NoRequest
    /\ awaiting' = [awaiting EXCEPT ![s] = NoRequest]
    /\ UNCHANGED <<passing, sniffed, window, batch, sending, requests, ended, queueVars>>

\* Mutant: the post waits for its answer as long as it takes.
GiveUpNever(s) == FALSE /\ UNCHANGED vars

\* Five seconds, or an error: a sensor carries on with the next window and never
\* repeats the batch, a replay is over.
GiveUp(s) ==
    /\ awaiting[s] # NoRequest
    /\ awaiting' = [awaiting EXCEPT ![s] = NoRequest]
    /\ ended' = ended \cup ({s} \cap Replay)
    /\ UNCHANGED <<passing, sniffed, window, batch, sending, requests, queueVars>>

Drain ==
    /\ Consume
    /\ UNCHANGED <<passing, sniffed, window, batch, senderVars>>

Next ==
    \/ \E p \in Packets : Pass(p)
    \/ \E s \in Standalone : Flush(s)
    \/ \E s \in Live : Aggregate(s) \/ SendLive(s)
    \/ \E s \in Replay : SendChunk(s) \/ ReplayAtOnce(s)
    \/ \E q \in requests : Handle(q) \/ LoseRequest(q)
    \/ \E s \in Sources : GiveUp(s)
    \/ Drain

Spec == Init /\ [][Next]_vars

\* Windows end and requests time out; nothing else is promised.
FairSpec ==
    /\ Spec
    /\ \A s \in Sources : WF_vars(GiveUp(s))
    /\ \A s \in Live : WF_vars(Aggregate(s)) /\ WF_vars(SendLive(s))
    /\ \A s \in Standalone : WF_vars(Flush(s))

-----------------------------------------------------------------------------
(* Properties *)

Posted(q) == UNION {r.packets : r \in q.records}
Gathered(s) == UNION {r.packets : r \in batch[s]}

\* Records are whole, and only the sources that can be are busy.
TypeOK ==
    /\ passing \subseteq Packets
    /\ sniffed \in [Live -> Seq(Packets)]
    /\ window \in [Sources -> SUBSET Packets]
    /\ sending \subseteq Live /\ ended \subseteq Replay \cup Standalone
    /\ requests \subseteq Requests
    /\ waiting \in 0 .. PipelineMax

\* A packet is counted at most once: the packets of a record in the pipeline are
\* in no other record, in no post on its way, in no window, and will not come by
\* again, whatever timed out and was handled late.
CountedOnce ==
    \A r \in entered :
        /\ \A q \in entered : q # r => q.packets \cap r.packets = {}
        /\ \A q \in requests : Posted(q) \cap r.packets = {}
        /\ \A s \in Sources : (window[s] \cup Gathered(s)) \cap r.packets = {}
        /\ passing \cap r.packets = {}

\* The records of a replay enter the pipeline in the order of the capture: none
\* is still under way when a later one has been accepted.  The sensors, which
\* carry on after a timeout, have no such order.
ReplayInOrder ==
    \A r \in entered : \A q \in requests :
        (q.by = r.by /\ r.by \in Replay) => \A p \in q.records : Earlier(r, p)

\* No backend, slow, full or gone, keeps a sensor from sniffing for good: only a
\* packet that its parser cannot take does, and only the standalone one's.
SensorsSniffAgain ==
    \A s \in Standalone \cup Live : ~Reading(s) ~> (Reading(s) \/ s \in ended \cap Standalone)

\* The docstring of LiveCapture: it captures mirrored traffic and forwards the
\* flow metadata to the backend.  A full batch is posted, whatever becomes of it.
FullBatchIsPosted ==
    \A s \in Live : Cardinality(batch[s]) >= BatchMax ~> (\E q \in requests : q.by = s)
=============================================================================
