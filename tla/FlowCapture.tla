---------------------------- MODULE FlowCapture ----------------------------
(***************************************************************************)
(* FlowPcapRecorder and EvidenceCollector: the rolling capture of the      *)
(* flows seen, and the copies of it kept as evidence.                      *)
(*                                                                         *)
(* Each flow's record call runs in a thread of its own and holds the       *)
(* recorder's lock from the second look at _running to the write; stop     *)
(* closes the writer without the lock.  A rotation closes the capture,     *)
(* copies it into the archive under the name of the current second,        *)
(* removes it and opens a new one; a failing close, copy or removal is     *)
(* swallowed, and what the close did not write out is lost, while after a  *)
(* failing copy or removal the old file goes on growing.  What was written *)
(* is in the writer's buffer until the buffer fills or the writer is       *)
(* closed, and the copy of an alert's evidence sees the file alone.        *)
(*                                                                         *)
(* A packet is a model value and a file the sequence of its packets: what  *)
(* fails does so between packets, and sizes are counted in them.  The      *)
(* rotation interval may have passed at any record, so it needs no clock.  *)
(* scapy's writer is modelled from its use: a file has a header, and so a  *)
(* size, from the first write or the close, and a writer that is dropped   *)
(* unclosed flushes its buffer but writes no header.                       *)
(***************************************************************************)
EXTENDS Integers, Sequences, FiniteSets, SequencesExt

CONSTANTS
    Packets,    \* the flows recorded in a behaviour, one packet each
    MaxPackets, \* max_bytes, in packets
    MayFail,    \* whether opening, writing, copying and removing files may fail
    MaxStarts   \* bound: times the process is started

ASSUME CaptureAssumption ==
    /\ MaxPackets \in Nat \ {0} /\ MaxStarts \in Nat
    /\ MayFail \in BOOLEAN

VARIABLES
    running,    \* _running
    stopper,    \* where stop is
    starts,     \* times start has run
    call,       \* where each packet's record call is
    writer,     \* _writer: none, open, or closed and still referenced
    count,      \* _bytes_written, in packets
    buffer,     \* packets in the writer's buffer
    active,     \* packets in current.pcap
    file,       \* current.pcap: absent, of size zero, or with a header
    archive,    \* the rolling_ files, oldest first
    stuck,      \* history: rotations since the capture was last removed
    gone,       \* history: packets skipped, dropped, not flushed, overwritten or cut off
    evidence    \* what became of the evidence of the alert of each packet

control == <<running, stopper, starts>>
disk == <<buffer, active, file, archive, stuck>>
vars == <<control, call, writer, count, disk, gone, evidence>>

Critical == {"rotating", "moving", "opening", "holding", "ready"}

Archived == UNION {ToSet(archive[i]) : i \in DOMAIN archive}

Init ==
    /\ running = FALSE /\ stopper = "stopped" /\ starts = 0
    /\ call = [p \in Packets |-> "none"]
    /\ writer = "none" /\ count = 0
    /\ buffer = <<>> /\ active = <<>> /\ file = "absent"
    /\ archive = <<>> /\ stuck = 0
    /\ gone = {}
    /\ evidence = [p \in Packets |-> "none"]

-----------------------------------------------------------------------------
At(p, here) == call[p] = here

Go(p, there) == call' = [call EXCEPT ![p] = there]

\* The packet of p is given up and its call returns.
GiveUp(p) == Go(p, "done") /\ gone' = gone \cup {p}

\* What a file takes of the buffer before its disk refuses the rest.
Written(k) == SubSeq(buffer, 1, k)

Refused(k) == SubSeq(buffer, k + 1, Len(buffer))

\* Closing a file empties the buffer into it, or loses what does not get there.
Flush ==
    /\ buffer' = <<>>
    /\ \/ active' = active \o buffer /\ UNCHANGED gone
       \/ /\ MayFail
          /\ \E k \in 0..Len(buffer) :
                active' = active \o Written(k) /\ gone' = gone \cup ToSet(Refused(k))

\* _close_writer, which passes over what fails: a file without a header gets one
\* before the buffer goes there.
CloseFile ==
    IF writer = "open"
    THEN Flush /\ file' \in IF MayFail THEN {file, "headed"} ELSE {"headed"}
    ELSE UNCHANGED <<active, buffer, file, gone>>

\* The last reference to a writer goes, and with it the writer.
Collect ==
    IF writer = "open"
    THEN Flush /\ UNCHANGED file
    ELSE UNCHANGED <<active, buffer, file, gone>>

\* A copy under a name of the current second: a new archive file, or the last
\* one again if the last rotation was in this second too.
Archive(copy) ==
    \/ archive' = Append(archive, copy) /\ UNCHANGED gone
    \/ /\ archive # <<>>
       /\ archive' = [archive EXCEPT ![Len(archive)] = copy]
       /\ gone' = gone \cup (ToSet(Last(archive))
                             \ (ToSet(active) \cup ToSet(buffer)
                                \cup UNION {ToSet(archive[i]) : i \in 1..(Len(archive) - 1)}))

Unlink(after) == active' = <<>> /\ file' = after /\ stuck' = 0

Keep == stuck' = stuck + 1 /\ UNCHANGED <<active, file>>

\* The middle of _rotate: copy and remove, either of which may fail.  A copy that
\* fails half way leaves its first part under its name.  after is what the step
\* leaves of a removed file.
Move(after) ==
    \/ file = "headed" /\ Archive(active) /\ Unlink(after)
    \/ /\ MayFail /\ file = "headed" /\ Keep
       /\ \/ UNCHANGED <<archive, gone>>
          \/ \E k \in 0..Len(active) : Archive(SubSeq(active, 1, k))
    \/ file # "headed" /\ UNCHANGED <<archive, gone, active, file, stuck>>

\* The file _open_writer opens for appending.
Touched == IF file = "absent" THEN "empty" ELSE file

-----------------------------------------------------------------------------
(* record *)

Check(p) ==
    /\ At(p, "none")
    /\ IF running THEN Go(p, "checked") /\ UNCHANGED gone ELSE GiveUp(p)
    /\ UNCHANGED <<control, writer, count, disk, evidence>>

\* Under the lock: stopped meanwhile, or due for rotation, or not.
Acquire(p) ==
    /\ At(p, "checked")
    /\ \A q \in Packets : call[q] \notin Critical
    /\ \/ ~running /\ GiveUp(p)
       \/ running /\ count < MaxPackets /\ Go(p, "holding") /\ UNCHANGED gone
       \/ running /\ Go(p, "rotating") /\ UNCHANGED gone
    /\ UNCHANGED <<control, writer, count, disk, evidence>>

\* Mutant: the capture is copied and removed while its writer is open.
RotateUnclosed(p) ==
    /\ At(p, "rotating")
    /\ writer' = "none" /\ buffer' = <<>>
    /\ Go(p, "moving")
    /\ UNCHANGED <<control, count, active, file, archive, stuck, gone, evidence>>

RotateClose(p) ==
    /\ At(p, "rotating")
    /\ CloseFile /\ writer' = "none"
    /\ Go(p, "moving")
    /\ UNCHANGED <<control, count, archive, stuck, evidence>>

RotateMove(p) ==
    /\ At(p, "moving")
    /\ Move("absent")
    /\ Go(p, "opening")
    /\ UNCHANGED <<control, writer, count, buffer, evidence>>

RotateOpen(p) ==
    /\ At(p, "opening")
    /\ writer' = "open" /\ file' = Touched /\ count' = 0
    /\ Go(p, "holding")
    /\ UNCHANGED <<control, buffer, active, archive, stuck, gone, evidence>>

\* self._writer or self._open_writer(): a closed writer is a writer.
Ready(p) ==
    /\ At(p, "holding")
    /\ IF writer = "none"
       THEN writer' = "open" /\ file' = Touched
       ELSE UNCHANGED <<writer, file>>
    /\ Go(p, "ready")
    /\ UNCHANGED <<control, count, buffer, active, archive, stuck, gone, evidence>>

\* The packet is buffered, after the buffer if that was full.  A disk that refuses
\* the rest of the buffer, or a writer that stop has closed or taken away, raises,
\* and the packet is counted as dropped.
Write(p) ==
    /\ At(p, "ready")
    /\ \/ /\ writer = "open"
          /\ \/ buffer' = Append(buffer, p) /\ UNCHANGED active
             \/ active' = active \o buffer /\ buffer' = <<p>>
          /\ file' = "headed" /\ count' = count + 1
          /\ Go(p, "done") /\ UNCHANGED gone
       \/ /\ MayFail /\ writer = "open"
          /\ \E k \in 0..Len(buffer) : active' = active \o Written(k) /\ buffer' = Refused(k)
          /\ file' \in {file, "headed"} /\ UNCHANGED count
          /\ GiveUp(p)
       \/ writer # "open" /\ GiveUp(p) /\ UNCHANGED <<buffer, active, file, count>>
    /\ UNCHANGED <<control, writer, archive, stuck, evidence>>

\* The file cannot be opened; the exception ends the call.
OpenFails(p) ==
    /\ MayFail
    /\ \/ At(p, "opening")
       \/ At(p, "holding") /\ writer = "none"
    /\ GiveUp(p)
    /\ UNCHANGED <<control, writer, count, disk, evidence>>

-----------------------------------------------------------------------------
(* The process *)

\* Mutant: start does not look at what a previous run left.
StartAppending ==
    /\ stopper = "stopped" /\ starts < MaxStarts
    /\ running' = TRUE /\ stopper' = "up" /\ starts' = starts + 1
    /\ UNCHANGED <<call, writer, count, disk, gone, evidence>>

\* FlowPcapRecorder.start, in a process of its own and before the pipeline's: a
\* capture a previous run left is rotated, and what fails in that is passed over.
Start ==
    /\ stopper = "stopped" /\ starts < MaxStarts
    /\ running' = TRUE /\ stopper' = "up" /\ starts' = starts + 1
    /\ \/ file = "headed" /\ Move("empty") /\ writer' = "open"
       \/ MayFail /\ file = "headed" /\ Move("absent") /\ UNCHANGED writer
       \/ file # "headed" /\ UNCHANGED <<active, file, archive, stuck, gone, writer>>
    /\ UNCHANGED <<call, count, buffer, evidence>>

\* stop: the flag, the close, the reference; a record call may be anywhere.
StopFlag ==
    /\ stopper = "up"
    /\ running' = FALSE /\ stopper' = "closing"
    /\ UNCHANGED <<starts, call, writer, count, disk, gone, evidence>>

\* A writer whose header could not be written is still open.
StopClose ==
    /\ stopper = "closing"
    /\ CloseFile
    /\ writer' = IF writer = "none" THEN "none"
                 ELSE IF file' = "headed" THEN "closed" ELSE "open"
    /\ stopper' = IF writer = "none" THEN "closed" ELSE "forgetting"
    /\ UNCHANGED <<running, starts, call, count, archive, stuck, evidence>>

\* A writer opened since loses its last reference here.
StopForget ==
    /\ stopper = "forgetting"
    /\ Collect /\ writer' = "none" /\ stopper' = "closed"
    /\ UNCHANGED <<running, starts, call, count, archive, stuck, evidence>>

\* The interpreter waits for the threads and drops what is still open.
Exit ==
    /\ stopper = "closed"
    /\ \A p \in Packets : call[p] \in {"none", "done"}
    /\ Collect /\ writer' = "none" /\ count' = 0 /\ stopper' = "stopped"
    /\ UNCHANGED <<running, starts, call, archive, stuck, evidence>>

\* The process dies: the buffer and the calls under way are lost.
Crash ==
    /\ stopper # "stopped"
    /\ running' = FALSE /\ stopper' = "stopped"
    /\ gone' = gone \cup ToSet(buffer)
                    \cup {p \in Packets : call[p] \notin {"none", "done"}}
    /\ call' = [p \in Packets |-> IF call[p] = "none" THEN "none" ELSE "done"]
    /\ writer' = "none" /\ buffer' = <<>> /\ count' = 0
    /\ evidence' = [p \in Packets |-> IF evidence[p] = "located" THEN "none" ELSE evidence[p]]
    /\ UNCHANGED <<starts, active, file, archive, stuck>>

-----------------------------------------------------------------------------
(* preserve_for_incident, for the alert that the flow of p raised *)

\* Mutant: the consumer does not wait for its record call.
LocateEarly(p) ==
    /\ stopper # "stopped"
    /\ call[p] # "none" /\ evidence[p] = "none"
    /\ evidence' = [evidence EXCEPT ![p] = IF file = "headed" THEN "located" ELSE "failed"]
    /\ UNCHANGED <<control, call, writer, count, disk, gone>>

\* locate_active_pcap, after the record call has returned.
Locate(p) ==
    /\ stopper # "stopped"
    /\ At(p, "done") /\ evidence[p] = "none"
    /\ evidence' = [evidence EXCEPT ![p] = IF file = "headed" THEN "located" ELSE "failed"]
    /\ UNCHANGED <<control, call, writer, count, disk, gone>>

\* _copy_file of whatever is there now.
Copy(p) ==
    /\ evidence[p] = "located"
    /\ evidence' = [evidence EXCEPT ![p] =
                       IF file = "absent" THEN "failed"
                       ELSE IF p \in ToSet(active) THEN "with"
                       ELSE "without"]
    /\ UNCHANGED <<control, call, writer, count, disk, gone>>

Next ==
    \/ \E p \in Packets :
        \/ Check(p) \/ Acquire(p)
        \/ RotateClose(p) \/ RotateMove(p) \/ RotateOpen(p)
        \/ Ready(p) \/ Write(p) \/ OpenFails(p)
        \/ Locate(p) \/ Copy(p)
    \/ Start \/ StopFlag \/ StopClose \/ StopForget \/ Exit \/ Crash

Spec == Init /\ [][Next]_vars

-----------------------------------------------------------------------------
(* Properties *)

\* A file or a buffer holds packets, each at most once.
TypeOK ==
    /\ running \in BOOLEAN /\ starts \in 0..MaxStarts
    /\ stopper \in {"stopped", "up", "closing", "forgetting", "closed"}
    /\ call \in [Packets -> {"none", "checked", "done"} \cup Critical]
    /\ writer \in {"none", "open", "closed"}
    /\ count \in Nat /\ stuck \in Nat
    /\ buffer \in Seq(Packets) /\ active \in Seq(Packets)
    /\ archive \in Seq(Seq(Packets))
    /\ file \in {"absent", "empty", "headed"}
    /\ gone \in SUBSET Packets
    /\ evidence \in [Packets -> {"none", "located", "failed", "with", "without"}]

\* A packet whose call has returned is in the capture, in its buffer or in the
\* archive unless its loss has one of the causes the code accepts: recorded
\* while stopped, dropped with an exception, refused by the disk when its writer
\* was closed, overwritten by a second rotation within a second, or cut off by a
\* crash.  A rotation in progress, one that fails half way and a stop in the
\* middle of one lose nothing else.  And what the capture holds is in the archive
\* already only while a copied capture could not be removed.
PacketKept ==
    LET current == ToSet(active) \cup ToSet(buffer)
    IN /\ \A p \in Packets :
            call[p] = "done" => p \in current \cup Archived \cup gone
       /\ stuck = 0 => current \cap Archived = {}

\* What the comment in start promises, with the failures it swallows: the
\* capture holds at most MaxPackets more for each rotation that could not
\* remove it, whatever earlier runs left behind.
ActiveBounded == Len(active) + Len(buffer) <= MaxPackets * (1 + stuck)

\* The evidence of an alert lacks the packet of the flow that raised it only
\* if that packet was still in the writer's buffer, had been rotated into the
\* archive, or was lost for one of the causes above.
EvidenceGapHasCause ==
    [][\A p \in Packets : evidence[p] # "without" /\ evidence'[p] = "without" =>
          p \in ToSet(buffer) \cup Archived \cup gone]_vars

\* What the module's docstring says of the capture and its evidence: the copy
\* preserved when a threat fires holds the packet of its flow.
EvidenceHasItsPacket == \A p \in Packets : evidence[p] # "without"
=============================================================================
