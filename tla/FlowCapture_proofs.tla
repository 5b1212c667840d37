--------------------------- MODULE FlowCapture_proofs ---------------------------
(* Proofs about FlowCapture, for any packets, size of the capture and number  *)
(* of starts, with and without failing file operations.                       *)
EXTENDS FlowCapture, TLAPS

-----------------------------------------------------------------------------
(* The inductive invariant *)

Current == ToSet(active) \cup ToSet(buffer)

\* The writer's buffer is part of a file with a header, and of an open writer.
FileOfBuffer ==
    /\ buffer # <<>> => writer = "open"
    /\ file # "headed" => active = <<>> /\ buffer = <<>>

\* One record call at a time is past the lock, in a process that is there.
OneInside ==
    /\ \A p, q \in Packets : call[p] \in Critical /\ call[q] \in Critical => p = q
    /\ stopper = "stopped" =>
        /\ \A p \in Packets : call[p] \in {"none", "done"}
        /\ writer = "none" /\ count = 0
    /\ running => stopper = "up"

\* _bytes_written, and with it what the process in front of it has recorded.
Counted ==
    /\ count <= MaxPackets
    /\ \A p \in Packets : call[p] \in {"holding", "ready"} => count < MaxPackets
    /\ stopper # "stopped" => Len(active) + Len(buffer) <= count + MaxPackets * stuck

\* Between the close and the opening of a rotation.
Rotating ==
    \A p \in Packets :
        /\ call[p] \in {"moving", "opening"} => writer = "none"
        /\ call[p] = "opening" => Len(active) <= MaxPackets * stuck

\* Only a finished call leaves its packet anywhere, and evidence comes after it.
DoneFirst ==
    \A p \in Packets : /\ p \in Current \cup Archived => call[p] = "done"
                       /\ evidence[p] # "none" => call[p] = "done"

IInv ==
    /\ TypeOK /\ FileOfBuffer /\ OneInside /\ Counted /\ Rotating
    /\ DoneFirst /\ PacketKept /\ ActiveBounded

-----------------------------------------------------------------------------
(* Sequences and files *)

LEMMA Joined ==
    ASSUME NEW S, NEW a \in Seq(S), NEW b \in Seq(S)
    PROVE  /\ a \o b \in Seq(S) /\ Len(a \o b) = Len(a) + Len(b)
           /\ ToSet(a \o b) = ToSet(a) \cup ToSet(b)
<1>1. a \o b \in Seq(S) /\ Len(a \o b) = Len(a) + Len(b)
  OBVIOUS
<1>2. /\ DOMAIN a = 1..Len(a) /\ DOMAIN b = 1..Len(b) /\ DOMAIN (a \o b) = 1..(Len(a) + Len(b))
      /\ Len(a) \in Nat /\ Len(b) \in Nat
  OBVIOUS
<1>3. \A i \in 1..(Len(a) + Len(b)) : (a \o b)[i] = IF i <= Len(a) THEN a[i] ELSE b[i - Len(a)]
  OBVIOUS
<1>4. ToSet(a \o b) \subseteq ToSet(a) \cup ToSet(b)
  BY <1>2, <1>3 DEF ToSet
<1>5. ToSet(a) \subseteq ToSet(a \o b)
  BY <1>2, <1>3 DEF ToSet
<1>6. ASSUME NEW i \in DOMAIN b PROVE b[i] \in ToSet(a \o b)
  <2>1. Len(a) + i \in DOMAIN (a \o b) /\ (a \o b)[Len(a) + i] = b[i]
    BY <1>2, <1>3, <1>6
  <2> QED BY <2>1 DEF ToSet
<1>7. ToSet(b) \subseteq ToSet(a \o b)
  BY <1>6 DEF ToSet
<1> QED BY <1>1, <1>4, <1>5, <1>7

LEMMA Appended ==
    ASSUME NEW S, NEW a \in Seq(S), NEW e \in S
    PROVE  /\ Append(a, e) \in Seq(S) /\ Len(Append(a, e)) = Len(a) + 1
           /\ ToSet(Append(a, e)) = ToSet(a) \cup {e}
           /\ \A i \in DOMAIN a : Append(a, e)[i] = a[i]
           /\ DOMAIN Append(a, e) = DOMAIN a \cup {Len(a) + 1}
           /\ Append(a, e)[Len(a) + 1] = e
<1>1. /\ DOMAIN a = 1..Len(a) /\ DOMAIN Append(a, e) = 1..(Len(a) + 1) /\ Len(a) \in Nat
      /\ \A i \in 1..Len(a) : Append(a, e)[i] = a[i]
      /\ Append(a, e)[Len(a) + 1] = e
  OBVIOUS
<1>2. Append(a, e) \in Seq(S) /\ Len(Append(a, e)) = Len(a) + 1
  OBVIOUS
<1>3. DOMAIN Append(a, e) = DOMAIN a \cup {Len(a) + 1}
  BY <1>1
<1>4. ToSet(Append(a, e)) = ToSet(a) \cup {e}
  BY <1>1, <1>3 DEF ToSet
<1> QED BY <1>1, <1>2, <1>3, <1>4

LEMMA Empty == \A S : <<>> \in Seq(S) /\ Len(<<>>) = 0 /\ ToSet(<<>>) = {}
<1> QED BY DEF ToSet

LEMMA SetOf == ASSUME NEW S, NEW a \in Seq(S) PROVE ToSet(a) \subseteq S /\ Len(a) \in Nat
<1> QED BY DEF ToSet

\* The positions before the last one.
LEMMA AllButLast ==
    ASSUME NEW S, NEW a \in Seq(S), NEW j \in 1..(Len(a) - 1)
    PROVE  j \in DOMAIN a /\ j # Len(a)
  OBVIOUS

\* A sequence is what is before a cut and what is after it.
LEMMA Cut ==
    ASSUME NEW S, NEW a \in Seq(S), NEW k \in 0..Len(a)
    PROVE  LET front == SubSeq(a, 1, k)
               rest == SubSeq(a, k + 1, Len(a))
           IN  /\ front \in Seq(S) /\ rest \in Seq(S)
               /\ Len(front) = k /\ Len(rest) = Len(a) - k
               /\ ToSet(a) = ToSet(front) \cup ToSet(rest)
<1> DEFINE front == SubSeq(a, 1, k)
           rest == SubSeq(a, k + 1, Len(a))
<1>1. /\ front \in Seq(S) /\ rest \in Seq(S)
      /\ Len(front) = k /\ Len(rest) = Len(a) - k
  OBVIOUS
<1>2. /\ DOMAIN a = 1..Len(a) /\ DOMAIN front = 1..k /\ DOMAIN rest = 1..(Len(a) - k)
      /\ Len(a) \in Nat /\ k \in 0..Len(a)
  OBVIOUS
<1>3. /\ \A i \in 1..k : front[i] = a[i]
      /\ \A i \in 1..(Len(a) - k) : rest[i] = a[k + i]
  OBVIOUS
<1> HIDE DEF front, rest
<1>4. ToSet(front) \subseteq ToSet(a)
  BY <1>2, <1>3 DEF ToSet
<1>5. ASSUME NEW i \in DOMAIN rest PROVE rest[i] \in ToSet(a)
  <2>1. k + i \in DOMAIN a /\ rest[i] = a[k + i]
    BY <1>2, <1>3, <1>5
  <2> QED BY <2>1 DEF ToSet
<1>6. ASSUME NEW i \in DOMAIN a PROVE a[i] \in ToSet(front) \cup ToSet(rest)
  <2>1. CASE i <= k
    BY <1>2, <1>3, <2>1 DEF ToSet
  <2>2. CASE ~(i <= k)
    <3>1. i - k \in DOMAIN rest /\ rest[i - k] = a[i]
      BY <1>2, <1>3, <2>2
    <3> QED BY <3>1 DEF ToSet
  <2> QED BY <2>1, <2>2
<1>7. ToSet(rest) \subseteq ToSet(a) /\ ToSet(a) \subseteq ToSet(front) \cup ToSet(rest)
  BY <1>5, <1>6 DEF ToSet
<1> QED BY <1>1, <1>4, <1>7 DEF front, rest

\* What the file takes of the buffer, and what it leaves.
LEMMA WrittenOrRefused ==
    ASSUME active \in Seq(Packets), buffer \in Seq(Packets), NEW k \in 0..Len(buffer)
    PROVE  /\ active \o Written(k) \in Seq(Packets) /\ Refused(k) \in Seq(Packets)
           /\ Len(active \o Written(k)) + Len(Refused(k)) = Len(active) + Len(buffer)
           /\ Len(active \o Written(k)) \in Nat /\ Len(Refused(k)) \in Nat
           /\ ToSet(active \o Written(k)) \cup ToSet(Refused(k)) = Current
           /\ ToSet(Refused(k)) \subseteq Packets
<1>1. /\ Written(k) \in Seq(Packets) /\ Refused(k) \in Seq(Packets)
      /\ Len(Written(k)) = k /\ Len(Refused(k)) = Len(buffer) - k
      /\ ToSet(buffer) = ToSet(Written(k)) \cup ToSet(Refused(k))
  BY Cut DEF Written, Refused
<1>2. /\ active \o Written(k) \in Seq(Packets)
      /\ Len(active \o Written(k)) = Len(active) + Len(Written(k))
      /\ ToSet(active \o Written(k)) = ToSet(active) \cup ToSet(Written(k))
  <2>1. \A w \in Seq(Packets) :
          /\ active \o w \in Seq(Packets) /\ Len(active \o w) = Len(active) + Len(w)
          /\ ToSet(active \o w) = ToSet(active) \cup ToSet(w)
    BY Joined
  <2> QED BY <1>1, <2>1, Zenon
<1>3. /\ ToSet(Refused(k)) \subseteq Packets /\ Len(active) \in Nat /\ Len(buffer) \in Nat
      /\ Len(active \o Written(k)) \in Nat /\ Len(Refused(k)) \in Nat
  BY <1>1, <1>2, SetOf
<1>4. Len(active \o Written(k)) + Len(Refused(k)) = Len(active) + Len(buffer)
  BY <1>1, <1>2, <1>3
<1> QED BY <1>1, <1>2, <1>3, <1>4 DEF Current

\* Closing a writer, or dropping it, moves the buffer to the end of its file, and
\* a packet that does not get there is gone.
LEMMA CloseKeeps ==
    ASSUME TypeOK, FileOfBuffer, CloseFile \/ Collect
    PROVE  /\ active' \in Seq(Packets) /\ buffer' = <<>> /\ buffer' \in Seq(Packets)
           /\ gone \subseteq gone' /\ gone' \subseteq Packets
           /\ Current' \subseteq Current /\ Current \subseteq Current' \cup gone'
           /\ Len(active') \in Nat /\ Len(buffer') = 0
           /\ Len(active') <= Len(active) + Len(buffer)
           /\ file' \in {file, "headed"}
           /\ file' # "headed" => active' = <<>>
<1>1. /\ active \in Seq(Packets) /\ buffer \in Seq(Packets) /\ gone \subseteq Packets
      /\ Len(active) \in Nat /\ Len(buffer) \in Nat
      /\ <<>> \in Seq(Packets) /\ Len(<<>>) = 0 /\ ToSet(<<>>) = {}
  BY Empty, SetOf DEF TypeOK
<1>2. CASE writer = "open"
  <2>1. Flush /\ file' \in {file, "headed"}
    BY <1>2 DEF CloseFile, Collect
  <2>2. CASE active' = active \o buffer /\ UNCHANGED gone
    <3>1. /\ active' \in Seq(Packets) /\ Len(active') = Len(active) + Len(buffer)
          /\ ToSet(active') = Current
      BY <1>1, <2>2, Joined DEF Current
    <3>2. file' # "headed" => active' = <<>>
      BY <2>1, <2>2 DEF FileOfBuffer
    <3> QED BY <1>1, <2>1, <2>2, <3>1, <3>2 DEF Flush, Current
  <2>3. ASSUME NEW k \in 0..Len(buffer),
               active' = active \o Written(k), gone' = gone \cup ToSet(Refused(k))
        PROVE  /\ active' \in Seq(Packets) /\ gone' \subseteq Packets
               /\ Current' \subseteq Current /\ Current \subseteq Current' \cup gone'
               /\ Len(active') \in Nat /\ Len(active') <= Len(active) + Len(buffer)
               /\ file' # "headed" => active' = <<>>
    <3>1. /\ active' \in Seq(Packets) /\ Len(active') \in Nat /\ Len(Refused(k)) \in Nat
          /\ Len(active') + Len(Refused(k)) = Len(active) + Len(buffer)
          /\ ToSet(active') \cup ToSet(Refused(k)) = Current
          /\ ToSet(Refused(k)) \subseteq Packets
      BY <1>1, <2>3, WrittenOrRefused
    <3>2. Current' = ToSet(active')
      BY <1>1, <2>1 DEF Flush, Current
    <3>3. ASSUME file' # "headed" PROVE active' = <<>>
      <4>1. active = <<>> /\ buffer = <<>>
        BY <2>1, <3>3 DEF FileOfBuffer
      <4>2. Len(active') = 0
        BY <1>1, <3>1, <4>1
      <4> QED BY <3>1, <4>2
    <3> QED BY <1>1, <2>3, <3>1, <3>2, <3>3
  <2>4. buffer' = <<>>
    BY <2>1 DEF Flush
  <2> QED BY <1>1, <2>1, <2>2, <2>3, <2>4 DEF Flush
<1>3. CASE writer # "open"
  <2>1. UNCHANGED <<active, buffer, file, gone>> /\ buffer = <<>>
    BY <1>3 DEF CloseFile, Collect, FileOfBuffer
  <2> QED BY <1>1, <2>1 DEF Current, FileOfBuffer
<1> QED BY <1>2, <1>3

\* What an archive step adds is in the capture, what it takes away is gone.
LEMMA ArchiveKeeps ==
    ASSUME TypeOK, NEW copy \in Seq(Packets), ToSet(copy) \subseteq ToSet(active), Archive(copy)
    PROVE  /\ archive' \in Seq(Seq(Packets)) /\ gone \subseteq gone' /\ gone' \subseteq Packets
           /\ Archived' \subseteq Archived \cup ToSet(active)
           /\ ToSet(copy) \subseteq Archived'
           /\ Archived \subseteq Archived' \cup gone' \cup ToSet(active) \cup ToSet(buffer)
<1>1. /\ active \in Seq(Packets) /\ archive \in Seq(Seq(Packets)) /\ gone \subseteq Packets
      /\ DOMAIN archive = 1..Len(archive) /\ Len(archive) \in Nat
  BY DEF TypeOK
<1>2. CASE archive' = Append(archive, copy) /\ UNCHANGED gone
  <2>1. /\ archive' \in Seq(Seq(Packets))
        /\ DOMAIN archive' = DOMAIN archive \cup {Len(archive) + 1}
        /\ \A i \in DOMAIN archive : archive'[i] = archive[i]
        /\ archive'[Len(archive) + 1] = copy
    BY <1>1, <1>2, Appended
  <2>2. Archived' = Archived \cup ToSet(copy)
    BY <2>1 DEF Archived
  <2> QED BY <1>1, <1>2, <2>1, <2>2
<1>3. CASE /\ archive # <<>>
           /\ archive' = [archive EXCEPT ![Len(archive)] = copy]
           /\ gone' = gone \cup (ToSet(Last(archive))
                             \ (ToSet(active) \cup ToSet(buffer)
                                \cup UNION {ToSet(archive[i]) : i \in 1..(Len(archive) - 1)}))
  <2>1. Len(archive) \in DOMAIN archive /\ Last(archive) = archive[Len(archive)]
    BY <1>1, <1>3 DEF Last
  <2>2. /\ archive' \in Seq(Seq(Packets)) /\ DOMAIN archive' = DOMAIN archive
        /\ \A i \in DOMAIN archive : archive'[i] = IF i = Len(archive) THEN copy ELSE archive[i]
    BY <1>1, <1>3, <2>1
  <2>3. ToSet(Last(archive)) \subseteq Packets
    <3>1. Last(archive) \in Seq(Packets)
      BY <1>1, <2>1
    <3> QED BY <3>1, SetOf
  <2>4. gone' \subseteq Packets /\ gone \subseteq gone'
    BY <1>1, <1>3, <2>3
  <2>5. Archived' \subseteq Archived \cup ToSet(copy) /\ ToSet(copy) \subseteq Archived'
    BY <2>1, <2>2 DEF Archived
  <2>6. ASSUME NEW p \in Archived
        PROVE  p \in Archived' \cup gone' \cup ToSet(active) \cup ToSet(buffer)
    <3>1. PICK i \in DOMAIN archive : p \in ToSet(archive[i])
      BY <2>6 DEF Archived
    <3>2. CASE i = Len(archive)
      <4>1. p \in ToSet(Last(archive))
        BY <2>1, <3>1, <3>2
      <4>2. ASSUME NEW j \in 1..(Len(archive) - 1), p \in ToSet(archive[j])
            PROVE  p \in Archived'
        <5>1. j \in DOMAIN archive /\ j # Len(archive)
          BY <1>1, AllButLast, Zenon
        <5> QED BY <2>2, <4>2, <5>1 DEF Archived
      <4> QED BY <1>3, <4>1, <4>2
    <3>3. CASE i # Len(archive)
      BY <2>2, <3>1, <3>3 DEF Archived
    <3> QED BY <3>2, <3>3
  <2> QED BY <2>2, <2>4, <2>5, <2>6
<1> QED BY <1>2, <1>3 DEF Archive

LEMMA Bound == \A m, k \in Nat : /\ m * k \in Nat /\ m * 0 = 0
                                 /\ m * (1 + k) = m + m * k /\ m * (k + 1) = m + m * k
<1> QED OBVIOUS

\* The numbers that the bounds relate, before and after a step.
LEMMA Sizes ==
    ASSUME TypeOK, active' \in Seq(Packets), buffer' \in Seq(Packets)
    PROVE  /\ Len(active) + Len(buffer) \in Nat /\ Len(active') + Len(buffer') \in Nat
           /\ count \in Nat /\ MaxPackets * stuck \in Nat /\ MaxPackets * (1 + stuck) \in Nat
<1>1. Len(active) \in Nat /\ Len(buffer) \in Nat /\ Len(active') \in Nat /\ Len(buffer') \in Nat
  BY SetOf DEF TypeOK
<1>2. MaxPackets \in Nat /\ stuck \in Nat /\ count \in Nat
  BY CaptureAssumption DEF TypeOK
<1> QED BY <1>1, <1>2, Bound

\* The middle of a rotation: every packet stays somewhere, and the capture is
\* empty or one more rotation is counted as stuck.
LEMMA MoveKeeps ==
    ASSUME TypeOK, FileOfBuffer, buffer = <<>>, UNCHANGED buffer,
           NEW after \in {"absent", "empty"}, Move(after),
           Len(active) <= MaxPackets * (1 + stuck)
    PROVE  /\ archive' \in Seq(Seq(Packets)) /\ active' \in Seq(Packets)
           /\ stuck' \in Nat /\ file' \in {"absent", "empty", "headed"}
           /\ gone \subseteq gone' /\ gone' \subseteq Packets
           /\ (Current \cup Archived)' \subseteq Current \cup Archived
           /\ Current \cup Archived \subseteq (Current \cup Archived)' \cup gone'
           /\ stuck' = 0 => Current' = {}
           /\ Len(active') <= MaxPackets * stuck'
           /\ file' # "headed" => active' = <<>>
<1>1. /\ active \in Seq(Packets) /\ archive \in Seq(Seq(Packets)) /\ gone \subseteq Packets
      /\ stuck \in Nat /\ file \in {"absent", "empty", "headed"}
      /\ MaxPackets \in Nat /\ Len(active) \in Nat
  BY CaptureAssumption, SetOf DEF TypeOK
<1>2. ToSet(buffer) = {} /\ ToSet(buffer') = {} /\ Current = ToSet(active) /\ Current' = ToSet(active')
  BY Empty DEF Current
<1>3. CASE Archive(active) /\ Unlink(after)
  <2>1. active' = <<>> /\ file' = after /\ stuck' = 0
    BY <1>3 DEF Unlink
  <2>2. /\ archive' \in Seq(Seq(Packets)) /\ gone \subseteq gone' /\ gone' \subseteq Packets
        /\ Archived' \subseteq Archived \cup ToSet(active)
        /\ ToSet(active) \subseteq Archived'
        /\ Archived \subseteq Archived' \cup gone' \cup ToSet(active) \cup ToSet(buffer)
    BY <1>1, <1>3, ArchiveKeeps
  <2>3. Len(active') <= MaxPackets * stuck'
    BY <1>1, <2>1, Bound, Empty
  <2> QED BY <1>2, <2>1, <2>2, <2>3, Empty
<1>4. ASSUME NEW k \in 0..Len(active), Archive(SubSeq(active, 1, k)), Keep
      PROVE  /\ archive' \in Seq(Seq(Packets)) /\ active' \in Seq(Packets)
             /\ stuck' \in Nat /\ file' \in {"absent", "empty", "headed"}
             /\ gone \subseteq gone' /\ gone' \subseteq Packets
             /\ (Current \cup Archived)' \subseteq Current \cup Archived
             /\ Current \cup Archived \subseteq (Current \cup Archived)' \cup gone'
             /\ stuck' = 0 => Current' = {}
             /\ Len(active') <= MaxPackets * stuck'
             /\ file' # "headed" => active' = <<>>
  <2>1. active' = active /\ file' = file /\ stuck' = stuck + 1
    BY <1>4 DEF Keep
  <2>2. /\ archive' \in Seq(Seq(Packets)) /\ gone \subseteq gone' /\ gone' \subseteq Packets
        /\ Archived' \subseteq Archived \cup ToSet(active)
        /\ Archived \subseteq Archived' \cup gone' \cup ToSet(active) \cup ToSet(buffer)
    <3>1. SubSeq(active, 1, k) \in Seq(Packets) /\ ToSet(SubSeq(active, 1, k)) \subseteq ToSet(active)
      BY <1>1, <1>4, Cut
    <3> QED BY <1>4, <3>1, ArchiveKeeps
  <2>3. Len(active') <= MaxPackets * stuck' /\ stuck' \in Nat /\ stuck' # 0
    BY <1>1, <2>1, Bound
  <2> QED BY <1>1, <1>2, <2>1, <2>2, <2>3 DEF FileOfBuffer
<1>5. CASE Keep /\ UNCHANGED <<archive, gone>>
  <2>1. active' = active /\ file' = file /\ stuck' = stuck + 1 /\ Archived' = Archived
    BY <1>5 DEF Keep, Archived
  <2>2. Len(active') <= MaxPackets * stuck' /\ stuck' \in Nat /\ stuck' # 0
    BY <1>1, <2>1, Bound
  <2> QED BY <1>1, <1>2, <1>5, <2>1, <2>2 DEF FileOfBuffer
<1>6. CASE file # "headed" /\ UNCHANGED <<archive, gone, active, file, stuck>>
  <2>1. active = <<>> /\ active' = <<>> /\ Archived' = Archived
    BY <1>6 DEF FileOfBuffer, Archived
  <2>2. Len(active') <= MaxPackets * stuck'
    BY <1>1, <1>6, <2>1, Bound, Empty
  <2> QED BY <1>1, <1>2, <1>6, <2>1, <2>2, Empty
<1> QED BY <1>3, <1>4, <1>5, <1>6 DEF Move

-----------------------------------------------------------------------------
(* The record call *)

LEMMA CallSafe ==
    ASSUME IInv, NEW p \in Packets, Check(p) \/ Acquire(p) \/ OpenFails(p)
    PROVE  IInv'
<1> USE DEF At, Go, GiveUp, Critical
<1>1. UNCHANGED <<running, stopper, starts, writer, count, buffer, active, file, archive, stuck, evidence>>
  BY DEF Check, Acquire, OpenFails, control, disk
<1>2. PICK there \in {"checked", "holding", "rotating", "done"} :
        /\ call' = [call EXCEPT ![p] = there]
        /\ call[p] # "done"
        /\ IF there = "done" THEN gone' = gone \cup {p} ELSE gone' = gone
        /\ there # "done" => stopper # "stopped"
        /\ there \in Critical => \A q \in Packets : call[q] \notin Critical
        /\ there = "holding" => count < MaxPackets
  <2>1. CASE Check(p)
    BY <2>1 DEF Check, IInv, OneInside
  <2>2. CASE Acquire(p)
    BY <2>2 DEF Acquire, IInv, OneInside
  <2>3. CASE OpenFails(p)
    BY <2>3 DEF OpenFails
  <2> QED BY <2>1, <2>2, <2>3
<1>3. /\ \A q \in Packets : call'[q] = IF q = p THEN there ELSE call[q]
      /\ call' \in [Packets -> {"none", "checked", "done"} \cup Critical]
  BY <1>2 DEF IInv, TypeOK
<1>4. TypeOK'
  BY <1>1, <1>2, <1>3 DEF IInv, TypeOK
<1>5. Current' = Current /\ Archived' = Archived
  BY <1>1 DEF Current, Archived
<1>6. FileOfBuffer'
  BY <1>1 DEF IInv, FileOfBuffer
<1>7. OneInside'
  BY <1>1, <1>2, <1>3 DEF IInv, OneInside
<1>8. Counted'
  BY <1>1, <1>2, <1>3 DEF IInv, Counted
<1>9. Rotating'
  BY <1>1, <1>2, <1>3 DEF IInv, Rotating
<1>10. DoneFirst'
  BY <1>1, <1>2, <1>3, <1>5 DEF IInv, DoneFirst
<1>11. PacketKept'
  BY <1>1, <1>2, <1>3, <1>5 DEF IInv, PacketKept, Current
<1>12. ActiveBounded'
  BY <1>1 DEF IInv, ActiveBounded
<1> QED BY <1>4, <1>6, <1>7, <1>8, <1>9, <1>10, <1>11, <1>12 DEF IInv

LEMMA RotateCloseSafe == ASSUME IInv, NEW p \in Packets, RotateClose(p) PROVE IInv'
<1> USE DEF At, Go, Critical
<1>1. /\ UNCHANGED <<running, stopper, starts, count, archive, stuck, evidence>>
      /\ call[p] = "rotating" /\ call' = [call EXCEPT ![p] = "moving"] /\ writer' = "none"
      /\ CloseFile
  BY DEF RotateClose, control
<1>2. /\ active' \in Seq(Packets) /\ buffer' = <<>> /\ buffer' \in Seq(Packets)
      /\ gone \subseteq gone' /\ gone' \subseteq Packets
      /\ Current' \subseteq Current /\ Current \subseteq Current' \cup gone'
      /\ Len(active') + Len(buffer') <= Len(active) + Len(buffer)
      /\ file' \in {file, "headed"}
      /\ file' # "headed" => active' = <<>>
  <2>1. /\ active' \in Seq(Packets) /\ buffer' = <<>> /\ buffer' \in Seq(Packets)
        /\ gone \subseteq gone' /\ gone' \subseteq Packets
        /\ Current' \subseteq Current /\ Current \subseteq Current' \cup gone'
        /\ Len(active') \in Nat /\ Len(buffer') = 0
        /\ Len(active') <= Len(active) + Len(buffer)
        /\ file' \in {file, "headed"}
        /\ file' # "headed" => active' = <<>>
    BY <1>1, CloseKeeps DEF IInv
  <2> QED BY <2>1
<1>3. /\ \A q \in Packets : call'[q] = IF q = p THEN "moving" ELSE call[q]
      /\ call' \in [Packets -> {"none", "checked", "done"} \cup Critical]
  BY <1>1 DEF IInv, TypeOK
<1>4. TypeOK'
  BY <1>1, <1>2, <1>3 DEF IInv, TypeOK
<1>5. Archived' = Archived
  BY <1>1 DEF Archived
<1>6. FileOfBuffer'
  BY <1>1, <1>2 DEF IInv, FileOfBuffer
<1>7. OneInside'
  BY <1>1, <1>3 DEF IInv, OneInside
<1>8. /\ Len(active) + Len(buffer) \in Nat /\ Len(active') + Len(buffer') \in Nat
      /\ count \in Nat /\ MaxPackets * stuck \in Nat /\ MaxPackets * (1 + stuck) \in Nat
  BY <1>2, Sizes DEF IInv
<1>9. Counted'
  <2>1. Len(active) + Len(buffer) <= count + MaxPackets * stuck
    BY <1>1 DEF IInv, Counted, OneInside
  <2>2. Len(active') + Len(buffer') <= count + MaxPackets * stuck
    BY <1>2, <1>8, <2>1
  <2> QED BY <1>1, <1>3, <2>2 DEF IInv, Counted
<1>10. Rotating'
  <2>1. \A q \in Packets : call'[q] # "opening"
    BY <1>1, <1>3 DEF IInv, OneInside
  <2> QED BY <1>1, <2>1 DEF Rotating
<1>11. DoneFirst'
  BY <1>1, <1>2, <1>3, <1>5 DEF IInv, DoneFirst
<1>12. PacketKept'
  <2>1. \A q \in Packets : call'[q] = "done" => q \in Current' \cup Archived' \cup gone'
    BY <1>2, <1>3, <1>5 DEF IInv, PacketKept, Current
  <2>2. stuck' = 0 => Current' \cap Archived' = {}
    BY <1>1, <1>2, <1>5 DEF IInv, PacketKept, Current
  <2> QED BY <2>1, <2>2 DEF PacketKept, Current
<1>13. ActiveBounded'
  BY <1>1, <1>2, <1>8 DEF IInv, ActiveBounded
<1> QED BY <1>4, <1>6, <1>7, <1>9, <1>10, <1>11, <1>12, <1>13 DEF IInv

LEMMA RotateMoveSafe == ASSUME IInv, NEW p \in Packets, RotateMove(p) PROVE IInv'
<1> USE DEF At, Go, Critical
<1>1. /\ UNCHANGED <<running, stopper, starts, writer, count, buffer, evidence>>
      /\ call[p] = "moving" /\ call' = [call EXCEPT ![p] = "opening"]
      /\ Move("absent")
  BY DEF RotateMove, control
<1>2. writer = "none" /\ buffer = <<>>
  BY <1>1 DEF IInv, Rotating, FileOfBuffer
<1>3. Len(active) <= MaxPackets * (1 + stuck)
  BY <1>2, Empty, SetOf DEF IInv, TypeOK, ActiveBounded
<1>4. /\ archive' \in Seq(Seq(Packets)) /\ active' \in Seq(Packets)
      /\ stuck' \in Nat /\ file' \in {"absent", "empty", "headed"}
      /\ gone \subseteq gone' /\ gone' \subseteq Packets
      /\ (Current \cup Archived)' \subseteq Current \cup Archived
      /\ Current \cup Archived \subseteq (Current \cup Archived)' \cup gone'
      /\ stuck' = 0 => Current' = {}
      /\ Len(active') <= MaxPackets * stuck'
      /\ file' # "headed" => active' = <<>>
  BY <1>1, <1>2, <1>3, MoveKeeps DEF IInv
<1>5. /\ \A q \in Packets : call'[q] = IF q = p THEN "opening" ELSE call[q]
      /\ call' \in [Packets -> {"none", "checked", "done"} \cup Critical]
  BY <1>1 DEF IInv, TypeOK
<1>6. TypeOK'
  BY <1>1, <1>4, <1>5 DEF IInv, TypeOK
<1>7. FileOfBuffer'
  BY <1>1, <1>2, <1>4 DEF FileOfBuffer
<1>8. OneInside'
  BY <1>1, <1>5 DEF IInv, OneInside
<1>9. /\ Len(active') + Len(buffer') = Len(active') /\ Len(active') \in Nat
      /\ count \in Nat /\ MaxPackets \in Nat /\ MaxPackets * stuck' \in Nat
      /\ MaxPackets * (1 + stuck') = MaxPackets + MaxPackets * stuck'
  <2>1. Len(active') \in Nat
    BY <1>4, SetOf
  <2>2. Len(buffer') = 0
    BY <1>1, <1>2, Empty
  <2>3. Len(active') + Len(buffer') = Len(active')
    BY <2>1, <2>2
  <2>4. count \in Nat /\ MaxPackets \in Nat
    BY CaptureAssumption DEF IInv, TypeOK
  <2>5. /\ MaxPackets * stuck' \in Nat
        /\ MaxPackets * (1 + stuck') = MaxPackets + MaxPackets * stuck'
    BY <1>4, <2>4, Bound
  <2> QED BY <2>1, <2>3, <2>4, <2>5
<1>10. Counted'
  <2>0. \A l, c, m \in Nat : l <= m => l <= c + m
    OBVIOUS
  <2>1. Len(active') + Len(buffer') <= count' + MaxPackets * stuck'
    <3>1. Len(active') <= count + MaxPackets * stuck'
      BY <1>4, <1>9, <2>0
    <3> QED BY <1>1, <1>9, <3>1
  <2>2. \A q \in Packets : call'[q] \in {"holding", "ready"} => count' < MaxPackets
    BY <1>1, <1>5 DEF IInv, Counted
  <2>3. count' <= MaxPackets
    BY <1>1 DEF IInv, Counted
  <2> QED BY <2>1, <2>2, <2>3 DEF Counted
<1>11. Rotating'
  <2>1. \A q \in Packets : call'[q] \in {"moving", "opening"} => q = p
    BY <1>1, <1>5 DEF IInv, OneInside
  <2> QED BY <1>1, <1>2, <1>4, <2>1 DEF Rotating
<1>12. DoneFirst'
  BY <1>1, <1>4, <1>5 DEF IInv, DoneFirst
<1>13. PacketKept'
  <2>1. \A q \in Packets : call'[q] = "done" => q \in (Current \cup Archived)' \cup gone'
    BY <1>4, <1>5 DEF IInv, PacketKept, Current
  <2> QED BY <1>4, <2>1 DEF PacketKept, Current
<1>14. ActiveBounded'
  BY <1>4, <1>9 DEF ActiveBounded
<1> QED BY <1>6, <1>7, <1>8, <1>10, <1>11, <1>12, <1>13, <1>14 DEF IInv

LEMMA OpenSafe ==
    ASSUME IInv, NEW p \in Packets, RotateOpen(p) \/ Ready(p) PROVE IInv'
<1> USE DEF At, Go, Critical
<1>1. UNCHANGED <<running, stopper, starts, buffer, active, archive, stuck, gone, evidence>>
  BY DEF RotateOpen, Ready, control
<1>2. PICK there \in {"holding", "ready"} :
        /\ call' = [call EXCEPT ![p] = there]
        /\ \/ call[p] = "opening" /\ there = "holding" /\ count' = 0
           \/ call[p] = "holding" /\ there = "ready" /\ count' = count
  BY DEF RotateOpen, Ready
<1>3. /\ writer' \in {"open", writer} /\ writer' # "none"
      /\ file' = file \/ (file = "absent" /\ file' = "empty")
  BY DEF RotateOpen, Ready, Touched, IInv, TypeOK
<1>4. /\ \A q \in Packets : call'[q] = IF q = p THEN there ELSE call[q]
      /\ call' \in [Packets -> {"none", "checked", "done"} \cup Critical]
  BY <1>2 DEF IInv, TypeOK
<1>5. TypeOK'
  BY <1>1, <1>2, <1>3, <1>4 DEF IInv, TypeOK
<1>6. Current' = Current /\ Archived' = Archived
  BY <1>1 DEF Current, Archived
<1>7. stopper # "stopped" /\ \A q \in Packets : call'[q] \in Critical => q = p
  BY <1>2, <1>4 DEF IInv, OneInside
<1>8. FileOfBuffer'
  BY <1>1, <1>3 DEF IInv, FileOfBuffer
<1>9. OneInside'
  BY <1>1, <1>7 DEF IInv, OneInside
<1>10. Counted'
  <2>1. MaxPackets \in Nat /\ MaxPackets > 0 /\ count \in Nat
    BY CaptureAssumption DEF IInv, TypeOK
  <2>2. CASE call[p] = "opening" /\ there = "holding" /\ count' = 0
    <3>1. Len(buffer) = 0 /\ Len(active) <= MaxPackets * stuck
      BY <2>2, Empty DEF IInv, Rotating, FileOfBuffer
    <3>2. Len(active) \in Nat /\ MaxPackets * stuck \in Nat
      BY <2>1, SetOf, Bound DEF IInv, TypeOK
    <3>3. Len(active) + Len(buffer) <= count' + MaxPackets * stuck
      BY <2>2, <3>1, <3>2
    <3> QED BY <1>1, <2>1, <2>2, <3>3 DEF Counted
  <2>3. CASE call[p] = "holding" /\ there = "ready" /\ count' = count
    BY <1>1, <1>4, <2>3 DEF IInv, Counted
  <2> QED BY <1>2, <2>2, <2>3
<1>11. Rotating'
  BY <1>4, <1>7 DEF Rotating
<1>12. DoneFirst'
  BY <1>1, <1>2, <1>4, <1>6 DEF IInv, DoneFirst
<1>13. PacketKept'
  BY <1>1, <1>4, <1>6 DEF IInv, PacketKept, Current
<1>14. ActiveBounded'
  BY <1>1 DEF IInv, ActiveBounded
<1> QED BY <1>5, <1>8, <1>9, <1>10, <1>11, <1>12, <1>13, <1>14 DEF IInv

LEMMA WriteSafe == ASSUME IInv, NEW p \in Packets, Write(p) PROVE IInv'
<1> USE DEF At, Go, GiveUp, Critical
<1>1. /\ UNCHANGED <<running, stopper, starts, writer, archive, stuck, evidence>>
      /\ call[p] = "ready" /\ call' = [call EXCEPT ![p] = "done"]
  BY DEF Write, control
<1>2. /\ active \in Seq(Packets) /\ buffer \in Seq(Packets)
      /\ Len(active) \in Nat /\ Len(buffer) \in Nat
      /\ count \in Nat /\ stuck \in Nat /\ MaxPackets \in Nat
      /\ MaxPackets * stuck \in Nat /\ count < MaxPackets
      /\ MaxPackets * (1 + stuck) = MaxPackets + MaxPackets * stuck
  <2>1. active \in Seq(Packets) /\ buffer \in Seq(Packets) /\ count \in Nat /\ stuck \in Nat
    BY DEF IInv, TypeOK
  <2>2. count < MaxPackets
    BY <1>1 DEF IInv, Counted
  <2>3. MaxPackets \in Nat
    BY CaptureAssumption
  <2>4. /\ MaxPackets * stuck \in Nat
        /\ MaxPackets * (1 + stuck) = MaxPackets + MaxPackets * stuck
    BY <2>1, <2>3, Bound
  <2>5. Len(active) \in Nat /\ Len(buffer) \in Nat
    BY <2>1, SetOf
  <2> QED BY <2>1, <2>2, <2>3, <2>4, <2>5
<1>3. /\ active' \in Seq(Packets) /\ buffer' \in Seq(Packets) /\ gone' \subseteq Packets
      /\ \/ /\ writer = "open" /\ gone' = gone /\ file' = "headed" /\ count' = count + 1
            /\ Current' = Current \cup {p}
            /\ Len(active') + Len(buffer') = Len(active) + Len(buffer) + 1
         \/ /\ gone' = gone \cup {p} /\ Current' = Current
            /\ count' = count /\ Len(active') + Len(buffer') = Len(active) + Len(buffer)
      /\ file' \in {file, "headed"}
      /\ buffer' # <<>> => writer = "open"
      /\ file' # "headed" => active' = <<>> /\ buffer' = <<>>
  <2>1. CASE /\ writer = "open" /\ buffer' = Append(buffer, p) /\ active' = active
             /\ gone' = gone /\ file' = "headed" /\ count' = count + 1
    <3>2. /\ buffer' \in Seq(Packets) /\ Len(buffer') = Len(buffer) + 1
          /\ ToSet(buffer') = ToSet(buffer) \cup {p}
      BY <1>2, <2>1, Appended
    <3>3. Current' = Current \cup {p}
      BY <2>1, <3>2 DEF Current
    <3>4. Len(active') + Len(buffer') = Len(active) + Len(buffer) + 1
      BY <1>2, <2>1, <3>2
    <3> QED BY <1>2, <2>1, <3>2, <3>3, <3>4 DEF IInv, TypeOK
  <2>2. CASE /\ writer = "open" /\ active' = active \o buffer /\ buffer' = <<p>>
             /\ gone' = gone /\ file' = "headed" /\ count' = count + 1
    <3>2. /\ buffer' \in Seq(Packets) /\ Len(buffer') = 1 /\ ToSet(buffer') = {p}
      BY <2>2 DEF ToSet
    <3>3. /\ active' \in Seq(Packets) /\ Len(active') = Len(active) + Len(buffer)
          /\ ToSet(active') = ToSet(active) \cup ToSet(buffer)
      BY <1>2, <2>2, Joined
    <3>4. Current' = Current \cup {p}
      BY <3>2, <3>3 DEF Current
    <3>5. Len(active') + Len(buffer') = Len(active) + Len(buffer) + 1
      BY <1>2, <3>2, <3>3
    <3> QED BY <2>2, <3>2, <3>3, <3>4, <3>5 DEF IInv, TypeOK
  <2>3. ASSUME writer = "open", NEW k \in 0..Len(buffer),
               active' = active \o Written(k), buffer' = Refused(k),
               file' \in {file, "headed"}, count' = count, gone' = gone \cup {p}
        PROVE  /\ active' \in Seq(Packets) /\ buffer' \in Seq(Packets) /\ gone' \subseteq Packets
               /\ Current' = Current /\ Len(active') + Len(buffer') = Len(active) + Len(buffer)
               /\ file' # "headed" => active' = <<>> /\ buffer' = <<>>
    <3>1. /\ active' \in Seq(Packets) /\ buffer' \in Seq(Packets)
          /\ Len(active') + Len(buffer') = Len(active) + Len(buffer)
          /\ Len(active') \in Nat /\ Len(buffer') \in Nat
          /\ ToSet(active') \cup ToSet(buffer') = Current
      BY <1>2, <2>3, WrittenOrRefused
    <3>2. ASSUME file' # "headed" PROVE active' = <<>> /\ buffer' = <<>>
      <4>1. Len(active) = 0 /\ Len(buffer) = 0
        BY <2>3, <3>2, Empty DEF IInv, FileOfBuffer
      <4>2. Len(active') = 0 /\ Len(buffer') = 0
        BY <3>1, <4>1
      <4> QED BY <3>1, <4>2
    <3> QED BY <2>3, <3>1, <3>2 DEF Current, IInv, TypeOK
  <2>4. CASE /\ writer # "open" /\ gone' = gone \cup {p}
             /\ UNCHANGED <<buffer, active, file, count>>
    BY <1>2, <2>4 DEF Current, IInv, TypeOK, FileOfBuffer
  <2> QED BY <2>1, <2>2, <2>3, <2>4 DEF Write
<1>4. /\ \A q \in Packets : call'[q] = IF q = p THEN "done" ELSE call[q]
      /\ call' \in [Packets -> {"none", "checked", "done"} \cup Critical]
  BY <1>1 DEF IInv, TypeOK
<1>5. TypeOK'
  BY <1>1, <1>2, <1>3, <1>4 DEF IInv, TypeOK
<1>6. Archived' = Archived
  BY <1>1 DEF Archived
<1>7. p \notin Archived /\ stopper # "stopped" /\ \A q \in Packets : call'[q] \notin Critical
  BY <1>1, <1>4 DEF IInv, DoneFirst, OneInside
<1>8. FileOfBuffer'
  BY <1>1, <1>3 DEF IInv, FileOfBuffer
<1>9. OneInside'
  BY <1>1, <1>7 DEF IInv, OneInside
<1>10. Counted'
  <2>1. Len(active) + Len(buffer) <= count + MaxPackets * stuck
    BY <1>7 DEF IInv, Counted
  <2>2. count' <= MaxPackets
    BY <1>2, <1>3
  <2>3. Len(active') + Len(buffer') <= count' + MaxPackets * stuck'
    BY <1>1, <1>2, <1>3, <2>1
  <2> QED BY <1>7, <2>2, <2>3 DEF Counted
<1>11. Rotating'
  BY <1>7 DEF Rotating
<1>12. DoneFirst'
  BY <1>1, <1>3, <1>4, <1>6 DEF IInv, DoneFirst
<1>13. PacketKept'
  <2>1. \A q \in Packets : call'[q] = "done" => q \in Current' \cup Archived' \cup gone'
    BY <1>3, <1>4, <1>6 DEF IInv, PacketKept, Current
  <2>2. stuck' = 0 => Current' \cap Archived' = {}
    BY <1>1, <1>3, <1>6, <1>7 DEF IInv, PacketKept, Current
  <2> QED BY <2>1, <2>2 DEF PacketKept, Current
<1>14. ActiveBounded'
  <2>1. Len(active) + Len(buffer) <= count + MaxPackets * stuck
    BY <1>7 DEF IInv, Counted
  <2>2. Len(active') + Len(buffer') <= MaxPackets + MaxPackets * stuck
    BY <1>2, <1>3, <2>1
  <2> QED BY <1>1, <1>2, <2>2 DEF ActiveBounded
<1> QED BY <1>5, <1>8, <1>9, <1>10, <1>11, <1>12, <1>13, <1>14 DEF IInv

-----------------------------------------------------------------------------
(* The process and the evidence *)

LEMMA StartSafe == ASSUME IInv, Start PROVE IInv'
<1>1. /\ stopper = "stopped" /\ stopper' = "up" /\ running' = TRUE
      /\ starts' = starts + 1 /\ starts < MaxStarts
      /\ UNCHANGED <<call, count, buffer, evidence>>
  BY DEF Start
<1>2. /\ writer = "none" /\ count = 0 /\ buffer = <<>>
      /\ \A p \in Packets : call[p] \in {"none", "done"}
  BY <1>1 DEF IInv, OneInside, FileOfBuffer
<1>3. Len(active) <= MaxPackets * (1 + stuck) /\ Len(buffer) = 0
  BY <1>2, Empty, SetOf DEF IInv, TypeOK, ActiveBounded
<1>4. /\ archive' \in Seq(Seq(Packets)) /\ active' \in Seq(Packets)
      /\ stuck' \in Nat /\ file' \in {"absent", "empty", "headed"}
      /\ writer' \in {"none", "open"}
      /\ gone \subseteq gone' /\ gone' \subseteq Packets
      /\ (Current \cup Archived)' \subseteq Current \cup Archived
      /\ Current \cup Archived \subseteq (Current \cup Archived)' \cup gone'
      /\ stuck' = 0 => Current' = {}
      /\ Len(active') <= MaxPackets * stuck'
      /\ file' # "headed" => active' = <<>>
  <2>1. CASE \E after \in {"absent", "empty"} : Move(after)
    BY <1>1, <1>2, <1>3, <2>1, MoveKeeps DEF Start, IInv
  <2>2. CASE file # "headed" /\ UNCHANGED <<active, file, archive, stuck, gone, writer>>
    <3>1. active = <<>> /\ active' = <<>> /\ buffer' = <<>>
      BY <1>1, <1>2, <2>2 DEF IInv, FileOfBuffer
    <3>2. Current = {} /\ Current' = {} /\ Archived' = Archived
      BY <1>2, <2>2, <3>1, Empty DEF Current, Archived
    <3>3. Len(active') = 0 /\ stuck \in Nat /\ MaxPackets \in Nat
      BY <3>1, Empty, CaptureAssumption DEF IInv, TypeOK
    <3>4. Len(active') <= MaxPackets * stuck'
      BY <2>2, <3>3, Bound
    <3> QED BY <1>2, <2>2, <3>1, <3>2, <3>4 DEF IInv, TypeOK
  <2> QED BY <2>1, <2>2 DEF Start
<1>5. /\ Len(buffer') = 0 /\ Len(active') \in Nat /\ MaxPackets \in Nat
      /\ MaxPackets * stuck' \in Nat
      /\ MaxPackets * (1 + stuck') = MaxPackets + MaxPackets * stuck'
  <2>1. Len(buffer') = 0 /\ Len(active') \in Nat
    BY <1>1, <1>3, <1>4, SetOf
  <2>2. MaxPackets \in Nat
    BY CaptureAssumption
  <2> QED BY <1>4, <2>1, <2>2, Bound
<1>6. TypeOK'
  BY <1>1, <1>4, CaptureAssumption DEF IInv, TypeOK
<1>7. FileOfBuffer'
  BY <1>1, <1>2, <1>4 DEF FileOfBuffer
<1>8. OneInside'
  BY <1>1, <1>2 DEF OneInside, Critical
<1>9. Counted'
  <2>1. count' = 0 /\ count' <= MaxPackets
    BY <1>1, <1>2, <1>5
  <2>2. Len(active') + Len(buffer') <= count' + MaxPackets * stuck'
    BY <1>4, <1>5, <2>1
  <2>3. \A p \in Packets : call'[p] \notin {"holding", "ready"}
    BY <1>1, <1>2
  <2> QED BY <2>1, <2>2, <2>3 DEF Counted
<1>10. Rotating'
  BY <1>1, <1>2 DEF Rotating
<1>11. DoneFirst'
  BY <1>1, <1>4 DEF IInv, DoneFirst
<1>12. PacketKept'
  <2>1. \A q \in Packets : call'[q] = "done" => q \in (Current \cup Archived)' \cup gone'
    BY <1>1, <1>4 DEF IInv, PacketKept, Current
  <2> QED BY <1>4, <2>1 DEF PacketKept, Current
<1>13. ActiveBounded'
  BY <1>4, <1>5 DEF ActiveBounded
<1> QED BY <1>6, <1>7, <1>8, <1>9, <1>10, <1>11, <1>12, <1>13 DEF IInv

LEMMA StopSafe ==
    ASSUME IInv, StopFlag \/ StopClose \/ StopForget \/ Exit PROVE IInv'
<1>1. /\ UNCHANGED <<starts, call, archive, stuck, evidence>>
      /\ stopper # "stopped" /\ running' = FALSE
      /\ stopper' \in {"closing", "forgetting", "closed", "stopped"}
      /\ stopper' = "stopped" => Exit
      /\ \/ UNCHANGED <<writer, buffer, active, file, gone>>
         \/ /\ CloseFile \/ Collect
            /\ writer' \in {"none", "open", "closed"} /\ (writer = "none" => writer' = "none")
      /\ count' = count \/ (count' = 0 /\ Exit)
  BY DEF StopFlag, StopClose, StopForget, Exit, control, disk, IInv, TypeOK, OneInside
<1>2. /\ active' \in Seq(Packets) /\ buffer' \in Seq(Packets)
      /\ gone \subseteq gone' /\ gone' \subseteq Packets
      /\ Current' \subseteq Current /\ Current \subseteq Current' \cup gone'
      /\ Len(active') + Len(buffer') <= Len(active) + Len(buffer)
      /\ file' \in {file, "headed"}
      /\ file' # "headed" => active' = <<>> /\ buffer' = <<>>
      /\ buffer' # <<>> => writer' = "open"
      /\ writer = "none" => writer' = "none" /\ active' = active
      /\ writer' \in {"none", "open", "closed"}
  <2>1. CASE UNCHANGED <<writer, buffer, active, file, gone>>
    <3>1. Len(active') + Len(buffer') <= Len(active) + Len(buffer)
      BY <2>1, SetOf DEF IInv, TypeOK
    <3> QED BY <2>1, <3>1 DEF IInv, TypeOK, FileOfBuffer, Current
  <2>2. CASE /\ CloseFile \/ Collect
             /\ writer' \in {"none", "open", "closed"} /\ (writer = "none" => writer' = "none")
    <3>1. writer = "none" => active' = active
      BY <2>2 DEF CloseFile, Collect
    <3>2. /\ active' \in Seq(Packets) /\ buffer' = <<>> /\ buffer' \in Seq(Packets)
          /\ gone \subseteq gone' /\ gone' \subseteq Packets
          /\ Current' \subseteq Current /\ Current \subseteq Current' \cup gone'
          /\ Len(active') \in Nat /\ Len(buffer') = 0
          /\ Len(active') <= Len(active) + Len(buffer)
          /\ file' \in {file, "headed"}
          /\ file' # "headed" => active' = <<>>
      BY <2>2, CloseKeeps DEF IInv
    <3>3. Len(active') + Len(buffer') <= Len(active) + Len(buffer)
      BY <3>2
    <3> QED BY <2>2, <3>1, <3>2, <3>3
  <2> QED BY <1>1, <2>1, <2>2
<1>3. Archived' = Archived
  BY <1>1 DEF Archived
<1>4. Exit => /\ \A p \in Packets : call[p] \in {"none", "done"}
              /\ writer' = "none" /\ count' = 0 /\ stopper' = "stopped"
  BY DEF Exit
<1>5. TypeOK'
  <2>1. running' \in BOOLEAN
    BY <1>1
  <2>2. count' \in Nat
    BY <1>1 DEF IInv, TypeOK
  <2>3. file' \in {"absent", "empty", "headed"}
    BY <1>2 DEF IInv, TypeOK
  <2>4. stopper' \in {"stopped", "up", "closing", "forgetting", "closed"}
    BY <1>1
  <2> QED BY <1>1, <1>2, <2>1, <2>2, <2>3, <2>4 DEF IInv, TypeOK
<1>6. FileOfBuffer'
  BY <1>2 DEF FileOfBuffer
<1>7. OneInside'
  BY <1>1, <1>4 DEF IInv, OneInside
<1>8. /\ Len(active) + Len(buffer) \in Nat /\ Len(active') + Len(buffer') \in Nat
      /\ count \in Nat /\ MaxPackets * stuck \in Nat /\ MaxPackets * (1 + stuck) \in Nat
  BY <1>2, Sizes DEF IInv
<1>9. Counted'
  <2>1. CASE Exit
    BY <1>1, <1>4, <2>1, CaptureAssumption DEF Counted
  <2>2. CASE ~Exit
    <3>1. Len(active) + Len(buffer) <= count + MaxPackets * stuck
      BY <1>1 DEF IInv, Counted
    <3>2. Len(active') + Len(buffer') <= count + MaxPackets * stuck
      BY <1>2, <1>8, <3>1
    <3> QED BY <1>1, <2>2, <3>2 DEF IInv, Counted
  <2> QED BY <2>1, <2>2
<1>10. Rotating'
  BY <1>1, <1>2 DEF IInv, Rotating
<1>11. DoneFirst'
  BY <1>1, <1>2, <1>3 DEF IInv, DoneFirst
<1>12. PacketKept'
  <2>1. \A q \in Packets : call'[q] = "done" => q \in Current' \cup Archived' \cup gone'
    BY <1>1, <1>2, <1>3 DEF IInv, PacketKept, Current
  <2>2. stuck' = 0 => Current' \cap Archived' = {}
    BY <1>1, <1>2, <1>3 DEF IInv, PacketKept, Current
  <2> QED BY <2>1, <2>2 DEF PacketKept, Current
<1>13. ActiveBounded'
  BY <1>1, <1>2, <1>8 DEF IInv, ActiveBounded
<1> QED BY <1>5, <1>6, <1>7, <1>9, <1>10, <1>11, <1>12, <1>13 DEF IInv

LEMMA CrashSafe == ASSUME IInv, Crash PROVE IInv'
<1>1. /\ running' = FALSE /\ stopper' = "stopped"
      /\ gone' = gone \cup ToSet(buffer) \cup {p \in Packets : call[p] \notin {"none", "done"}}
      /\ call' = [p \in Packets |-> IF call[p] = "none" THEN "none" ELSE "done"]
      /\ writer' = "none" /\ buffer' = <<>> /\ count' = 0
      /\ evidence' = [p \in Packets |-> IF evidence[p] = "located" THEN "none" ELSE evidence[p]]
      /\ UNCHANGED <<starts, active, file, archive, stuck>>
  BY DEF Crash
<1>2. /\ active \in Seq(Packets) /\ buffer \in Seq(Packets)
      /\ ToSet(buffer) \subseteq Packets /\ Len(active) \in Nat /\ Len(buffer) \in Nat
      /\ Len(buffer') = 0 /\ ToSet(buffer') = {} /\ buffer' \in Seq(Packets)
  <2>1. active \in Seq(Packets) /\ buffer \in Seq(Packets)
    BY DEF IInv, TypeOK
  <2> QED BY <1>1, <2>1, Empty, SetOf
<1>3. Current' \subseteq Current /\ Current \subseteq Current' \cup gone' /\ Archived' = Archived
  BY <1>1, <1>2 DEF Current, Archived
<1>4. TypeOK'
  BY <1>1, <1>2 DEF IInv, TypeOK
<1>5. FileOfBuffer' /\ OneInside' /\ Rotating'
  BY <1>1 DEF IInv, FileOfBuffer, OneInside, Rotating, Critical
<1>6. Counted'
  BY <1>1, CaptureAssumption DEF Counted
<1>7. DoneFirst'
  BY <1>1, <1>3 DEF IInv, DoneFirst, TypeOK
<1>8. PacketKept'
  <2>1. ASSUME NEW p \in Packets, call'[p] = "done"
        PROVE  p \in Current' \cup Archived' \cup gone'
    <3>1. CASE call[p] = "done"
      BY <1>1, <1>3, <3>1 DEF IInv, PacketKept, Current
    <3>2. CASE call[p] # "done"
      BY <1>1, <2>1, <3>2
    <3> QED BY <3>1, <3>2
  <2>2. stuck' = 0 => Current' \cap Archived' = {}
    BY <1>1, <1>3 DEF IInv, PacketKept, Current
  <2> QED BY <2>1, <2>2 DEF PacketKept, Current
<1>9. ActiveBounded'
  <2>1. MaxPackets * (1 + stuck) \in Nat
    BY Bound, CaptureAssumption DEF IInv, TypeOK
  <2> QED BY <1>1, <1>2, <2>1 DEF IInv, ActiveBounded
<1> QED BY <1>4, <1>5, <1>6, <1>7, <1>8, <1>9 DEF IInv

LEMMA EvidenceSafe == ASSUME IInv, NEW p \in Packets, Locate(p) \/ Copy(p) PROVE IInv'
<1>1. UNCHANGED <<running, stopper, starts, call, writer, count, buffer, active, file, archive, stuck, gone>>
  BY DEF Locate, Copy, control, disk
<1>2. \E there \in {"located", "failed", "with", "without"} :
        evidence' = [evidence EXCEPT ![p] = there]
  BY DEF Locate, Copy
<1>3. call[p] = "done"
  BY DEF Locate, Copy, At, IInv, DoneFirst
<1>4. Current' = Current /\ Archived' = Archived
  BY <1>1 DEF Current, Archived
<1>5. TypeOK'
  BY <1>1, <1>2 DEF IInv, TypeOK
<1>6. FileOfBuffer' /\ OneInside' /\ Counted' /\ Rotating'
  BY <1>1 DEF IInv, FileOfBuffer, OneInside, Counted, Rotating
<1>7. DoneFirst'
  BY <1>1, <1>2, <1>3, <1>4 DEF IInv, DoneFirst, TypeOK
<1>8. PacketKept' /\ ActiveBounded'
  BY <1>1, <1>4 DEF IInv, PacketKept, ActiveBounded, Current
<1> QED BY <1>5, <1>6, <1>7, <1>8 DEF IInv

-----------------------------------------------------------------------------
LEMMA InitSafe == Init => IInv
<1> SUFFICES ASSUME Init PROVE IInv
  OBVIOUS
<1> USE DEF Init
<1>1. MaxPackets \in Nat /\ MaxPackets > 0 /\ MaxStarts \in Nat /\ MaxPackets * 0 = 0
      /\ MaxPackets * (1 + 0) = MaxPackets + MaxPackets * 0
  BY CaptureAssumption, Bound
<1>2. <<>> \in Seq(Packets) /\ <<>> \in Seq(Seq(Packets)) /\ Len(<<>>) = 0
  BY Empty
<1>3. Current = {} /\ Archived = {}
  BY Empty DEF Current, Archived
<1>4. TypeOK
  <2>1. /\ call \in [Packets -> {"none", "checked", "done"} \cup Critical]
        /\ evidence \in [Packets -> {"none", "located", "failed", "with", "without"}]
    OBVIOUS
  <2>0. running \in BOOLEAN
    OBVIOUS
  <2>2. /\ starts \in 0..MaxStarts
        /\ stopper \in {"stopped", "up", "closing", "forgetting", "closed"}
        /\ writer \in {"none", "open", "closed"} /\ file \in {"absent", "empty", "headed"}
        /\ count \in Nat /\ stuck \in Nat /\ gone \in SUBSET Packets
    BY <1>1
  <2>3. buffer \in Seq(Packets) /\ active \in Seq(Packets) /\ archive \in Seq(Seq(Packets))
    BY <1>2
  <2> QED BY <2>0, <2>1, <2>2, <2>3 DEF TypeOK
<1>5. FileOfBuffer /\ OneInside /\ Rotating
  BY DEF FileOfBuffer, OneInside, Rotating, Critical
<1>6. Counted
  BY <1>1 DEF Counted
<1>7. DoneFirst /\ PacketKept
  BY <1>3 DEF DoneFirst, PacketKept, Current
<1>8. ActiveBounded
  BY <1>1, <1>2 DEF ActiveBounded
<1> QED BY <1>4, <1>5, <1>6, <1>7, <1>8 DEF IInv

LEMMA StepSafe == IInv /\ [Next]_vars => IInv'
<1> SUFFICES ASSUME IInv, [Next]_vars PROVE IInv'
  OBVIOUS
<1>1. ASSUME NEW p \in Packets, Check(p) \/ Acquire(p) \/ OpenFails(p) PROVE IInv'
  BY <1>1, CallSafe
<1>2. ASSUME NEW p \in Packets, RotateClose(p) PROVE IInv'
  BY <1>2, RotateCloseSafe
<1>3. ASSUME NEW p \in Packets, RotateMove(p) PROVE IInv'
  BY <1>3, RotateMoveSafe
<1>4. ASSUME NEW p \in Packets, RotateOpen(p) \/ Ready(p) PROVE IInv'
  BY <1>4, OpenSafe
<1>5. ASSUME NEW p \in Packets, Write(p) PROVE IInv'
  BY <1>5, WriteSafe
<1>6. ASSUME NEW p \in Packets, Locate(p) \/ Copy(p) PROVE IInv'
  BY <1>6, EvidenceSafe
<1>7. CASE Start
  BY <1>7, StartSafe
<1>8. CASE StopFlag \/ StopClose \/ StopForget \/ Exit
  BY <1>8, StopSafe
<1>9. CASE Crash
  BY <1>9, CrashSafe
<1>10. CASE UNCHANGED vars
  BY <1>10 DEF vars, control, disk, IInv, TypeOK, FileOfBuffer, OneInside, Counted, Rotating,
               DoneFirst, PacketKept, ActiveBounded, Current, Archived
<1> QED BY <1>1, <1>2, <1>3, <1>4, <1>5, <1>6, <1>7, <1>8, <1>9, <1>10 DEF Next

LEMMA Invariance == Spec => []IInv
<1> QED BY InitSafe, StepSafe, PTL DEF Spec

\* Writer, lock and files of FlowPcapRecorder keep their shapes through every crash,
\* stop and half-done rotation.
THEOREM CaptureTyped == Spec => []TypeOK
<1>1. IInv => TypeOK
  BY DEF IInv
<1> QED BY Invariance, <1>1, PTL

\* A packet whose record call has returned is in the capture, in its buffer or in the
\* archive, or its loss has one of the causes the code accepts, which a failing close is
\* one of: this is FlowPcapRecorder with record, _rotate, stop and a crash interleaved in
\* any way.
THEOREM PacketsKept == Spec => []PacketKept
<1>1. IInv => PacketKept
  BY DEF IInv
<1> QED BY <1>1, Invariance, PTL

\* The capture never holds more than max_bytes for each rotation that could not remove
\* it and one more, whatever earlier runs of FlowPcapRecorder left behind.
THEOREM CaptureBounded == Spec => []ActiveBounded
<1>1. IInv => ActiveBounded
  BY DEF IInv
<1> QED BY <1>1, Invariance, PTL

\* EvidenceCollector's copy lacks the packet of its flow only if that packet was still
\* buffered, already archived, or lost for one of the causes the code accepts.
THEOREM EvidenceGapsHaveCauses == Spec => EvidenceGapHasCause
<1>1. IInv /\ [Next]_vars =>
        [\A p \in Packets : evidence[p] # "without" /\ evidence'[p] = "without" =>
            p \in ToSet(buffer) \cup Archived \cup gone]_vars
  <2> SUFFICES ASSUME IInv, Next, NEW p \in Packets,
                      evidence[p] # "without", evidence'[p] = "without"
               PROVE  p \in ToSet(buffer) \cup Archived \cup gone
    OBVIOUS
  <2>1. Copy(p)
    <3>1. evidence \in [Packets -> {"none", "located", "failed", "with", "without"}]
      BY DEF IInv, TypeOK
    <3>2. \A q \in Packets : Copy(q) => q = p
      BY <3>1 DEF Copy
    <3>3. \A q \in Packets : ~Locate(q)
      BY <3>1 DEF Locate
    <3>4. \A q \in Packets :
            ~(\/ Check(q) \/ Acquire(q) \/ RotateClose(q) \/ RotateMove(q) \/ RotateOpen(q)
              \/ Ready(q) \/ Write(q) \/ OpenFails(q))
      BY DEF Check, Acquire, RotateClose, RotateMove, RotateOpen, Ready, Write, OpenFails
    <3>5. ~(Start \/ StopFlag \/ StopClose \/ StopForget \/ Exit \/ Crash)
      BY <3>1 DEF Start, StopFlag, StopClose, StopForget, Exit, Crash
    <3> QED BY <3>2, <3>3, <3>4, <3>5 DEF Next
  <2>2. evidence[p] = "located" /\ p \notin ToSet(active)
    BY <2>1 DEF Copy, IInv, TypeOK
  <2>3. call[p] = "done"
    BY <2>2 DEF IInv, DoneFirst
  <2> QED BY <2>2, <2>3 DEF IInv, PacketKept
<1> QED BY <1>1, Invariance, PTL DEF Spec, EvidenceGapHasCause
=============================================================================
