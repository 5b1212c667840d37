-------------------------- MODULE AlertAggregation --------------------------
(***************************************************************************)
(* AlertManager.create_alert with the AlertDeduplicator it consults: how a *)
(* stream of threat decisions becomes alerts, and how a repeated one is    *)
(* folded into the alert that is already open.                             *)
(*                                                                         *)
(* create_alert and everything it calls run on the event loop without an   *)
(* await, so one detection is one step.  The clock is time.time(), in      *)
(* seconds, read once per step and assumed not to step backwards.          *)
(*                                                                         *)
(* An AlertContext is one mutable object shared by _recent and _active, so *)
(* both hold its index in the sequence ctxs (its alert id).  The fields    *)
(* raisedAt, folded and publishes are history: when the alert was raised,  *)
(* every source ever folded in, and how often it was handed to the         *)
(* publishers.  alert.timestamp and emitted_at are set together by the     *)
(* code and are the one field emittedAt here.                              *)
(***************************************************************************)
EXTENDS Integers, Sequences, FiniteSets

CONSTANTS
    Keys,           \* aggregation keys (dst_ip, protocol, threat_type, severity)
    Sources,        \* source addresses
    Window,         \* AlertDeduplicator.window_sec
    PulseInterval,  \* PULSE_INTERVAL_SEC
    TrackedSources, \* sources kept in an alert's aggregation (64)
    RecentMax,      \* maxlen of the _recent deque (1000)
    DedupLimit,     \* size of _last_seen above which it is pruned (10000)
    MaxTime,        \* bound: the clock stops here
    MaxDetections   \* bound: detections in a behaviour

ASSUME AggregationAssumption ==
    /\ Window \in Nat \ {0}
    /\ PulseInterval \in Nat \ {0}
    /\ TrackedSources \in Nat \ {0}
    /\ RecentMax \in Nat \ {0}
    /\ DedupLimit \in Nat
    /\ MaxTime \in Nat
    /\ MaxDetections \in Nat

VARIABLES
    now,        \* the wall clock
    lastSeen,   \* AlertDeduplicator._last_seen
    ctxs,       \* every AlertContext created, by alert id
    active,     \* AlertManager._active: the open context of each key
    recent,     \* AlertManager._recent, newest first
    suppressed, \* AlertDeduplicator._suppressed
    detected    \* history: detections[k] is the number of calls for key k

vars == <<now, lastSeen, ctxs, active, recent, suppressed, detected>>

Never == -1     \* no entry in _last_seen
NoAlert == 0    \* no entry in _active

Context ==
    [key : Keys, src : Sources, sources : Seq(Sources), sourceCount : Nat,
     flows : Nat, emittedAt : Nat, publishedAt : Nat,
     raisedAt : Nat, folded : SUBSET Sources, publishes : Nat]

Init ==
    /\ now = 0
    /\ lastSeen = [k \in Keys |-> Never]
    /\ ctxs = <<>>
    /\ active = [k \in Keys |-> NoAlert]
    /\ recent = <<>>
    /\ suppressed = 0
    /\ detected = [k \in Keys |-> 0]

-----------------------------------------------------------------------------
Contains(seq, e) == \E i \in DOMAIN seq : seq[i] = e

\* Mutant: a source is listed again with every detection.
AppendAlways(seq, e) == Append(seq, e)

AppendNew(seq, e) == IF Contains(seq, e) THEN seq ELSE Append(seq, e)

KeepLast(seq, n) ==
    IF Len(seq) <= n THEN seq ELSE SubSeq(seq, Len(seq) - n + 1, Len(seq))

\* Mutant: a full list drops the alert just put in front.
KeepOldest(seq, n) == KeepLast(seq, n)

\* deque(maxlen): appendleft to a full list drops at the other end.
KeepFirst(seq, n) == IF Len(seq) <= n THEN seq ELSE SubSeq(seq, 1, n)

\* Mutant: the last instant of the window still suppresses.
IsSuppressedTooLong(k) == lastSeen[k] # Never /\ now - lastSeen[k] <= Window

\* AlertDeduplicator.is_suppressed: the key was emitted within the window.
IsSuppressed(k) == lastSeen[k] # Never /\ now - lastSeen[k] < Window

\* merge_alert_context: the list is extended first, its length is the
\* reported count, and only then is it cut to the tracked sources.
MergeContext(c, s) ==
    LET unique == AppendNew(AppendNew(c.sources, c.src), s)
    IN [c EXCEPT !.sources = KeepLast(unique, TrackedSources),
                 !.sourceCount = Len(unique),
                 !.flows = @ + 1,
                 !.emittedAt = now,
                 !.folded = @ \cup {s}]

\* Mutant: the time of the last pulse is not recorded.
PulseForgetful(c) ==
    IF now - c.publishedAt < PulseInterval THEN c ELSE [c EXCEPT !.publishes = @ + 1]

\* _pulse: publish the context again, at most once per PulseInterval.
Pulse(c) ==
    IF now - c.publishedAt < PulseInterval
    THEN c
    ELSE [c EXCEPT !.publishedAt = now, !.publishes = @ + 1]

NewContext(k, s) ==
    [key |-> k, src |-> s, sources |-> <<s>>, sourceCount |-> 1, flows |-> 1,
     emittedAt |-> now, publishedAt |-> now,
     raisedAt |-> now, folded |-> {s}, publishes |-> 1]

\* AlertDeduplicator._prune, run by should_emit when the table is large.
PruneSeen(seen) ==
    IF Cardinality({k \in Keys : seen[k] # Never}) > DedupLimit
    THEN [k \in Keys |-> IF seen[k] >= now - 2 * Window THEN seen[k] ELSE Never]
    ELSE seen

\* Mutant: a context is forgotten as soon as it is not the newest.
PruneActiveEarly(act, cs) ==
    [k \in Keys |->
        IF act[k] # NoAlert /\ cs[act[k]].emittedAt < now THEN NoAlert ELSE act[k]]

\* AlertManager._prune_active: forget contexts idle for more than the window.
PruneActive(act, cs) ==
    [k \in Keys |->
        IF act[k] # NoAlert /\ cs[act[k]].emittedAt < now - Window
        THEN NoAlert
        ELSE act[k]]

-----------------------------------------------------------------------------
Tick ==
    /\ now < MaxTime
    /\ now' = now + 1
    /\ UNCHANGED <<lastSeen, ctxs, active, recent, suppressed, detected>>

\* create_alert, first branch: fold the detection into the open alert.
Merge(k, s) ==
    /\ active[k] # NoAlert
    /\ IsSuppressed(k)
    /\ ctxs' = [ctxs EXCEPT ![active[k]] = Pulse(MergeContext(@, s))]
    /\ UNCHANGED <<lastSeen, active, recent, suppressed>>

\* create_alert, second branch: should_emit refuses and nothing is recorded.
Swallow(k) ==
    /\ active[k] = NoAlert
    /\ IsSuppressed(k)
    /\ suppressed' = suppressed + 1
    /\ UNCHANGED <<lastSeen, ctxs, active, recent>>

\* create_alert, last branch: a fresh alert, published, persisted, notified.
Emit(k, s) ==
    LET id == Len(ctxs) + 1
    IN /\ ~IsSuppressed(k)
       /\ lastSeen' = PruneSeen([lastSeen EXCEPT ![k] = now])
       /\ ctxs' = Append(ctxs, NewContext(k, s))
       /\ recent' = KeepFirst(<<id>> \o recent, RecentMax)
       /\ active' = PruneActive([active EXCEPT ![k] = id], ctxs')
       /\ UNCHANGED suppressed

CreateAlert(k, s) ==
    /\ detected[k] < MaxDetections
    /\ detected' = [detected EXCEPT ![k] = @ + 1]
    /\ UNCHANGED now
    /\ Merge(k, s) \/ Swallow(k) \/ Emit(k, s)

Next == Tick \/ \E k \in Keys, s \in Sources : CreateAlert(k, s)

Spec == Init /\ [][Next]_vars

-----------------------------------------------------------------------------
(* Properties *)

\* The tables hold what the code stores in them (alert ids, times, counters).
TypeOK ==
    /\ now \in Nat
    /\ lastSeen \in [Keys -> Nat \cup {Never}]
    /\ ctxs \in Seq(Context)
    /\ active \in [Keys -> Nat]
    /\ \A k \in Keys : active[k] # NoAlert => active[k] \in DOMAIN ctxs
    /\ recent \in Seq(Nat)
    /\ suppressed \in Nat
    /\ detected \in [Keys -> Nat]

\* A suppressed detection always has an open alert of its own key to be folded
\* into.  The two tables are filled together but pruned by different clocks:
\* _prune_active by emitted_at (refreshed by merges), _prune by _last_seen.
\* If they came apart create_alert would drop detections without a trace.
SuppressedHasOpenAlert ==
    \A k \in Keys : IsSuppressed(k) =>
        /\ active[k] # NoAlert
        /\ ctxs[active[k]].key = k
        /\ ctxs[active[k]].raisedAt = lastSeen[k]

\* Two alerts for the same target, protocol, threat and severity are raised at
\* least one window apart, whatever is pruned in between.
AlertSpacing ==
    \A i, j \in DOMAIN ctxs :
        (i < j /\ ctxs[i].key = ctxs[j].key)
            => ctxs[j].raisedAt - ctxs[i].raisedAt >= Window

\* The aggregation summary is exact as long as the alert has seen no more
\* sources than it tracks: every folded source is listed once and the count is
\* their number.  Beyond that it still lists real sources, without repeats.
SummaryFaithful ==
    \A i \in DOMAIN ctxs :
        LET c == ctxs[i]
            listed == {c.sources[n] : n \in DOMAIN c.sources}
        IN /\ listed \subseteq c.folded
           /\ Cardinality(listed) = Len(c.sources)
           /\ Cardinality(c.folded) <= TrackedSources =>
                /\ listed = c.folded
                /\ c.sourceCount = Cardinality(c.folded)

\* A flood does not flood the WebSockets: over an alert's whole life it is
\* published once when raised and then at most once per PulseInterval.
PulseRate ==
    \A i \in DOMAIN ctxs :
        (ctxs[i].publishes - 1) * PulseInterval <= now - ctxs[i].raisedAt

\* What recent says of its list: it tracks activity, so no alert it leaves out is
\* fresher than one it shows.  The deque drops alerts by the time they were raised,
\* and an alert that is still being merged into may be among them.
ListTracksActivity ==
    \A i, j \in DOMAIN ctxs :
        (Contains(recent, j) /\ ~Contains(recent, i))
            => ctxs[i].emittedAt <= ctxs[j].emittedAt

\* The keys other than k that an alert was raised for within the last window.
OtherKeysRaised(k) ==
    {j \in Keys \ {k} :
        \E i \in DOMAIN ctxs : ctxs[i].key = j /\ now - ctxs[i].raisedAt < Window}

\* An alert that detections are still merged into is missing from the list only
\* while as many other keys as the list has places raised alerts in one window.
UnlistedOnlyByFlood ==
    \A k \in Keys :
        (IsSuppressed(k) /\ ~Contains(recent, active[k]))
            => Cardinality(OtherKeysRaised(k)) >= RecentMax

\* Every detection is counted by exactly one alert of its key.
Promise == INSTANCE AlertPromise
              WITH alerts <- [i \in DOMAIN ctxs |->
                                 [key |-> ctxs[i].key, at |-> ctxs[i].raisedAt,
                                  flows |-> ctxs[i].flows]]
ImplementsPromise == Promise!Spec
=============================================================================
