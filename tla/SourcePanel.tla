------------------------------ MODULE SourcePanel ------------------------------
(***************************************************************************)
(* SourcePanel: the console's panel of threat sources (bumpSource,         *)
(* sourcesFromAlertsAndFlows and tick of store/engine.ts).                 *)
(*                                                                         *)
(* A source opens with a signal of it, an alert or a flow; later signals   *)
(* widen its window; a ticker ends it when no signal came for a while,     *)
(* removes it later, and a signal of an ended source restarts it.  Signals *)
(* come from pushed alerts, one at a time, and from polls, which bring the *)
(* alerts of the list again and again with the flows of the backend.  What *)
(* the list holds is AlertFeed's subject: here it is any of the alerts     *)
(* there are.  Late frames, overlapping polls, and the flows kept from an  *)
(* earlier poll bring signals that newer ones overtook.  Browser and       *)
(* backend share a clock; the descriptive fields of a source are left out. *)
(***************************************************************************)
EXTENDS AlertTimes, Sequences, FiniteSets, SequencesExt, FiniteSetsExt

CONSTANTS
    Sources,        \* the attacking addresses
    SrcOf,          \* the source of each alert
    NoAlert,        \* the alert id of a flow, which has none
    ActiveWindow,   \* ACTIVE_WINDOW_MS
    PruneAfter,     \* STOPPED_PRUNE_MS
    Late            \* whether signals may be late and newer ones overtake them

ASSUME PanelAssumption ==
    /\ IsFiniteSet(Alerts) /\ IsFiniteSet(Sources)
    /\ SrcOf \in [Alerts -> Sources] /\ NoAlert \notin Alerts
    /\ ActiveWindow \in Nat /\ PruneAfter \in Nat /\ MaxTime \in Nat \ {0}
    /\ Late \in BOOLEAN

VARIABLES
    detected,   \* when each alert was raised and refreshed
    sources,    \* the panel
    counted,    \* countedAlerts: the alerts counted for each source
    over        \* history: the last signal of the attack a source has ended

panelVars == <<now, detected, sources, counted, over>>

Absent == [first |-> Never, last |-> Never, active |-> FALSE, count |-> 0]
Present(s) == sources[s].first # Never

PanelInit ==
    /\ now = 1
    /\ detected = [a \in Alerts |-> {}]
    /\ sources = [s \in Sources |-> Absent]
    /\ counted = [s \in Sources |-> {}]
    /\ over = [s \in Sources |-> Never]

-----------------------------------------------------------------------------
(* bumpSource, on the panel and countedAlerts together *)

Panel == [sources |-> sources, counted |-> counted]

Count(panel, s, a) == [panel.counted EXCEPT ![s] = @ \cup ({a} \ {NoAlert})]

IsNewAlert(panel, s, a) == a # NoAlert /\ a \notin panel.counted[s]

Opened(ts, a) ==
    [first |-> ts, last |-> ts, active |-> TRUE, count |-> IF a = NoAlert THEN 0 ELSE 1]

\* Mutant: an entry is restarted whether it had ended or not.
UpdatedAfresh(cur, ts, more) ==
    [first |-> ts, last |-> ts, active |-> TRUE, count |-> more]

\* The entry after a signal at ts that brings that many more alerts: an ended
\* one starts again.
Updated(cur, ts, more) ==
    IF cur.active
    THEN [first |-> IF ts < cur.first THEN ts ELSE cur.first,
          last |-> IF ts > cur.last THEN ts ELSE cur.last,
          active |-> TRUE, count |-> cur.count + more]
    ELSE [first |-> ts, last |-> ts, active |-> TRUE, count |-> more]

\* Mutant: every signal of an alert adds one, its pulses too.
EverySignal(panel, s, a) == IF a = NoAlert THEN 0 ELSE 1

\* What a signal adds to the source's count.
MoreAlerts(panel, s, a) == IF IsNewAlert(panel, s, a) THEN 1 ELSE 0

\* A signal of source s at ts: of alert a, or of a flow.
Bump(panel, s, ts, a) ==
    LET cur == panel.sources[s]
        next == IF cur.first = Never THEN Opened(ts, a)
                ELSE Updated(cur, ts, MoreAlerts(panel, s, a))
    IN  IF cur.first \in 1..ts /\ ts <= cur.last /\ ~IsNewAlert(panel, s, a)
        THEN panel
        ELSE [sources |-> [panel.sources EXCEPT ![s] = next],
              counted |-> Count(panel, s, a)]

\* The panel after the signals of a sequence, one after the other.
Bumped(panel, signals) ==
    LET after[i \in 0 .. Len(signals)] ==
            IF i = 0 THEN panel
            ELSE LET signal == signals[i]
                 IN  Bump(after[i - 1], signal.src, signal.at, signal.alert)
    IN  after[Len(signals)]

Orders(S) == {order \in [1 .. Cardinality(S) -> S] : IsInjective(order)}

FreshestFirst(list) ==
    {order \in Orders(DOMAIN list) :
        \A i, j \in DOMAIN order : i < j => list[order[i]] >= list[order[j]]}

AlertSignal(list, a) == [src |-> SrcOf[a], at |-> list[a], alert |-> a]
FlowSignal(flows, s) == [src |-> s, at |-> flows[s], alert |-> NoAlert]

\* sourcesFromAlertsAndFlows: the alerts of the list and then the flows, each
\* taken in an order of theirs.
FromAlertsAndFlows(list, alerts, flows, talkers) ==
    Bumped(Bumped(Panel, [i \in DOMAIN alerts |-> AlertSignal(list, alerts[i])]),
           [i \in DOMAIN talkers |-> FlowSignal(flows, talkers[i])])

-----------------------------------------------------------------------------
Raised == {a \in Alerts : detected[a] # {}}

\* Unless signals may be late, every alert reaches the panel in its own time.
Elapse ==
    /\ now < MaxTime
    /\ Late \/ Raised \subseteq UNION Range(counted)
    /\ now' = now + 1
    /\ UNCHANGED <<detected, sources, counted, over>>

\* The backend raises an alert, or refreshes it as its attack goes on.
RaiseAlert(a) ==
    /\ now \notin detected[a]
    /\ detected' = [detected EXCEPT ![a] = @ \cup {now}]
    /\ UNCHANGED <<now, sources, counted, over>>

Show(panel) == sources' = panel.sources /\ counted' = panel.counted

\* The times pushed alerts and listed flows come with, and the lists polls apply.
PushTimes(a) == IF Late THEN detected[a] ELSE detected[a] \cap {now}
FlowTimes == IF Late THEN 1..now ELSE {now}
Latest == [a \in Raised |-> Max(detected[a])]
Lists ==
    IF Late
    THEN UNION {{l \in [S -> 1..now] : \A a \in S : l[a] \in detected[a]} : S \in SUBSET Raised}
    ELSE {Latest}
Flows == UNION {[S -> FlowTimes] : S \in SUBSET Sources}

\* pushAlert: a frame with an alert.
PushAlert(a) ==
    /\ \E at \in PushTimes(a) : Show(Bump(Panel, SrcOf[a], at, a))
    /\ UNCHANGED <<now, detected, over>>

\* The end of refreshAll: the list, freshest first, and the flows in the order
\* the backend has them, answered or kept.
Poll ==
    /\ \E list \in Lists, flows \in Flows :
         \E alerts \in FreshestFirst(list), talkers \in Orders(DOMAIN flows) :
             Show(FromAlertsAndFlows(list, alerts, flows, talkers))
    /\ UNCHANGED <<now, detected, over>>

Quiet(s) == sources[s].active /\ now - sources[s].last > ActiveWindow
Ended(s) == Present(s) /\ (~sources[s].active \/ Quiet(s))

Pruned(s) == Ended(s) /\ now - sources[s].last >= PruneAfter

\* tick: a source without a recent signal ends, and an ended one is removed
\* after a while.
Tick ==
    /\ \E s \in Sources : Quiet(s) \/ Pruned(s)
    /\ sources' = [s \in Sources |->
            IF Pruned(s) THEN Absent
            ELSE IF Ended(s) THEN [sources[s] EXCEPT !.active = FALSE]
            ELSE sources[s]]
    /\ over' = [s \in Sources |->
            IF Pruned(s) THEN Never ELSE IF Quiet(s) THEN sources[s].last ELSE over[s]]
    /\ UNCHANGED <<now, detected, counted>>

PanelNext ==
    \/ Elapse
    \/ \E a \in Alerts : RaiseAlert(a) \/ PushAlert(a)
    \/ Poll
    \/ Tick

PanelSpec == PanelInit /\ [][PanelNext]_panelVars

-----------------------------------------------------------------------------
(* Properties *)

PanelTypeOK ==
    /\ now \in Times
    /\ detected \in [Alerts -> SUBSET (1..now)]
    /\ sources \in [Sources -> [first : 0..now, last : 0..now,
                                active : BOOLEAN, count : Nat]]
    /\ \A s \in Sources :
        /\ sources[s].first <= sources[s].last
        /\ ~Present(s) => sources[s] = Absent
    /\ counted \in [Sources -> SUBSET Alerts]
    /\ over \in [Sources -> 0..now]

\* The panel does not inflate a source: pulses, polls, revivals and removals
\* never count an alert of it twice, or one that was not raised.
AlertCountHonest ==
    \A s \in Sources :
        /\ counted[s] \subseteq {a \in Alerts : SrcOf[a] = s} \cap Raised
        /\ sources[s].count <= Cardinality(counted[s])

\* While a source is live its window only grows: late and repeated signals
\* never make a running attack look shorter or less recent.
LiveWindowGrows ==
    [][\A s \in Sources : sources[s].active /\ sources'[s].active =>
            /\ sources'[s].first <= sources[s].first
            /\ sources'[s].last >= sources[s].last
            /\ sources'[s].count >= sources[s].count]_panelVars

\* bumpSource restarts the window of a source that ended and attacks again, and
\* its comment says that otherwise the panel goes on counting the old attack's
\* age: an active source begins after the attack it ended.
RevivedWindowRestarts ==
    \A s \in Sources :
        (sources[s].active /\ over[s] # Never) => sources[s].first > over[s]
=============================================================================
