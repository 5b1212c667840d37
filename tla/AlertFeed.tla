------------------------------- MODULE AlertFeed -------------------------------
(***************************************************************************)
(* AlertFeed: the alert list and the toasts of the console (the store in   *)
(* store/engine.ts, driven by hooks/useEngineSync.tsx).                    *)
(*                                                                         *)
(* Alerts arrive one by one over a WebSocket, which may lose them, and in  *)
(* lists that refreshAll polls.  A poll is applied when its requests are   *)
(* settled, so what it brings may be older than what the socket brought    *)
(* meanwhile, and polls may overlap.  An alert is its id and the time of   *)
(* its last detection.  The other requests of a poll, the descriptive      *)
(* fields of alerts and loading flags are left out, and so is the cut of   *)
(* the toasts on screen to five: a toast is counted when it is made.  The  *)
(* panel of threat sources fed from both channels is SourcePanel's.        *)
(***************************************************************************)
EXTENDS AlertTimes, Sequences, FiniteSets

CONSTANTS
    MaxAlerts,  \* MAX_ALERTS, the most alerts the list keeps
    PollLimit,  \* the most alerts the backend answers a poll with
    Polls,      \* the refreshAll calls that may overlap (bound)
    MaxFrames   \* the alert frames in transit (bound)

ASSUME FeedAssumption ==
    /\ IsFiniteSet(Alerts)
    /\ MaxAlerts \in Nat \ {0} /\ PollLimit \in Nat \ {0}
    /\ MaxFrames \in Nat \ {0} /\ MaxTime \in Nat \ {0}

VARIABLES
    served,     \* the backend's alerts: when each was last detected
    frames,     \* the alert frames on their way to the browser
    polls,      \* the refreshAll calls: what became of GET /alerts
    live,       \* liveEnabled
    shown,      \* the alert list, with the time it has for each alert
    seenIds,    \* the alerts surfaced so far
    baselineSeen,   \* whether a poll has set the session's baseline
    baseline,   \* history: the alerts the baseline was set with
    toasted     \* history: how often each alert was toasted

backend == <<now, served>>
surfaced == <<seenIds, baselineSeen, baseline, toasted>>
vars == <<backend, frames, polls, live, shown, surfaced>>

Unlisted == [a \in Alerts |-> Never]

\* The state of a call: not running, or its request sent, answered or failed.
Idle == [status |-> "idle", list |-> Unlisted]
Sent == [status |-> "sent", list |-> Unlisted]
Failed == [status |-> "failed", list |-> Unlisted]
Answered(list) == [status |-> "ok", list |-> list]

Listed(list) == {a \in Alerts : list[a] # Never}

\* What sortByFreshness and a slice to n can make of a list: its n freshest
\* alerts, in either order where times are equal.
Cuts(list, n) ==
    {[a \in Alerts |-> IF a \in kept THEN list[a] ELSE Never] :
        kept \in {K \in SUBSET Listed(list) :
            /\ Cardinality(K) = IF Cardinality(Listed(list)) < n
                                THEN Cardinality(Listed(list)) ELSE n
            /\ \A a \in K, b \in Listed(list) \ K : list[a] >= list[b]}}

Init ==
    /\ now = 1
    /\ served \in [Alerts -> {Never, 1}]
    /\ frames = <<>>
    /\ polls = [p \in Polls |-> Idle]
    /\ live = TRUE
    /\ shown = Unlisted
    /\ seenIds = {} /\ baselineSeen = FALSE
    /\ baseline = {} /\ toasted = [a \in Alerts |-> 0]

-----------------------------------------------------------------------------
(* The backend and the network *)

Clock ==
    /\ now < MaxTime
    /\ now' = now + 1
    /\ UNCHANGED <<served, frames, polls, live, shown, surfaced>>

\* An alert is raised, or its attack goes on and its time is refreshed; the
\* frame that says so may be lost.
Detect(a) ==
    /\ served[a] # now
    /\ served' = [served EXCEPT ![a] = now]
    /\ \/ UNCHANGED frames
       \/ /\ Len(frames) < MaxFrames
          /\ frames' = Append(frames, [id |-> a, at |-> now])
    /\ UNCHANGED <<now, polls, live, shown, surfaced>>

-----------------------------------------------------------------------------
(* refreshAll *)

Start(p) ==
    /\ polls[p] = Idle
    /\ polls' = [polls EXCEPT ![p] = Sent]

\* The timer, which is silent while the feed is paused, and the refresh
\* buttons and the first call, which are not.
TimerRefresh(p) ==
    /\ live
    /\ Start(p)
    /\ UNCHANGED <<backend, frames, live, shown, surfaced>>

ManualRefresh(p) ==
    /\ Start(p)
    /\ UNCHANGED <<backend, frames, live, shown, surfaced>>

\* GET /alerts answers with the freshest alerts, or fails or times out.
AnswerAlerts(p) ==
    /\ polls[p] = Sent
    /\ \E list \in Cuts(served, PollLimit) :
        polls' = [polls EXCEPT ![p] = Answered(list)]
    /\ UNCHANGED <<backend, frames, live, shown, surfaced>>

FailAlerts(p) ==
    /\ polls[p] = Sent
    /\ polls' = [polls EXCEPT ![p] = Failed]
    /\ UNCHANGED <<backend, frames, live, shown, surfaced>>

\* Mutant: an answer only adds the alerts that were not seen yet.
AddUnseen(list) ==
    shown' = [a \in Alerts |-> IF a \in seenIds THEN shown[a] ELSE list[a]]

\* An answer replaces the list.
ShowList(list) == shown' = list

\* markNew: the alerts of the first answer are the session's baseline, and of
\* later ones those that were not seen are toasted.
MarkNew(list) ==
    LET fresh == Listed(list) \ seenIds
    IN  /\ seenIds' = seenIds \cup fresh
        /\ baselineSeen' = TRUE
        /\ IF baselineSeen
           THEN /\ toasted' = [a \in Alerts |->
                                toasted[a] + (IF a \in fresh THEN 1 ELSE 0)]
                /\ UNCHANGED baseline
           ELSE baseline' = fresh /\ UNCHANGED toasted

\* The rest of refreshAll, once every request is settled.
Apply(p) ==
    /\ polls[p].status \in {"ok", "failed"}
    /\ polls' = [polls EXCEPT ![p] = Idle]
    /\ IF polls[p].status = "ok"
       THEN \E list \in Cuts(polls[p].list, MaxAlerts) : ShowList(list) /\ MarkNew(list)
       ELSE UNCHANGED <<shown, surfaced>>
    /\ UNCHANGED <<backend, frames, live>>

-----------------------------------------------------------------------------
(* The live channel and the switch *)

\* Mutant: a pushed alert is announced but not remembered.
SurfaceUnmarked(a) ==
    /\ toasted' = IF a \in seenIds THEN toasted ELSE [toasted EXCEPT ![a] = @ + 1]
    /\ UNCHANGED seenIds

\* A pushed alert is marked as seen, and toasted if it was not.
Surface(a) ==
    /\ toasted' = IF a \in seenIds THEN toasted ELSE [toasted EXCEPT ![a] = @ + 1]
    /\ seenIds' = seenIds \cup {a}

\* pushAlert's list: a new alert joins it, and its oldest makes room; a pulse
\* replaces its alert where the list has it.
Push(a, at) ==
    IF a \notin seenIds
    THEN \E rest \in Cuts([shown EXCEPT ![a] = Never], MaxAlerts - 1) :
            shown' = [rest EXCEPT ![a] = at]
    ELSE shown' = IF shown[a] = Never THEN shown ELSE [shown EXCEPT ![a] = at]

\* A frame on /ws/alerts, which is ignored while the feed is paused.
Receive ==
    /\ frames # <<>>
    /\ frames' = Tail(frames)
    /\ IF live
       THEN Surface(Head(frames).id) /\ Push(Head(frames).id, Head(frames).at)
       ELSE UNCHANGED <<shown, seenIds, toasted>>
    /\ UNCHANGED <<backend, polls, live, baselineSeen, baseline>>

\* A live_state frame on /ws.
LiveState(v) ==
    /\ live # v
    /\ live' = v
    /\ UNCHANGED <<backend, frames, polls, shown, surfaced>>

\* The rest of toggleLiveFeed after its request: the value it asked for is the
\* opposite of what liveEnabled was before, which may have changed since.
ToggleLiveFeed(v) ==
    /\ live' = v
    /\ IF v THEN \E p \in Polls : Start(p) ELSE UNCHANGED polls
    /\ UNCHANGED <<backend, frames, shown, surfaced>>

-----------------------------------------------------------------------------
Next ==
    \/ Clock
    \/ \E a \in Alerts : Detect(a)
    \/ \E p \in Polls :
        TimerRefresh(p) \/ ManualRefresh(p) \/ AnswerAlerts(p) \/ FailAlerts(p) \/ Apply(p)
    \/ Receive
    \/ \E v \in BOOLEAN : LiveState(v) \/ ToggleLiveFeed(v)

Spec == Init /\ [][Next]_vars

\* The timer calls refreshAll while the feed is live, the requests of a poll
\* are settled (FETCH_TIMEOUT_MS), and the browser runs what is settled and the
\* frames that arrive.
FairSpec ==
    /\ Spec
    /\ \A p \in Polls : WF_vars(AnswerAlerts(p) \/ FailAlerts(p)) /\ WF_vars(Apply(p))
    /\ WF_vars(\E p \in Polls : TimerRefresh(p))
    /\ WF_vars(Receive)

-----------------------------------------------------------------------------
(* Properties *)

TypeOK ==
    /\ now \in Times
    /\ served \in [Alerts -> {Never} \cup Times]
    /\ frames \in Seq([id : Alerts, at : Times]) /\ Len(frames) <= MaxFrames
    /\ polls \in [Polls -> [status : {"idle", "sent", "failed", "ok"},
                            list : [Alerts -> {Never} \cup Times]]]
    /\ live \in BOOLEAN /\ baselineSeen \in BOOLEAN
    /\ shown \in [Alerts -> {Never} \cup Times]
    /\ Cardinality(Listed(shown)) <= MaxAlerts
    /\ seenIds \in SUBSET Alerts /\ baseline \in SUBSET Alerts
    /\ toasted \in [Alerts -> Nat]

\* Two channels bring the same alerts, in any order, with losses, pauses and
\* overlapping polls: an alert that is not of the session's baseline is toasted
\* once, whichever channel brings it first, and no alert gets on the list
\* without having been surfaced.
ToastedExactlyOnce ==
    /\ \A a \in Alerts : toasted[a] = IF a \in seenIds \ baseline THEN 1 ELSE 0
    /\ Listed(shown) \subseteq seenIds

\* Whatever was lost or applied out of order, polling repairs: once the alerts
\* stop changing (here, at MaxTime) a console that stays live and whose polls
\* are answered now and then ends up showing the backend's list for good.
ListConverges ==
    (<>[]live /\ []<><<\E p \in Polls : AnswerAlerts(p)>>_vars)
        => <>[](shown \in Cuts(served, PollLimit))
=============================================================================
