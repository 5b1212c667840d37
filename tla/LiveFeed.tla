------------------------------ MODULE LiveFeed ------------------------------
(***************************************************************************)
(* The live outlets of the backend: the ConnectionManager with its         *)
(* WebSockets, the EventPublisher, the alert broadcasts, the phone         *)
(* notifiers, and the LiveFeedController switch that is to silence them.   *)
(*                                                                         *)
(* All of it runs on one event loop.  The two locks are never held over an *)
(* await, so a step runs from one await to the next.  A broadcast copies   *)
(* the connection list and then sends to each in turn: send_json writes    *)
(* its frame at once and is suspended until the socket has taken it or     *)
(* SEND_TIMEOUT is over, and everything else runs in between.  A send that *)
(* finds the socket's buffer drained does not queue behind tasks that have *)
(* yet to wake up, so tasks pass a socket in any order.                    *)
(*                                                                         *)
(* A frame of a live stream is only told apart by its outlet; a live_state *)
(* control frame carries the value of the switch.                          *)
(***************************************************************************)
EXTENDS Integers, Sequences, FiniteSets, SequencesExt

CONSTANTS
    Sockets,        \* WebSocket objects; a dead one stands for the next object
    AlertSockets,   \* those served by /ws/alerts, the others by /ws
    AlertTasks,     \* bound: _publish_alert tasks that run at the same time
    Requests,       \* bound: POST /api/v1/engine/live handled at the same time
    PushTasks,      \* bound: notifier tasks that run at the same time
    Recipients,     \* phones an alert is sent to, one after the other
    publisher,      \* the EventPublisher task
    none            \* no socket

ASSUME LiveAssumption ==
    /\ AlertSockets \subseteq Sockets
    /\ none \notin Sockets
    /\ publisher \notin AlertTasks \cup Requests
    /\ AlertTasks \cap Requests = {}
    /\ Recipients \in Nat \ {0}

VARIABLES
    enabled,      \* LiveFeedController._enabled
    connections,  \* ConnectionManager._connections
    peer,         \* what is at the other end of each socket
    cast,         \* the broadcast each task is in
    push,         \* recipients a notifier task still has to finish
    learned,      \* the last live_state the client of a socket received
    present       \* history: sockets listed ever since the switch was last set

liveVars == <<enabled, connections, peer, cast, push, learned, present>>

Tasks == AlertTasks \cup Requests \cup {publisher}
Streams == {"metrics", "engine_state"}
Live == Streams \cup {"alert"}
Control == {"live_on", "live_off"}

StateFrame(v) == IF v THEN "live_on" ELSE "live_off"

NoBroadcast == [frame |-> "none", at |-> none, todo |-> <<>>, stale |-> {}]

Broadcast ==
    [frame : Live \cup Control, at : Sockets, todo : Seq(Sockets),
     stale : SUBSET Sockets]

LiveInit ==
    /\ enabled = TRUE
    /\ connections = <<>>
    /\ peer = [s \in Sockets |-> "dead"]
    /\ cast = [t \in Tasks |-> NoBroadcast]
    /\ push = [p \in PushTasks |-> 0]
    /\ learned = [s \in Sockets |-> "nothing"]
    /\ present = {}

-----------------------------------------------------------------------------
Connected == ToSet(connections)

\* What is left of seq, in its order, when the elements of S are removed.
Without(seq, S) ==
    LET kept[i \in 0 .. Len(seq)] ==
            IF i = 0 THEN <<>>
            ELSE IF seq[i] \in S THEN kept[i - 1]
            ELSE Append(kept[i - 1], seq[i])
    IN  kept[Len(seq)]

\* Mutant: the sockets that failed stay in the list.
KeepStale(S) == UNCHANGED <<connections, present>>

\* ConnectionManager.disconnect, for every socket of S.
Disconnect(S) ==
    /\ connections' = Without(connections, S)
    /\ present' = present \ S

\* The client of socket s receives frame f, if it is still there.
Deliver(s, f) ==
    learned' = IF f \in Control /\ peer[s] = "open"
               THEN [learned EXCEPT ![s] = f]
               ELSE learned

\* A broadcast of f to the sockets of seq, the first of which is written to.
Sending(f, seq, stale) ==
    [frame |-> f, at |-> Head(seq), todo |-> Tail(seq), stale |-> stale]

\* ConnectionManager.broadcast, up to its first await: nothing to do when
\* nobody listens.
StartBroadcast(t, f) ==
    IF connections = <<>>
    THEN UNCHANGED <<cast, learned>>
    ELSE /\ cast' = [cast EXCEPT ![t] = Sending(f, connections, {})]
         /\ Deliver(Head(connections), f)

-----------------------------------------------------------------------------
\* Mutant: the control event honours the pause like every other outlet.
SetLiveStateGated(r, v) ==
    /\ cast[r] = NoBroadcast
    /\ enabled' = v
    /\ present' = Connected
    /\ IF v THEN StartBroadcast(r, StateFrame(v)) ELSE UNCHANGED <<cast, learned>>
    /\ UNCHANGED <<connections, peer, push>>

\* POST /api/v1/engine/live: set the switch and tell every client, paused or not.
SetLiveState(r, v) ==
    /\ cast[r] = NoBroadcast
    /\ enabled' = v
    /\ present' = Connected
    /\ StartBroadcast(r, StateFrame(v))
    /\ UNCHANGED <<connections, peer, push>>

\* _publish_alert, for a new alert or a pulse of an open one.
PublishAlert(t) ==
    /\ cast[t] = NoBroadcast
    /\ enabled
    /\ StartBroadcast(t, "alert")
    /\ UNCHANGED <<enabled, connections, peer, push, present>>

\* Mutant: the pause is not looked at.
PublishAllUngated ==
    /\ cast[publisher] = NoBroadcast
    /\ StartBroadcast(publisher, "metrics")
    /\ UNCHANGED <<enabled, connections, peer, push, present>>

\* EventPublisher._publish_all after its sleep: the switch is read once, before
\* the first stream.
PublishAll ==
    /\ cast[publisher] = NoBroadcast
    /\ enabled
    /\ StartBroadcast(publisher, "metrics")
    /\ UNCHANGED <<enabled, connections, peer, push, present>>

\* The broadcast of task t resumes: the send to cast[t].at succeeded or not
\* (timeout or error), and the next frame is written.
Resume(t, sent) ==
    LET b == cast[t]
        stale == IF sent THEN b.stale ELSE b.stale \cup {b.at}
    IN /\ b # NoBroadcast
       /\ sent => peer[b.at] # "dead"
       /\ b.todo # <<>>
       /\ cast' = [cast EXCEPT ![t] = Sending(b.frame, b.todo, stale)]
       /\ Deliver(Head(b.todo), b.frame)
       /\ UNCHANGED <<enabled, connections, peer, push, present>>

\* The last send of a broadcast ends: the stale sockets are disconnected, and the
\* publisher goes on to its second stream without reading the switch again.
Finish(t, sent) ==
    LET b == cast[t]
        stale == IF sent THEN b.stale ELSE b.stale \cup {b.at}
        rest == connections'
    IN /\ b # NoBroadcast
       /\ sent => peer[b.at] # "dead"
       /\ b.todo = <<>>
       /\ Disconnect(stale)
       /\ IF b.frame = "metrics" /\ rest # <<>>
          THEN cast' = [cast EXCEPT ![t] = Sending("engine_state", rest, {})]
          ELSE cast' = [cast EXCEPT ![t] = NoBroadcast]
       /\ UNCHANGED <<enabled, peer, push, learned>>

\* NtfyNotifier.notify, SmsNotifier.notify and send_test: the switch is read
\* once, then the recipients are served in turn; a failed send is only logged.
Notify(p) ==
    /\ push[p] = 0
    /\ enabled
    /\ push' = [push EXCEPT ![p] = Recipients]
    /\ UNCHANGED <<enabled, connections, peer, cast, learned, present>>

NextRecipient(p) ==
    /\ push[p] > 0
    /\ push' = [push EXCEPT ![p] = @ - 1]
    /\ UNCHANGED <<enabled, connections, peer, cast, learned, present>>

-----------------------------------------------------------------------------
InUse(s) ==
    \/ s \in Connected
    \/ \E t \in Tasks : \/ cast[t].at = s
                        \/ s \in ToSet(cast[t].todo)
                        \/ s \in cast[t].stale

\* websocket_endpoint and alerts_endpoint: a client connects and is listed.
Connect(s) ==
    /\ peer[s] = "dead"
    /\ ~InUse(s)
    /\ peer' = [peer EXCEPT ![s] = "open"]
    /\ connections' = Append(connections, s)
    /\ UNCHANGED <<enabled, cast, push, learned, present>>

\* The client goes away; its endpoint has not noticed yet.
Leave(s) ==
    /\ peer[s] = "open"
    /\ peer' = [peer EXCEPT ![s] = "gone"]
    /\ learned' = [learned EXCEPT ![s] = "nothing"]
    /\ UNCHANGED <<enabled, connections, cast, push, present>>

\* receive_text raises WebSocketDisconnect, or anything at all in /ws.
EndpointEnds(s) ==
    /\ peer[s] = "gone"
    /\ peer' = [peer EXCEPT ![s] = "dead"]
    /\ Disconnect({s})
    /\ UNCHANGED <<enabled, cast, push, learned>>

\* /ws/alerts catches nothing but WebSocketDisconnect: another error ends the
\* endpoint and closes the socket, and nobody takes it off the list.
EndpointFails(s) ==
    /\ s \in AlertSockets
    /\ peer[s] = "open"
    /\ peer' = [peer EXCEPT ![s] = "dead"]
    /\ learned' = [learned EXCEPT ![s] = "nothing"]
    /\ UNCHANGED <<enabled, connections, cast, push, present>>

LiveNext ==
    \/ \E r \in Requests, v \in BOOLEAN : SetLiveState(r, v)
    \/ \E t \in AlertTasks : PublishAlert(t)
    \/ PublishAll
    \/ \E t \in Tasks, sent \in BOOLEAN : Resume(t, sent) \/ Finish(t, sent)
    \/ \E p \in PushTasks : Notify(p) \/ NextRecipient(p)
    \/ \E s \in Sockets :
         Connect(s) \/ Leave(s) \/ EndpointEnds(s) \/ EndpointFails(s)

LiveSpec == LiveInit /\ [][LiveNext]_liveVars

\* A send ends after SEND_TIMEOUT at the latest, a push after the timeout of its
\* HTTP client; the publisher comes back after its sleep.
Fairness ==
    /\ \A t \in Tasks :
         WF_liveVars(\E sent \in BOOLEAN : Resume(t, sent) \/ Finish(t, sent))
    /\ \A p \in PushTasks : WF_liveVars(NextRecipient(p))
    /\ WF_liveVars(PublishAll)

FairLiveSpec == LiveSpec /\ Fairness

-----------------------------------------------------------------------------
(* Properties *)

\* What the tables hold; a socket is listed at most once and never served twice
\* by one broadcast.
LiveTypeOK ==
    /\ enabled \in BOOLEAN
    /\ connections \in Seq(Sockets) /\ IsInjective(connections)
    /\ peer \in [Sockets -> {"open", "gone", "dead"}]
    /\ cast \in [Tasks -> Broadcast \cup {NoBroadcast}]
    /\ \A t \in Tasks :
         /\ IsInjective(cast[t].todo)
         /\ cast[t].at \notin ToSet(cast[t].todo)
    /\ push \in [PushTasks -> 0 .. Recipients]
    /\ learned \in [Sockets -> Control \cup {"nothing"}]
    /\ present \subseteq Sockets

\* live.py promises that every long-lived client learns the new state of the
\* switch.  Once no request is being handled, a client that was listed when the
\* switch was last set, and still is, has the switch's value as the last word.
\* It holds while requests are handled one at a time (Requests a singleton):
\* with two, the older broadcast may reach a client after the newer one.
ClientsKnowTheSwitch ==
    (\A r \in Requests : cast[r] = NoBroadcast) =>
        \A s \in present :
            (s \in Connected /\ peer[s] = "open") => learned[s] = StateFrame(enabled)

\* What live.py says of its control event: every long-lived client learns the new
\* state.  A client whose socket is still open, and that learned one state, may not
\* learn the next: one slow send takes it off the list for good.
OpenClientsKnowTheSwitch ==
    (\A r \in Requests : cast[r] = NoBroadcast) =>
        \A s \in Sockets :
            (peer[s] = "open" /\ learned[s] # "nothing") => learned[s] = StateFrame(enabled)

LiveOutput ==
    \/ \E t \in Tasks : cast[t].frame \in Live
    \/ \E p \in PushTasks : push[p] > 0

\* A feed that is paused and stays paused falls silent: what was in flight when
\* the switch was set comes to an end and no outlet starts again.
PauseSilences == <>[]~enabled => <>[]~LiveOutput

\* A socket whose endpoint died without a word is taken off the list by a
\* broadcast that fails on it, as long as the feed keeps running.
DeadSocketsForgotten ==
    <>[]enabled =>
        \A s \in Sockets : [](peer[s] = "dead" => <>(s \notin Connected \/ peer[s] # "dead"))
=============================================================================
