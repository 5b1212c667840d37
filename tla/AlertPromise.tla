---------------------------- MODULE AlertPromise ----------------------------
(***************************************************************************)
(* What the alert subsystem promises its consumers, independently of how   *)
(* AlertManager and AlertDeduplicator keep their tables:                   *)
(*                                                                         *)
(*   - two alerts of one aggregation key are at least Window apart;        *)
(*   - a detection is never lost: it raises an alert, or it is counted by  *)
(*     an alert of its own key that was raised less than Window ago.       *)
(*                                                                         *)
(* Module AlertAggregation is the detailed specification that implements   *)
(* this one.                                                               *)
(***************************************************************************)
EXTENDS Integers, Sequences

CONSTANTS Keys,     \* aggregation keys (dst, protocol, threat type, severity)
          Window    \* the deduplication window

VARIABLES now,      \* the clock
          alerts,   \* every alert raised so far, in order
          detected  \* detected[k]: detections reported for key k

vars == <<now, alerts, detected>>

Init ==
    /\ now = 0
    /\ alerts = <<>>
    /\ detected = [k \in Keys |-> 0]

InWindow(a) == now - a.at < Window

Advance ==
    /\ now' = now + 1
    /\ UNCHANGED <<alerts, detected>>

Raise(k) ==
    /\ \A i \in DOMAIN alerts : alerts[i].key = k => ~InWindow(alerts[i])
    /\ alerts' = Append(alerts, [key |-> k, at |-> now, flows |-> 1])
    /\ detected' = [detected EXCEPT ![k] = @ + 1]
    /\ UNCHANGED now

Count(k) ==
    /\ \E i \in DOMAIN alerts :
        /\ alerts[i].key = k
        /\ InWindow(alerts[i])
        /\ alerts' = [alerts EXCEPT ![i].flows = @ + 1]
    /\ detected' = [detected EXCEPT ![k] = @ + 1]
    /\ UNCHANGED now

Next == Advance \/ \E k \in Keys : Raise(k) \/ Count(k)

Spec == Init /\ [][Next]_vars
=============================================================================
