------------------------------ MODULE AlertTimes ------------------------------
(***************************************************************************)
(* What the models of the console share: the alerts of a behaviour and the *)
(* clock their times are read from, the backend's and the browser's alike. *)
(***************************************************************************)
EXTENDS Integers

CONSTANTS
    Alerts,     \* the alert ids of a behaviour
    MaxTime     \* where the clock stops (bound)

VARIABLE now    \* the time

Never == 0
Times == 1..MaxTime
=============================================================================
