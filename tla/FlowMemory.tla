------------------------------ MODULE FlowMemory ------------------------------
(***************************************************************************)
(* The flow table as the detection pipeline relies on it: which flows it   *)
(* holds.  A flow that has just been seen is in the table; flows leave it  *)
(* when the sweep expires them, or to make room for a new one.             *)
(***************************************************************************)
CONSTANTS
    Flows,      \* directed flows
    MayForget   \* whether flows expire within the behaviour

VARIABLE known  \* the flows in flow_state

MemoryInit == known = {}

Forgettable == IF MayForget THEN SUBSET known ELSE {{}}

\* get_or_create and update: only the insertion of a new flow may drop others.
See(f) ==
    \/ f \in known /\ UNCHANGED known
    \/ f \notin known /\ \E gone \in Forgettable : known' = (known \ gone) \cup {f}

\* The expiry sweep.
Expire == \E gone \in Forgettable : known' = known \ gone

MemoryNext == Expire \/ \E f \in Flows : See(f)

MemorySpec == MemoryInit /\ [][MemoryNext]_known
=============================================================================
