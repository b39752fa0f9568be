-------------------------- MODULE MCOpenClawTasks --------------------------
(* Instances of OpenClawTasks for TLC. *)
EXTENDS OpenClawTasks, TLC

Symmetry == Permutations(Turn) \cup Permutations(Session) \cup Permutations(Poll)

\* A turn whose record is no longer the one in the map: the session was closed.
Closed == \E t \in Turn : turn[t].held # None /\ sessions[turn[t].session] # turn[t].held

\* A run was cancelled, or the gateway has forgotten it.
Disturbed ==
    \/ aborting # {}
    \/ \E t \in Turn : native[t] \in {"cancelled", "unknown"}
    \/ \E o \in Record : lastResult[o] # None /\ lastResult[o].status = "wait_cancelled"

\* Bound: closed sessions are explored apart from cancelled and forgotten runs.
OneDisturbance == ~(Closed /\ Disturbed)
=============================================================================
