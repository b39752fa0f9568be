----------------------------- MODULE MCServices -----------------------------
(***************************************************************************)
(* TaskRunDispatch, DesktopService, DistributedForwarder and StreamFrontEnd *)
(* for TLC.  They serve different requests of the Bridge and share no      *)
(* state, so every behaviour uses one and the others stay as they started. *)
(***************************************************************************)
EXTENDS TaskRunDispatch, DesktopService, DistributedForwarder, StreamFrontEnd, TLC

CONSTANTS edge, w1, w2
VARIABLE used

Workers == <<w1, w2>>

\* Every configuration of routers and next hops is tried, where it is used.
Init ==
    /\ used \in {"task runs", "desktop", "forwarder", "stream"}
    /\ DispatchInit /\ DesktopInit /\ ForwarderInit /\ StreamInit
    /\ used # "forwarder" =>
          router = {Ingress} /\ \A n \in Node, t \in Targets : nextHop[n][t] = t

DispatchStep ==
    used = "task runs" /\ DispatchNext /\ UNCHANGED <<used, dvars, forwarderVars, streamVars>>
DesktopStep ==
    used = "desktop" /\ DesktopNext /\ UNCHANGED <<used, dispatchVars, forwarderVars, streamVars>>
ForwarderStep ==
    used = "forwarder" /\ ForwarderNext /\ UNCHANGED <<used, dispatchVars, dvars, streamVars>>
StreamStep ==
    used = "stream" /\ StreamNext /\ UNCHANGED <<used, dispatchVars, dvars, forwarderVars>>

Next == DispatchStep \/ DesktopStep \/ ForwarderStep \/ StreamStep

Spec == Init /\ [][Next]_<<used, dispatchVars, dvars, forwarderVars, streamVars>>

Symmetry == Permutations(Call) \cup Permutations(Id)
=============================================================================
