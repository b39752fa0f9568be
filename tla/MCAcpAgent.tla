----------------------------- MODULE MCAcpAgent -----------------------------
(***************************************************************************)
(* AcpAgentAdapter for TLC.  The permission requests multiply the states   *)
(* of the turns, so a behaviour looks at one of two things: at turns with  *)
(* models and an agent that may exit, which asks for nothing; or at its    *)
(* permission requests in one agent session, while turns name no model,    *)
(* nobody closes the session, and the agent lives and sends no text.       *)
(***************************************************************************)
EXTENDS AcpAgentAdapter

VARIABLE focus

Init == AdapterInit /\ focus \in {"turns", "permissions"}

Next ==
    /\ AdapterNext
    /\ \/ focus = "turns" /\ UNCHANGED asks
       \/ /\ focus = "permissions"
          /\ process' # "exited" /\ (sessions # None => sessions' # None)
          /\ \A a \in Acp \ {1} : bound'[a] = None
          /\ \A t \in Turn :
                /\ turn'[t].wants = None /\ turn'[t].heard = {}
    /\ UNCHANGED focus

\* Goroutines run, and the agent answers what it is asked while it lives.
Spec == Init /\ [][Next]_<<vars, focus>> /\ \A t \in Turn : WF_<<vars, focus>>(Serve(t) /\ Next)
=============================================================================
