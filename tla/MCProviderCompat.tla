-------------------------- MODULE MCProviderCompat --------------------------
(***************************************************************************)
(* ProviderCompat for TLC.  A behaviour looks at one of three things: at   *)
(* two turns of one session against every kind of provider, with all that  *)
(* may happen in their calls but messages without an id; at such messages  *)
(* between two turns of one session over a Codex socket, while nothing is  *)
(* asked, cancelled or closed; or at the names of requests, of any session *)
(* or none, to Codex, while moreover callers stay, calls succeed and       *)
(* messages carry their ids.                                               *)
(***************************************************************************)
EXTENDS ProviderCompat

CONSTANTS Main, MainThread      \* the session and the thread of the first two

ASSUME MainNames == Main \in Session /\ MainThread \in Thread

VARIABLE focus

mcvars == <<vars, focus>>

Init ==
    /\ CompatInit
    /\ focus \in {"turns", "ids", "names"}
    /\ focus = "ids" => kind = "codexWS"
    /\ focus = "names" => Codex

Starts(t) == turn[t].pc = "idle" /\ turn'[t].pc = "begun"
OneSession == \A t \in Turn : Starts(t) => turn'[t].sid = Main /\ turn'[t].thr = MainThread
Named == \A t \in Turn : \A i \in DOMAIN turn'[t].inbox : turn'[t].inbox[i].named
Undisturbed ==
    /\ \A s \in Id : sessions[s] # None => sessions'[s] # None
    /\ \A t \in Turn : task'[t] # "cancelled" /\ up'[t] # "asks"
Succeeding ==
    \A t \in Turn :
       /\ turn'[t].ctx = "live" /\ turn'[t].outcome # "error"
       /\ \A i \in DOMAIN turn'[t].inbox : turn'[t].inbox[i].m # "error"

\* What the behaviour looks at, of a step.
InFocus ==
    /\ \/ focus = "turns" /\ OneSession /\ Named
       \/ focus = "ids" /\ OneSession /\ Undisturbed
       \/ focus = "names" /\ Undisturbed /\ Succeeding /\ Named
    /\ UNCHANGED focus

Next == CompatNext /\ InFocus

\* The fairness of CompatFairSpec.
Spec ==
    /\ Init /\ [][Next]_mcvars
    /\ \A t \in Turn :
          /\ WF_mcvars(TurnStep(t) /\ InFocus)
          /\ WF_mcvars(CloseOnCancel(t) /\ InFocus)
          /\ WF_mcvars(ProviderStep(t) /\ InFocus)
=============================================================================
