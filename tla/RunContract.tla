----------------------------- MODULE RunContract -----------------------------
(***************************************************************************)
(* What the durable session store promises about runs, with nothing said   *)
(* about processes, locks, hazards or the journal (the comment above       *)
(* initializeRuns in internal/acp/session_local_runs.go, and               *)
(* docs/standalone-session-increment.md).  An execution is alive from the  *)
(* executor call until the external work has really ended, which the store *)
(* only learns from a synchronous completion.                              *)
(***************************************************************************)
CONSTANTS Run, Session, None

VARIABLES
    state,      \* state of a run
    sessionOf,  \* session of a run, None before it is accepted
    started,    \* runs the executor was ever called for
    alive       \* runs whose external execution may still have effects

contractVars == <<state, sessionOf, started, alive>>

Active == {"queued", "running", "cancel_requested"}
Settled == {"completed", "failed", "cancelled"}

\* Nothing of the session is unsettled and nothing it started still runs.
Quiet(s) ==
    \A r \in Run : sessionOf[r] = s => state[r] \in Settled /\ r \notin alive

ContractInit ==
    /\ state = [r \in Run |-> "absent"]
    /\ sessionOf = [r \in Run |-> None]
    /\ started = {}
    /\ alive = {}

AcceptRun(r, s) ==
    /\ state[r] = "absent"
    /\ Quiet(s)
    /\ state' = [state EXCEPT ![r] = "queued"]
    /\ sessionOf' = [sessionOf EXCEPT ![r] = s]
    /\ UNCHANGED <<started, alive>>

StartRun(r) ==
    /\ state[r] = "queued"
    /\ state' = [state EXCEPT ![r] = "running"]
    /\ UNCHANGED <<sessionOf, started, alive>>

RequestCancel(r) ==
    /\ state[r] \in {"queued", "running"}
    /\ state' = [state EXCEPT ![r] = "cancel_requested"]
    /\ UNCHANGED <<sessionOf, started, alive>>

\* A run completes only if it was executed and its execution has ended.
SettleRun(r, final) ==
    /\ state[r] \in Active
    /\ final = "completed" => state[r] = "running" /\ r \in started \ alive
    /\ state' = [state EXCEPT ![r] = final]
    /\ UNCHANGED <<sessionOf, started, alive>>

\* At most once per run, and alone in its session.  The run may meanwhile have
\* been settled as failed by a successor, never as cancelled or completed.
Execute(r) ==
    /\ r \notin started
    /\ state[r] \in {"running", "cancel_requested", "failed"}
    /\ \A o \in alive : sessionOf[o] # sessionOf[r]
    /\ started' = started \cup {r}
    /\ alive' = alive \cup {r}
    /\ UNCHANGED <<state, sessionOf>>

ExecutionEnds(r) ==
    /\ r \in alive
    /\ alive' = alive \ {r}
    /\ UNCHANGED <<state, sessionOf, started>>

ContractNext ==
    \E r \in Run :
        \/ \E s \in Session : AcceptRun(r, s)
        \/ StartRun(r)
        \/ RequestCancel(r)
        \/ \E final \in Settled : SettleRun(r, final)
        \/ Execute(r)
        \/ ExecutionEnds(r)

ContractSpec == ContractInit /\ [][ContractNext]_contractVars
=============================================================================
