----------------------------- MODULE JobManager -----------------------------
(***************************************************************************)
(* jobManager (jobs.go): jobs that a goroutine runs through the session    *)
(* orchestrator, the sweep that fails overdue jobs whenever somebody reads *)
(* the table, and the callbacks that tell a client how a job ended.  A job *)
(* without a provider may be routed to the OpenClaw gateway and then       *)
(* passes the admission gate, so the callers of AdmissionGate are jobs.    *)
(***************************************************************************)
EXTENDS AdmissionGate, Sequences

CONSTANTS
    Slow,      \* the jobs that may outlive their timeout
    Watched,   \* the jobs with a callbackUrl
    NoStatus

ASSUME JobsAssumption ==
    /\ Slow \cup Watched \subseteq Turn
    /\ NoStatus \notin {"pending", "running", "completed", "failed"}

VARIABLES
    status,    \* job.Status, NoStatus before submit entered the job
    runner,    \* where submit, and then the goroutine of run, is
    overdue,   \* now - job.CreatedAt > job.Timeout
    callbacks  \* the goroutines of sendCallbacks, in the order of their start

jobVars == <<status, runner, overdue, callbacks>>
jobsVars == <<gateVars, jobVars>>

Unfinished == {"pending", "running"}
Ended == {"completed", "failed"}

\* A goroutine of sendCallbacks: the webhook's payload is encoded once, when it
\* starts, whatever the job has become since the goroutine was started.
NewCallback == [at |-> "spawned", payload |-> NoStatus]

Callback ==
    [at : {"spawned", "posting", "sent", "givenUp"},
     payload : Unfinished \cup Ended \cup {NoStatus}]

JobsInit ==
    /\ GateInit
    /\ status = [j \in Turn |-> NoStatus]
    /\ runner = [j \in Turn |-> "none"]
    /\ overdue = [j \in Turn |-> FALSE]
    /\ callbacks = [j \in Turn |-> << >>]

-----------------------------------------------------------------------------
(* The table *)

\* Mutant: the sweep does not look at the status.
StuckAny == {j \in Turn : status[j] # NoStatus /\ overdue[j]}

Stuck == {j \in Turn : status[j] \in Unfinished /\ overdue[j]}

Spawn(jobs) ==
    callbacks' = [j \in Turn |-> IF j \in jobs \cap Watched THEN Append(callbacks[j], NewCallback)
                                               ELSE callbacks[j]]

\* failStuck: every overdue job becomes failed, and a goroutine tells so.  The
\* goroutine of run is not told and goes on.
failStuck(table) == [j \in Turn |-> IF j \in Stuck THEN "failed" ELSE table[j]]

\* submit sweeps the table first, and takes the mutex again to enter the new job.
Submit(j) ==
    /\ runner[j] = "none"
    /\ status' = failStuck(status)
    /\ Spawn(Stuck)
    /\ runner' = [runner EXCEPT ![j] = "submitting"]
    /\ UNCHANGED <<gateVars, overdue>>

Enter(j) ==
    /\ runner[j] = "submitting"
    /\ status' = [status EXCEPT ![j] = "pending"]
    /\ runner' = [runner EXCEPT ![j] = "spawned"]
    /\ UNCHANGED <<gateVars, overdue, callbacks>>

\* get, list and stats: the sweep is what they change.
ReadTable ==
    /\ Stuck # {}
    /\ status' = failStuck(status)
    /\ Spawn(Stuck)
    /\ UNCHANGED <<gateVars, runner, overdue>>

TimePasses(j) ==
    /\ j \in Slow /\ status[j] # NoStatus /\ ~overdue[j]
    /\ overdue' = [overdue EXCEPT ![j] = TRUE]
    /\ UNCHANGED <<gateVars, status, runner, callbacks>>

-----------------------------------------------------------------------------
(* run *)

\* setRunning does not look at the status: it revives a job that the sweep
\* failed while it was pending.
SetRunning(j) ==
    /\ runner[j] = "spawned"
    /\ status' = [status EXCEPT ![j] = "running"]
    /\ \E route \in {"agent", "gateway"} : runner' = [runner EXCEPT ![j] = route]
    /\ UNCHANGED <<gateVars, overdue, callbacks>>

\* runGateway: acquire, start the task, release.
PassGate(j) ==
    /\ runner[j] = "gateway"
    /\ Acquire(j) \/ Release(j)
    /\ UNCHANGED jobVars

\* What orchestrator.Process can return: a caller that was refused gets an
\* error; every other call may fail, also because its context is done.
ProcessReturns(j) ==
    CASE runner[j] = "agent" -> Ended
      [] runner[j] = "gateway" /\ gate[j] = "released" -> Ended
      [] runner[j] = "gateway" /\ gate[j] = "refused" -> {"failed"}
      [] OTHER -> {}

\* Mutant: an error leaves the status for the sweep.
EndedWithoutError(j, outcome) == IF outcome = "failed" THEN status[j] ELSE outcome

\* The status that run stores: it overwrites the sweep's verdict.
EndedAs(j, outcome) == outcome

\* Mutant: a job that the sweep has reported is not reported again.
SpawnOnce(j) == Spawn(IF callbacks[j] = << >> THEN {j} ELSE {})

SpawnAtEnd(j) == Spawn({j})

RunEnds(j) ==
    /\ \E outcome \in ProcessReturns(j) :
          status' = [status EXCEPT ![j] = EndedAs(j, outcome)]
    /\ runner' = [runner EXCEPT ![j] = "ended"]
    /\ SpawnAtEnd(j)
    /\ UNCHANGED <<gateVars, overdue>>

-----------------------------------------------------------------------------
(* sendCallbacks.  The webhook alone is modelled: the message that a job with a  *)
(* target sends through the gateway's tool call, tried once and its error        *)
(* dropped, changes nothing of the job.                                          *)

Encode(j, i) ==
    /\ callbacks[j][i].at = "spawned"
    /\ callbacks' = [callbacks EXCEPT ![j][i].at = "posting", ![j][i].payload = status[j]]
    /\ UNCHANGED <<gateVars, status, runner, overdue>>

\* The loop of sendWebhook, up to the request that was accepted or the last of
\* defaultWebhookMaxTries: the payload stays, so only its end is seen.  Two
\* goroutines of one job end in either order.
Post(j, i) ==
    /\ callbacks[j][i].at = "posting"
    /\ \E end \in {"sent", "givenUp"} : callbacks' = [callbacks EXCEPT ![j][i].at = end]
    /\ UNCHANGED <<gateVars, status, runner, overdue>>

SendCallbacks(j) == \E i \in DOMAIN callbacks[j] : Encode(j, i) \/ Post(j, i)

-----------------------------------------------------------------------------
Run(j) == SetRunning(j) \/ PassGate(j) \/ RunEnds(j)

JobsNext ==
    \/ ReadTable
    \/ \E j \in Turn : Submit(j) \/ Enter(j) \/ TimePasses(j) \/ Run(j) \/ SendCallbacks(j)

JobsSpec == JobsInit /\ [][JobsNext]_jobsVars

\* The goroutine of run keeps going: acquire has a timer, and the executor gets a
\* context with job.Timeout.  Nobody has to submit a job or to read the table, and
\* the HTTP client of sendWebhook has no timeout.
JobsFairSpec == JobsSpec /\ \A j \in Turn : WF_jobsVars(Run(j))

\* Statuses, and at most three callbacks per job: the sweep can fail it while it
\* is pending, again after setRunning revived it, and run ends it once.
JobsTypeOK ==
    /\ GateTypeOK
    /\ status \in [Turn -> Unfinished \cup Ended \cup {NoStatus}]
    /\ runner \in [Turn -> {"none", "submitting", "spawned", "agent", "gateway", "ended"}]
    /\ overdue \in [Turn -> BOOLEAN]
    /\ \A j \in Turn : /\ Len(callbacks[j]) <= 3
                       /\ \A i \in DOMAIN callbacks[j] : callbacks[j][i] \in Callback

\* Whatever the sweep reported before, the outcome that run stored is itself put
\* in a callback: when a job's goroutines are through, one callback carried the
\* status the table shows.
OutcomeIsReported ==
    \A j \in Watched :
        (runner[j] = "ended" /\ \A i \in DOMAIN callbacks[j] :
                                   callbacks[j][i].at \in {"sent", "givenUp"})
        => \E i \in DOMAIN callbacks[j] : callbacks[j][i].payload = status[j]

\* A client that saw a job completed can rely on it: neither a later sweep nor
\* the job's own goroutine takes it back.  (A job seen failed can still turn
\* out completed.)
CompletedIsFinal ==
    [][\A j \in Turn : status[j] = "completed" => status'[j] = "completed"]_jobsVars

\* A submitted job ends for good although setRunning revives a failed one, a
\* job may wait in the queue of the gateway, and nobody may ever poll.
JobsEnd ==
    \A j \in Turn : status[j] = "pending" ~> [](status[j] \in Ended)
=============================================================================
