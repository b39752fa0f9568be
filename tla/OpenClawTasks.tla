---------------------------- MODULE OpenClawTasks ----------------------------
(***************************************************************************)
(* OpenClaw turns of one Bridge: orchestrator.Process starts a task on the *)
(* gateway behind the admission gate and returns while it runs; clients    *)
(* poll tasks.get and send tasks.cancel.  All of them share the record the *)
(* Bridge keeps per session (internal/acp/orchestrator.go, rpc_handler.go, *)
(* openclaw_run_registry.go), under a lock that no call to the gateway     *)
(* holds.                                                                  *)
(* A slot is given back in the step that writes the record next to it: the *)
(* gate and the records share no state.                                    *)
(*                                                                         *)
(* A session record is an object: session.close removes it from the map    *)
(* while turns and polls in flight still hold it.  A run is named by the   *)
(* turn that started it (runId is the turnID, or an id the gateway chose). *)
(***************************************************************************)
EXTENDS AdmissionGate

CONSTANTS
    Session,     \* sessionIds
    Closing,     \* the sessions a client may close
    Cancelling,  \* the runs a client may cancel
    Forgotten,   \* the runs a restarted gateway may forget
    Outage,      \* whether the gateway may go away for good
    Poll,        \* concurrent tasks.get calls
    None         \* no run, no record, no result

Record == Turn \X {1, 2}
Terminal == {"completed", "failed", "cancelled", "interrupted", "wait_cancelled"}
Statuses == Terminal \cup {"running", "syncing", "unknown", "not_found"}
Result == [status : Statuses, run : Turn \cup {None}]

ASSUME TasksAssumption ==
    /\ Closing \subseteq Session /\ Cancelling \subseteq Turn /\ Forgotten \subseteq Turn
    /\ Outage \in BOOLEAN
    /\ None \notin Turn \cup Record \cup Result

TaskStates == {"none", "running", "completed", "failed", "cancelled"}

VARIABLES
    sessions,    \* Server.sessions: the record of a session
    task,        \* session.task: RunID, State, ProgressTerminal
    openClaw,    \* session.openClaw: RunID of the last accepted task
    lastResult,  \* session.lastResult
    waitRun,     \* session.artifactWaitTerminalRunID
    turn,        \* the Process call of a turn: position, session, record
    poll,        \* the tasks.get calls
    aborting,    \* runs whose chat.abort is on its way
    late,        \* runs past their DeadlineAt
    native,      \* what the gateway knows of a run
    up           \* the gateway can be reached

records == <<sessions, task, openClaw, lastResult, waitRun>>
tasksVars == <<gateVars, records, turn, poll, aborting, late, native, up>>

TurnSteps == {"idle", "admission", "sent", "failing", "failed", "normalizing", "done"}
PollSteps == {"idle", "scoped", "asking", "lost", "got", "cached", "answered"}
NativeStates == {"none", "running", "syncing", "completed", "failed", "cancelled",
                 "unknown"}

TasksTypeOK ==
    /\ GateTypeOK
    /\ sessions \in [Session -> Record \cup {None}]
    /\ task \in [Record -> [turn : Turn \cup {None}, run : Turn \cup {None},
                            state : TaskStates, terminal : BOOLEAN]]
    /\ openClaw \in [Record -> Turn \cup {None}]
    /\ lastResult \in [Record -> Result \cup {None}]
    /\ waitRun \in [Record -> Turn \cup {None}]
    /\ turn \in [Turn -> [step : TurnSteps, session : Session \cup {None},
                          held : Record \cup {None}]]
    /\ poll \in [Poll -> [at : PollSteps, session : Session \cup {None},
                          asked : Turn \cup {None}, answer : Result \cup {None}]]
    /\ aborting \in SUBSET Turn
    /\ late \in SUBSET Turn
    /\ native \in [Turn -> NativeStates]
    /\ up \in BOOLEAN

NoTask == [turn |-> None, run |-> None, state |-> "none", terminal |-> FALSE]
IdlePoll == [at |-> "idle", session |-> None, asked |-> None, answer |-> None]

TasksInit ==
    /\ GateInit
    /\ sessions = [s \in Session |-> None]
    /\ task = [o \in Record |-> NoTask]
    /\ openClaw = [o \in Record |-> None]
    /\ lastResult = [o \in Record |-> None]
    /\ waitRun = [o \in Record |-> None]
    /\ turn = [t \in Turn |-> [step |-> "idle", session |-> None, held |-> None]]
    /\ poll = [q \in Poll |-> IdlePoll]
    /\ aborting = {}
    /\ late = {}
    /\ native = [t \in Turn |-> "none"]
    /\ up = TRUE

GoTo(t, step) == turn' = [turn EXCEPT ![t].step = step]

-----------------------------------------------------------------------------
(* Process and startOpenClawGatewayTask *)

\* The record of s: the one in the map, or a new one for the calling turn.
getOrCreateSession(s, new) == IF sessions[s] = None THEN new ELSE sessions[s]

\* Process: the task of the session's record is reset for the new turn.
Begin(t, s) ==
    LET o == getOrCreateSession(s, <<t, 1>>) IN
    /\ turn[t].step = "idle"
    /\ sessions' = [sessions EXCEPT ![s] = o]
    /\ task' = [task EXCEPT ![o] = [turn |-> t, run |-> None, state |-> "running",
                                    terminal |-> FALSE]]
    /\ turn' = [turn EXCEPT ![t] = [step |-> "admission", session |-> s, held |-> o]]
    /\ UNCHANGED <<gateVars, openClaw, lastResult, waitRun, poll, aborting, late,
                   native, up>>

PassGate(t) ==
    /\ turn[t].step = "admission"
    /\ Acquire(t)
    /\ UNCHANGED <<records, turn, poll, aborting, late, native, up>>

\* No admission, no connection, or an error before chat.send was delivered.
StartFails(t) ==
    /\ turn[t].step = "admission"
    /\ gate[t] \in {"refused", "admitted"}
    /\ GoTo(t, "failing")
    /\ UNCHANGED <<gateVars, records, poll, aborting, late, native, up>>

\* chat.send starts the run; its idempotency key makes a retry the same run.
\* The answer may be lost, name another session, or its run may be refused an
\* artifact scope: then the turn fails although the run goes on.
SendChat(t) ==
    /\ turn[t].step = "admission"
    /\ gate[t] = "admitted"
    /\ up
    /\ native' = [native EXCEPT ![t] = "running"]
    /\ GoTo(t, "sent") \/ GoTo(t, "failing")
    /\ UNCHANGED <<gateVars, records, poll, aborting, late, up>>

\* Everything a former turn may have left behind is reset.
AcceptedTask(o, t) ==
    [task[o] EXCEPT !.run = t, !.state = "running", !.terminal = FALSE]

\* The accepted run becomes the session's run, and the slot is released.
Accept(t) ==
    LET s == turn[t].session
        o == getOrCreateSession(s, <<t, 2>>)
    IN /\ turn[t].step = "sent"
       /\ sessions' = [sessions EXCEPT ![s] = o]
       /\ task' = [task EXCEPT ![o] = AcceptedTask(o, t)]
       /\ openClaw' = [openClaw EXCEPT ![o] = t]
       /\ lastResult' = [lastResult EXCEPT ![o] = [status |-> "running", run |-> t]]
       /\ Release(t)
       /\ GoTo(t, "normalizing")
       /\ UNCHANGED <<waitRun, poll, aborting, late, native, up>>

\* normalizeResult, on the record Process got at its start.
NormalizeResult(t) ==
    LET o == turn[t].held IN
    /\ turn[t].step = "normalizing"
    /\ task' = [task EXCEPT ![o].state = "running"]
    /\ lastResult' = [lastResult EXCEPT ![o] = [status |-> "running", run |-> t]]
    /\ GoTo(t, "done")
    /\ UNCHANGED <<gateVars, sessions, openClaw, waitRun, poll, aborting, late,
                   native, up>>

\* Mutant: the error path forgets the slot.
ReleaseOnErrorNever(t) ==
    /\ IF gate[t] = "admitted" THEN Move(t, "released") ELSE UNCHANGED gate
    /\ UNCHANGED <<slots, queued>>

\* runGateway releases the slot on every error after acquire.
ReleaseOnError(t) ==
    IF gate[t] = "admitted" THEN Release(t) ELSE UNCHANGED gateVars

\* normalizeGatewayFailureResult: the failure of a turn names no run.
FailTurn(t) ==
    LET o == turn[t].held IN
    /\ turn[t].step = "failing"
    /\ ReleaseOnError(t)
    /\ task' = [task EXCEPT ![o].state = "failed"]
    /\ lastResult' = [lastResult EXCEPT ![o] = [status |-> "failed", run |-> None]]
    /\ GoTo(t, "failed")
    /\ UNCHANGED <<sessions, openClaw, waitRun, poll, aborting, late, native, up>>

-----------------------------------------------------------------------------
(* tasks.get *)

\* The result kept for a run, if it is terminal and not known to be another's.
cachedTerminalForRun(o, run) ==
    /\ o # None
    /\ task[o].terminal
    /\ lastResult[o] # None
    /\ lastResult[o].status \in Terminal
    /\ run = None \/ lastResult[o].run \in {None, run}

\* The client names a run it was told of, or only its session
\* (taskGetParamsWithSessionScope then fills in the session's run).
PollStart(q, s, run) ==
    /\ poll[q].at = "idle"
    /\ run # None => turn[run].step \in {"normalizing", "done"} /\ turn[run].session = s
    /\ poll' = [poll EXCEPT ![q] =
         [at |-> "scoped", session |-> s, answer |-> None,
          asked |-> IF run = None /\ sessions[s] # None
                    THEN task[sessions[s]].run ELSE run]]
    /\ UNCHANGED <<gateVars, records, turn, aborting, late, native, up>>

PollCached(q) ==
    LET o == sessions[poll[q].session] IN
    /\ poll[q].at = "scoped"
    /\ poll' = IF cachedTerminalForRun(o, poll[q].asked)
               THEN [poll EXCEPT ![q].at = "cached", ![q].answer = lastResult[o]]
               ELSE [poll EXCEPT ![q].at = "asking"]
    /\ UNCHANGED <<gateVars, records, turn, aborting, late, native, up>>

\* activeOpenClawTaskRecord and openClawTaskRecordStillActive.
StillActive(o) ==
    /\ o # None
    /\ task[o].state = "running"
    /\ openClaw[o] # None
    /\ openClaw[o] \notin late

\* What handleTaskGet makes of the gateway's answer about run.  An unknown run
\* is running while the session's task is, and is else judged by its artifacts;
\* without artifacts the answer stays "unknown".
Reported(o, run) ==
    CASE native[run] = "none" -> {}
      [] native[run] = "unknown" ->
           {[status |-> "unknown", run |-> run]} \cup
           (IF StillActive(o) THEN {[status |-> "running", run |-> openClaw[o]]}
            ELSE {[status |-> st, run |-> run] : st \in {"completed", "failed"}})
      [] OTHER -> {[status |-> native[run], run |-> run]}

\* A lookup without a run id finds a run of the session by its key.
LookedUp(s, run) == IF run # None THEN {run}
                    ELSE {t \in Turn : turn[t].session = s}

PollAsk(q) ==
    LET s == poll[q].session IN
    /\ poll[q].at = "asking"
    /\ \/ poll' = [poll EXCEPT ![q].at = "lost"]
       \/ /\ up
          /\ \E run \in LookedUp(s, poll[q].asked) :
                \E answer \in Reported(sessions[s], run) :
                   poll' = [poll EXCEPT ![q].at = "got", ![q].answer = answer]
    /\ UNCHANGED <<gateVars, records, turn, aborting, late, native, up>>

\* Mutant: whose result it is does not matter.
ForeignResultNever(o, asked, result) == FALSE

\* The answer, or the question, is about another run than the session's.
ForeignResult(o, asked, result) ==
    \/ asked # None /\ asked # task[o].run
    \/ result.run # None /\ result.run # task[o].run

StateOf(status) == IF status \in {"failed", "cancelled"} THEN status ELSE "completed"

\* cacheOpenClawTaskGetResultIfTerminal: a terminal result is kept, unless the
\* wait for its artifacts was cancelled; a run that only waits for artifacts is
\* remembered as such.
PollApply(q) ==
    LET o == sessions[poll[q].session]
        result == poll[q].answer
        asked == poll[q].asked
    IN /\ poll[q].at = "got"
       /\ IF \/ o = None
             \/ ForeignResult(o, asked, result)
             \/ /\ cachedTerminalForRun(o, asked)
                /\ lastResult[o].status = "wait_cancelled"
          THEN UNCHANGED <<task, lastResult, waitRun>>
          ELSE /\ waitRun' = [waitRun EXCEPT ![o] =
                                IF result.status = "syncing" THEN result.run ELSE None]
               /\ IF result.status \in Terminal
                  THEN /\ task' = [task EXCEPT ![o].state = StateOf(result.status),
                                               ![o].terminal = TRUE]
                       /\ lastResult' = [lastResult EXCEPT ![o] = result]
                  ELSE UNCHANGED <<task, lastResult>>
       /\ poll' = [poll EXCEPT ![q].at = "answered"]
       /\ UNCHANGED <<gateVars, sessions, openClaw, turn, aborting, late, native, up>>

\* Mutant: a run past its budget is still reported as running.
NeverLate(o) == FALSE

HasRun(o) == IF o = None THEN FALSE ELSE openClaw[o] # None

PastDeadline(o) == task[o].run # None /\ task[o].run \in late

\* openClawTaskGetGatewayUnconfirmedFallback: the kept result, interrupted once
\* the budget of the session's task is used up, or running.
PollFallback(q) ==
    LET o == sessions[poll[q].session]
        Answer(result) == poll' = [poll EXCEPT ![q].at = "answered", ![q].answer = result]
    IN /\ poll[q].at = "lost"
       /\ \/ /\ cachedTerminalForRun(o, poll[q].asked)
             /\ Answer(lastResult[o])
             /\ UNCHANGED <<task, lastResult>>
          \/ /\ ~cachedTerminalForRun(o, poll[q].asked)
             /\ ~HasRun(o)
             /\ Answer([status |-> "not_found", run |-> None])
             /\ UNCHANGED <<task, lastResult>>
          \/ /\ ~cachedTerminalForRun(o, poll[q].asked)
             /\ HasRun(o)
             /\ LET result == [status |-> IF PastDeadline(o) THEN "interrupted" ELSE "running",
                               run |-> openClaw[o]]
                IN /\ task' = IF PastDeadline(o)
                              THEN [task EXCEPT ![o].state = "failed", ![o].terminal = TRUE]
                              ELSE task
                   /\ lastResult' = [lastResult EXCEPT ![o] = result]
                   /\ Answer(result)
       /\ UNCHANGED <<gateVars, sessions, openClaw, waitRun, turn, aborting, late,
                      native, up>>

PollEnd(q) ==
    /\ poll[q].at \in {"cached", "answered"}
    /\ poll' = [poll EXCEPT ![q] = IdlePoll]
    /\ UNCHANGED <<gateVars, records, turn, aborting, late, native, up>>

-----------------------------------------------------------------------------
(* tasks.cancel, session.close *)

\* Mutant: any run the Bridge ever waited for can be given up.
WaitsForArtifactsAlways(o, run) == TRUE

WaitsForArtifacts(o, run) == waitRun[o] = run

\* handleTaskCancel for the session's own run: a wait for artifacts ends here,
\* otherwise the gateway is asked to abort.
CancelTask(s, run) ==
    LET o == sessions[s] IN
    /\ o # None
    /\ run \in Cancelling /\ run = task[o].run
    /\ ~cachedTerminalForRun(o, run)
    /\ IF WaitsForArtifacts(o, run)
       THEN /\ task' = [task EXCEPT ![o].state = "cancelled", ![o].terminal = TRUE]
            /\ lastResult' = [lastResult EXCEPT ![o] =
                                [status |-> "wait_cancelled", run |-> run]]
            /\ UNCHANGED aborting
       ELSE /\ aborting' = aborting \cup {run}
            /\ UNCHANGED <<task, lastResult>>
    /\ UNCHANGED <<gateVars, sessions, openClaw, waitRun, turn, poll, late, native, up>>

\* chat.abort, which may come too late or be lost.
ChatAbort(t) ==
    /\ t \in aborting
    /\ aborting' = aborting \ {t}
    /\ \/ UNCHANGED native
       \/ up /\ native[t] = "running" /\ native' = [native EXCEPT ![t] = "cancelled"]
    /\ UNCHANGED <<gateVars, records, turn, poll, late, up>>

CloseSession(s) ==
    /\ s \in Closing
    /\ sessions[s] # None
    /\ sessions' = [sessions EXCEPT ![s] = None]
    /\ UNCHANGED <<gateVars, task, openClaw, lastResult, waitRun, turn, poll,
                   aborting, late, native, up>>

-----------------------------------------------------------------------------
(* The gateway and the clock *)

RunMoves ==
    {<<"running", "syncing">>, <<"running", "completed">>, <<"syncing", "completed">>,
     <<"running", "failed">>} \cup
    {<<st, "unknown">> : st \in {"running", "syncing", "completed", "failed", "cancelled"}}

\* The run proceeds; a gateway that restarted remembers only its artifacts.
NativeStep(t) ==
    /\ \E move \in RunMoves :
          /\ native[t] = move[1]
          /\ move[2] = "unknown" => t \in Forgotten
          /\ native' = [native EXCEPT ![t] = move[2]]
    /\ UNCHANGED <<gateVars, records, turn, poll, aborting, late, up>>

DeadlinePasses(t) ==
    /\ turn[t].step \in {"normalizing", "done"}
    /\ t \notin late
    /\ late' = late \cup {t}
    /\ UNCHANGED <<gateVars, records, turn, poll, aborting, native, up>>

GatewayGone ==
    /\ Outage /\ up
    /\ up' = FALSE
    /\ UNCHANGED <<gateVars, records, turn, poll, aborting, late, native>>

-----------------------------------------------------------------------------
TurnStep(t) ==
    \/ PassGate(t) \/ StartFails(t) \/ SendChat(t)
    \/ Accept(t) \/ NormalizeResult(t) \/ FailTurn(t)

PollStep(q) ==
    \/ PollCached(q) \/ PollAsk(q) \/ PollApply(q) \/ PollFallback(q) \/ PollEnd(q)

TasksNext ==
    \/ \E t \in Turn : \/ \E s \in Session : Begin(t, s)
                       \/ TurnStep(t)
                       \/ ChatAbort(t) \/ NativeStep(t) \/ DeadlinePasses(t)
    \/ \E q \in Poll : \/ \E s \in Session, run \in Turn \cup {None} : PollStart(q, s, run)
                       \/ PollStep(q)
    \/ \E s \in Session : CloseSession(s) \/ \E run \in Turn : CancelTask(s, run)
    \/ GatewayGone

TasksSpec == TasksInit /\ [][TasksNext]_tasksVars

-----------------------------------------------------------------------------
(* Safety *)

\* The run of a record's task is the run of its openClaw entry, and a terminal
\* result kept with a run's name is that run's: no order of turns, polls and
\* cancels files one run's result under another.
RecordsAgree ==
    \A o \in Record :
        /\ task[o].run # None => openClaw[o] = task[o].run
        /\ /\ task[o].terminal /\ lastResult[o] # None
           /\ lastResult[o].status \in Terminal /\ lastResult[o].run # None
           => lastResult[o].run = task[o].run

\* A poll that is told the end of a run, by name, is told the truth: the gateway
\* reported that end, or only artifacts were left to judge by, or the budget was
\* used up, or the client gave up waiting for the artifacts of an ended run.
AnswersHaveEvidence ==
    \A q \in Poll :
        poll[q].at \in {"cached", "answered"} /\ poll[q].answer.run # None =>
        LET run == poll[q].answer.run
            status == poll[q].answer.status
        IN /\ status \in {"completed", "failed", "cancelled"} =>
                  native[run] \in {status, "unknown"}
           /\ status = "interrupted" => run \in late
           /\ status = "wait_cancelled" =>
                  native[run] \in {"syncing", "completed", "unknown"}

\* What openclaw_run_registry.go promises (T8): an end that a poll has seen is kept
\* with the session, and is not lost when the gateway cannot find the run later.
EndIsKept ==
    [][\A s \in Session :
          LET o == sessions[s] IN
          o # None /\ task[o].run # None /\ cachedTerminalForRun(o, task[o].run)
          => \/ sessions'[s] # o \/ task'[o].turn # task[o].turn \/ task'[o].run # task[o].run
             \/ cachedTerminalForRun(o, task[o].run)']_tasksVars

-----------------------------------------------------------------------------
(* Liveness *)

(***************************************************************************)
(* A poll is a goroutine and its request to the gateway has a timeout; the *)
(* clock runs.  Nothing is assumed of turns, cancels or the gateway.       *)
(***************************************************************************)
TasksFairness ==
    /\ \A t \in Turn : WF_tasksVars(DeadlinePasses(t))
    /\ \A q \in Poll : WF_tasksVars(PollStep(q))

\* A client that keeps polling each session without naming a run.
KeepsPolling == \A q \in Poll, s \in Session : SF_tasksVars(PollStart(q, s, None))

TasksFairSpec == TasksSpec /\ TasksFairness /\ KeepsPolling

\* An outage that lasts ends the wait: a run the gateway no longer confirms is
\* interrupted once its budget is used up, unless a turn or a close replaces it.
OutageEndsWaiting ==
    \A s \in Session, t \in Turn :
        ~up /\ sessions[s] # None /\ task[sessions[s]].run = t ~>
        \/ sessions[s] = None
        \/ task[sessions[s]].run # t
        \/ cachedTerminalForRun(sessions[s], t)
=============================================================================
