-------------------------- MODULE LocalSessionStore --------------------------
(***************************************************************************)
(* The durable store of standalone sessions (internal/acp/session_local.go *)
(* and session_local_runs.go): Bridge processes that share one PostgreSQL  *)
(* database, accept messages as runs, hand each run to an external         *)
(* executor, and journal what happened.                                    *)
(*                                                                         *)
(* A process is one incarnation of a Bridge, with its own ownerID; a       *)
(* restart is another member of Process.  It owns the store while its lock *)
(* connection holds the advisory lock.  Every database transaction is one  *)
(* step; what a process reads before a transaction, or does after it, is   *)
(* a step of its own, so that other processes, a lost lock connection or a *)
(* crash can come in between.                                              *)
(***************************************************************************)
EXTENDS Naturals, Sequences, FiniteSets

CONSTANTS
    Process,    \* incarnations of the Bridge
    Session,    \* sessions of the installation owner
    Run,        \* run ids (uuid.NewString)
    Key,        \* clientRequestIds of messages
    Content,    \* message bodies, told apart by their hash
    CancelKey,  \* clientRequestIds of cancel requests
    None,       \* no process, no request, no run, no session
    Legacy,     \* the owner 'legacy-unfenced' of a reconciliation hazard
    MaxFaults   \* bound on storage operations that report an error

ASSUME ConstantsAssumption ==
    /\ None \notin Process \cup Run \cup Session
    /\ Legacy \notin Process \cup {None}
    /\ MaxFaults \in Nat

Request == [session : Session, key : Key, content : Content]

ASSUME RequestAssumption == None \notin Request

ActiveStates == {"queued", "running", "cancel_requested"}
TerminalStates == {"completed", "failed", "cancelled"}
RunStates == {"absent"} \cup ActiveStates \cup TerminalStates
EventTypes == {"message.created", "run.queued", "run.running", "run.progressed",
               "run.cancel_requested", "assistant.message.created",
               "run.completed", "run.failed", "run.cancelled"}

VARIABLES
    \* PostgreSQL
    runReq,        \* the request a run row was inserted for
    runState,      \* bridge_local_runs.state
    sessionState,  \* bridge_local_sessions.run_state
    log,           \* bridge_local_events of a session, in seq order
    cancels,       \* bridge_local_cancel_requests
    hazards,       \* bridge_local_execution_hazards: owner_id of a run
    lockOwner,     \* holder of the advisory lock
    \* memory of the processes
    phase,         \* life of a process's store
    todo,          \* runs initializeRuns still has to finish
    accepting,     \* request of the acceptLocalMessage that holds mu
    lost,          \* ownershipLost
    home,          \* process whose active map holds the run
    pc,            \* where the run's executeLocal goroutine is
    ctx,           \* the run's execution context
    outcome,       \* state the goroutine will next ask finish for
    \* the executor and the clients, outside the Bridge
    alive,         \* runs whose external execution may still have effects
    dispatched,    \* how often Process was called for a run
    receipts,      \* receipts clients were given
    faults         \* storage errors so far

db == <<runReq, runState, sessionState, log, cancels>>
memory == <<phase, todo, accepting, lost, home, pc, ctx, outcome>>
world == <<alive, dispatched, receipts>>
vars == <<db, hazards, lockOwner, memory, world, faults>>

Phases == {"new", "opening", "fenced", "reconciling", "open", "closing",
           "stopped", "crashed"}
PcStates == {"none", "starting", "checked", "aborting", "ready", "processing",
             "returned", "retrying", "clearing", "exiting", "done"}

Event == [run : Run, type : EventTypes]

TypeOK ==
    /\ runReq \in [Run -> Request \cup {None}]
    /\ runState \in [Run -> RunStates]
    /\ sessionState \in [Session -> {"idle"} \cup ActiveStates \cup TerminalStates]
    /\ log \in [Session -> Seq(Event)]
    /\ cancels \in [Session -> [CancelKey -> Run \cup {None}]]
    /\ hazards \in [Run -> Process \cup {Legacy, None}]
    /\ lockOwner \in Process \cup {None}
    /\ phase \in [Process -> Phases]
    /\ todo \in [Process -> SUBSET Run]
    /\ accepting \in [Process -> Request \cup {None}]
    /\ lost \in [Process -> BOOLEAN]
    /\ home \in [Run -> Process \cup {None}]
    /\ pc \in [Run -> PcStates]
    /\ ctx \in [Run -> {"live", "cancelled", "expired"}]
    /\ outcome \in [Run -> TerminalStates]
    /\ alive \in SUBSET Run
    /\ dispatched \in [Run -> Nat]
    /\ receipts \in SUBSET [request : Request, run : Run]
    /\ faults \in 0..MaxFaults

(***************************************************************************)
(* A database in which the sessions exist and nothing was sent yet, and    *)
(* processes that did not open it yet.                                     *)
(***************************************************************************)
Init ==
    /\ runReq = [r \in Run |-> None]
    /\ runState = [r \in Run |-> "absent"]
    /\ sessionState = [s \in Session |-> "idle"]
    /\ log = [s \in Session |-> <<>>]
    /\ cancels = [s \in Session |-> [k \in CancelKey |-> None]]
    /\ hazards = [r \in Run |-> None]
    /\ lockOwner = None
    /\ phase = [p \in Process |-> "new"]
    /\ todo = [p \in Process |-> {}]
    /\ accepting = [p \in Process |-> None]
    /\ lost = [p \in Process |-> FALSE]
    /\ home = [r \in Run |-> None]
    /\ pc = [r \in Run |-> "none"]
    /\ ctx = [r \in Run |-> "live"]
    /\ outcome = [r \in Run |-> "failed"]
    /\ alive = {}
    /\ dispatched = [r \in Run |-> 0]
    /\ receipts = {}
    /\ faults = 0

-----------------------------------------------------------------------------
(* Helpers *)

IsActive(r) == runState[r] \in ActiveStates

InSession(r, s) == runState[r] # "absent" /\ runReq[r].session = s

\* The active map of a process: the runs whose goroutine has not exited.
ActiveRuns(p) == {r \in Run : home[r] = p /\ pc[r] \notin {"none", "done"}}

\* Mutant: Close keeps mu while it waits for the goroutines.
MuFreeUnlessClosing(p) ==
    /\ accepting[p] = None
    /\ phase[p] # "closing"
    /\ \A r \in Run : home[r] = p => pc[r] # "clearing"

\* mu is held across two steps by an acceptLocalMessage between its ownership
\* probe and its commit, and by a finish between its commit and the DELETE.
MuFree(p) ==
    /\ accepting[p] = None
    /\ \A r \in Run : home[r] = p => pc[r] # "clearing"

CancelAll(p) ==
    ctx' = [r \in Run |-> IF r \in ActiveRuns(p) /\ ctx[r] = "live"
                          THEN "cancelled" ELSE ctx[r]]

loseOwnershipLocked(p) ==
    /\ lost' = [lost EXCEPT ![p] = TRUE]
    /\ CancelAll(p)

\* A storage operation reports an error.
StorageFault == faults < MaxFaults /\ faults' = faults + 1

\* A statement on the lock connection fails: it is gone, or times out.
ProbeFails(p) ==
    \/ lockOwner # p /\ UNCHANGED faults
    \/ StorageFault

appendEvents(s, r, types) ==
    log' = [log EXCEPT ![s] =
              @ \o [i \in 1..Len(types) |-> [run |-> r, type |-> types[i]]]]

GoTo(r, next) == pc' = [pc EXCEPT ![r] = next]

\* Mutant: the run row gets the session's resting state.
SetRunIdle(r, state) ==
    /\ runState' = [runState EXCEPT ![r] = "idle"]
    /\ sessionState' = [sessionState EXCEPT ![runReq[r].session] = state]

\* Mutant: the session row is forgotten.
SetRunOnly(r, state) ==
    /\ runState' = [runState EXCEPT ![r] = state]
    /\ UNCHANGED sessionState

SetRun(r, state) ==
    /\ runState' = [runState EXCEPT ![r] = state]
    /\ sessionState' = [sessionState EXCEPT ![runReq[r].session] = state]

-----------------------------------------------------------------------------
(* openLocalSessionStore and initializeRuns *)

\* pg_try_advisory_lock succeeds, or the store stays closed: the process tries
\* only once (localSessionOnce).
Open(p) ==
    /\ phase[p] = "new"
    /\ IF lockOwner = None
       THEN lockOwner' = p /\ phase' = [phase EXCEPT ![p] = "opening"]
       ELSE phase' = [phase EXCEPT ![p] = "stopped"] /\ UNCHANGED lockOwner
    /\ UNCHANGED <<db, hazards, todo, accepting, lost, home, pc, ctx, outcome,
                   world, faults>>

\* INSERT ... SELECT id,'legacy-unfenced' ... ON CONFLICT DO NOTHING
FenceActiveRuns(p) ==
    /\ phase[p] = "opening"
    /\ hazards' = [r \in Run |-> IF IsActive(r) /\ hazards[r] = None
                                 THEN Legacy ELSE hazards[r]]
    /\ phase' = [phase EXCEPT ![p] = "fenced"]
    /\ UNCHANGED <<db, lockOwner, todo, accepting, lost, home, pc, ctx, outcome,
                   world, faults>>

AbandonedRuns == {r \in Run : IsActive(r)}

ListActiveRuns(p) ==
    /\ phase[p] = "fenced"
    /\ todo' = [todo EXCEPT ![p] = AbandonedRuns]
    /\ phase' = [phase EXCEPT ![p] = "reconciling"]
    /\ UNCHANGED <<db, hazards, lockOwner, accepting, lost, home, pc, ctx,
                   outcome, world, faults>>

\* Mutant: a requested cancellation is forgotten.
FinalStateAsked(r, state, restart) == state

\* A requested cancellation wins over what the goroutine asks for, but not over
\* the reconciliation of a restart (code BRIDGE_RESTART_INTERRUPTED).
FinalState(r, state, restart) ==
    IF runState[r] = "cancel_requested" /\ ~restart THEN "cancelled" ELSE state

\* The transaction of finish.
finishTx(r, state, restart) ==
    IF IsActive(r)
    THEN LET final == FinalState(r, state, restart)
         IN /\ SetRun(r, final)
            /\ appendEvents(runReq[r].session, r,
                 IF final = "completed"
                 THEN <<"assistant.message.created", "run.completed">>
                 ELSE <<IF final = "failed" THEN "run.failed" ELSE "run.cancelled">>)
            /\ UNCHANGED <<runReq, cancels>>
    ELSE UNCHANGED db

ReconcileRun(p, r) ==
    /\ phase[p] = "reconciling"
    /\ r \in todo[p]
    /\ finishTx(r, "failed", TRUE)
    /\ todo' = [todo EXCEPT ![p] = @ \ {r}]
    /\ UNCHANGED <<hazards, lockOwner, phase, accepting, lost, home, pc, ctx,
                   outcome, world, faults>>

FinishOpen(p) ==
    /\ phase[p] = "reconciling"
    /\ todo[p] = {}
    /\ phase' = [phase EXCEPT ![p] = "open"]
    /\ UNCHANGED <<db, hazards, lockOwner, todo, accepting, lost, home, pc, ctx,
                   outcome, world, faults>>

Release(p) == lockOwner' = IF lockOwner = p THEN None ELSE lockOwner

\* A failing statement of initializeRuns closes the store for good.
AbortOpen(p) ==
    /\ phase[p] \in {"opening", "fenced", "reconciling"}
    /\ StorageFault
    /\ Release(p)
    /\ phase' = [phase EXCEPT ![p] = "stopped"]
    /\ UNCHANGED <<db, hazards, todo, accepting, lost, home, pc, ctx, outcome,
                   world>>

-----------------------------------------------------------------------------
(* acceptLocalMessage *)

\* Under mu: refused once ownership is lost or the store is closed; the lock
\* connection is probed, and a failing probe gives ownership up.
AcceptProbe(p, req) ==
    /\ phase[p] = "open"
    /\ MuFree(p)
    /\ ~lost[p]
    /\ IF lockOwner = p
       THEN accepting' = [accepting EXCEPT ![p] = req] /\ UNCHANGED <<lost, ctx>>
       ELSE loseOwnershipLocked(p) /\ UNCHANGED accepting
    /\ UNCHANGED <<db, hazards, lockOwner, phase, todo, home, pc, outcome, world,
                   faults>>

\* The probe runs on the context of the HTTP request: a client that is gone by
\* then makes it fail although the lock connection is intact.
AcceptProbeClientGone(p) ==
    /\ phase[p] = "open"
    /\ MuFree(p)
    /\ ~lost[p]
    /\ loseOwnershipLocked(p)
    /\ UNCHANGED <<db, hazards, lockOwner, phase, todo, accepting, home, pc,
                   outcome, world, faults>>

\* Mutant: the idempotency lookup and its unique constraint are missing.
SameKeyNone(req) == {}

SameKey(req) ==
    {r \in Run : InSession(r, req.session) /\ runReq[r].key = req.key}

Busy(s) == \E r \in Run : InSession(r, s) /\ IsActive(r)

\* Mutant: the owner's own leftover hazards do not count.
RecoveryForeignOnly(p, s) ==
    \E r \in Run : hazards[r] # None /\ hazards[r] # p

\* A hazard of another owner anywhere, or one of this session's settled runs.
RecoveryRequired(p, s) ==
    \E r \in Run : /\ hazards[r] # None
                   /\ \/ hazards[r] # p
                      \/ InSession(r, s) /\ ~IsActive(r)

\* Mutant: the hash of the request is not compared.
AnyContent(r, req) == TRUE

SameContent(r, req) == runReq[r].content = req.content

\* Exact retry: the stored receipt, with no new run.
AcceptReplay(p) ==
    /\ accepting[p] # None
    /\ \E r \in SameKey(accepting[p]) :
          /\ SameContent(r, accepting[p])
          /\ receipts' = receipts \cup {[request |-> accepting[p], run |-> r]}
    /\ accepting' = [accepting EXCEPT ![p] = None]
    /\ UNCHANGED <<db, hazards, lockOwner, phase, todo, lost, home, pc, ctx,
                   outcome, alive, dispatched, faults>>

\* Any of the refusals: 404, 409, 503 or a rolled back transaction.
AcceptReject(p) ==
    /\ accepting[p] # None
    /\ accepting' = [accepting EXCEPT ![p] = None]
    /\ UNCHANGED <<db, hazards, lockOwner, phase, todo, lost, home, pc, ctx,
                   outcome, world, faults>>

Admissible(p, req) ==
    /\ SameKey(req) = {}
    /\ ~RecoveryRequired(p, req.session)
    /\ ~Busy(req.session)

insertRun(r, req) ==
    /\ runState[r] = "absent"
    /\ runReq' = [runReq EXCEPT ![r] = req]
    /\ runState' = [runState EXCEPT ![r] = "queued"]
    /\ sessionState' = [sessionState EXCEPT ![req.session] = "queued"]
    /\ appendEvents(req.session, r, <<"message.created", "run.queued">>)
    /\ UNCHANGED cancels

\* The run is committed and its goroutine started (202).
AcceptCommit(p, r) ==
    /\ accepting[p] # None
    /\ Admissible(p, accepting[p])
    /\ insertRun(r, accepting[p])
    /\ home' = [home EXCEPT ![r] = p]
    /\ GoTo(r, "starting")
    /\ receipts' = receipts \cup {[request |-> accepting[p], run |-> r]}
    /\ accepting' = [accepting EXCEPT ![p] = None]
    /\ UNCHANGED <<hazards, lockOwner, phase, todo, lost, ctx, outcome, alive,
                   dispatched, faults>>

\* The commit took effect but its confirmation was lost (503): no goroutine.
AcceptUnconfirmed(p, r) ==
    /\ accepting[p] # None
    /\ Admissible(p, accepting[p])
    /\ StorageFault
    /\ insertRun(r, accepting[p])
    /\ accepting' = [accepting EXCEPT ![p] = None]
    /\ UNCHANGED <<hazards, lockOwner, phase, todo, lost, home, pc, ctx, outcome,
                   world>>

-----------------------------------------------------------------------------
(* executeLocal: transition *)

\* Mutant: a run that could not be started is not settled.
AbandonExecution(r) == GoTo(r, "exiting")

\* transition returned an error: the executor is not called, finish(failed) is.
AbortExecution(r) == GoTo(r, "aborting")

\* The checks of transition under mu, which is released before its transaction.
TransitionCheck(r) ==
    LET p == home[r] IN
    /\ pc[r] = "starting"
    /\ MuFree(p)
    /\ \/ /\ phase[p] = "closing" \/ lost[p]
          /\ AbortExecution(r)
          /\ UNCHANGED <<lost, ctx, faults>>
       \/ /\ phase[p] = "open" /\ ~lost[p]
          /\ lockOwner = p
          /\ GoTo(r, "checked")
          /\ UNCHANGED <<lost, ctx, faults>>
       \/ /\ phase[p] = "open" /\ ~lost[p]
          /\ ProbeFails(p)
          /\ loseOwnershipLocked(p)
          /\ AbortExecution(r)
    /\ UNCHANGED <<db, hazards, lockOwner, phase, todo, accepting, home, outcome,
                   world>>

\* The row is still queued and the hazard is not there yet (primary key).
transitionTx(r) ==
    /\ runState[r] = "queued"
    /\ hazards[r] = None
    /\ hazards' = [hazards EXCEPT ![r] = home[r]]
    /\ SetRun(r, "running")
    /\ appendEvents(runReq[r].session, r, <<"run.running", "run.progressed">>)
    /\ UNCHANGED <<runReq, cancels>>

TransitionCommit(r) ==
    /\ pc[r] = "checked"
    /\ transitionTx(r)
    /\ GoTo(r, "ready")
    /\ UNCHANGED <<lockOwner, phase, todo, accepting, lost, home, ctx, outcome,
                   world, faults>>

\* transition returns an error: it found the run no longer queued or already
\* fenced, it was rolled back, or its commit was not confirmed.
TransitionError(r) ==
    /\ pc[r] = "checked"
    /\ \/ /\ runState[r] # "queued" \/ hazards[r] # None
          /\ UNCHANGED <<db, hazards, faults>>
       \/ StorageFault /\ UNCHANGED <<db, hazards>>
       \/ StorageFault /\ transitionTx(r)
    /\ AbortExecution(r)
    /\ UNCHANGED <<lockOwner, phase, todo, accepting, lost, home, ctx, outcome,
                   world>>

-----------------------------------------------------------------------------
(* executeLocal: the executor call *)

Outcome(r, result) ==
    CASE ctx[r] = "cancelled" -> "cancelled"
      [] ctx[r] = "expired" -> "failed"
      [] OTHER -> result

Dispatchable(r) == pc[r] = "ready" /\ ctx[r] = "live"

Dispatch(r) ==
    /\ Dispatchable(r)
    /\ GoTo(r, "processing")
    /\ alive' = alive \cup {r}
    /\ dispatched' = [dispatched EXCEPT ![r] = @ + 1]
    /\ UNCHANGED <<db, hazards, lockOwner, phase, todo, accepting, lost, home,
                   ctx, outcome, receipts, faults>>

SkipDispatch(r) ==
    /\ pc[r] = "ready"
    /\ ctx[r] # "live"
    /\ GoTo(r, "returned")
    /\ outcome' = [outcome EXCEPT ![r] = Outcome(r, "failed")]
    /\ UNCHANGED <<db, hazards, lockOwner, phase, todo, accepting, lost, home,
                   ctx, world, faults>>

\* Process returns: a synchronous completion proves that the execution ended;
\* an error, a panic or a non-terminal answer proves nothing about it.
ProcessReturn(r, result) ==
    /\ pc[r] = "processing"
    /\ \/ result = "completed" /\ r \in alive /\ alive' = alive \ {r}
       \/ result = "failed" /\ UNCHANGED alive
    /\ GoTo(r, "returned")
    /\ outcome' = [outcome EXCEPT ![r] = Outcome(r, result)]
    /\ UNCHANGED <<db, hazards, lockOwner, phase, todo, accepting, lost, home,
                   ctx, dispatched, receipts, faults>>

\* The external execution ends by itself, unobserved.
ExecutorStops(r) ==
    /\ r \in alive
    /\ alive' = alive \ {r}
    /\ UNCHANGED <<db, hazards, lockOwner, memory, dispatched, receipts, faults>>

\* The 30 minute deadline of the execution context, long after the 5 seconds
\* transition may take; nothing reads the context once Process has returned.
ContextExpires(r) ==
    /\ pc[r] \in {"ready", "processing"}
    /\ ctx[r] = "live"
    /\ ctx' = [ctx EXCEPT ![r] = "expired"]
    /\ UNCHANGED <<db, hazards, lockOwner, phase, todo, accepting, lost, home,
                   pc, outcome, world, faults>>

-----------------------------------------------------------------------------
(* executeLocal: finish *)

\* Mutant: every settled run clears its hazard.
MayClearAlways(p, final) == ~lost[p] /\ phase[p] # "closing"

MayClear(p, final) ==
    final = "completed" /\ ~lost[p] /\ phase[p] # "closing"

\* finish committed (or found the run settled): the hazard of a completed run
\* is still to be deleted, on the lock connection and with mu held.
Finish(r) ==
    LET p == home[r] IN
    /\ pc[r] \in {"aborting", "returned", "retrying"}
    /\ MuFree(p)
    /\ finishTx(r, outcome[r], FALSE)
    /\ GoTo(r, IF IsActive(r) /\ MayClear(p, runState'[r])
               THEN "clearing" ELSE "exiting")
    /\ outcome' = [outcome EXCEPT ![r] = "failed"]
    /\ UNCHANGED <<hazards, lockOwner, phase, todo, accepting, lost, home, ctx,
                   world, faults>>

\* Mutant: the result is not recorded a second time.
GiveUpFinish(r) == "exiting"

\* Only the result of the executor is recorded a second time.
AfterFinishError(r) == IF pc[r] = "returned" THEN "retrying" ELSE "exiting"

\* finish returns an error, its transaction rolled back or its commit applied
\* but not confirmed.
FinishError(r) ==
    /\ pc[r] \in {"aborting", "returned", "retrying"}
    /\ MuFree(home[r])
    /\ StorageFault
    /\ \/ UNCHANGED db
       \/ IsActive(r) /\ finishTx(r, outcome[r], FALSE)
    /\ GoTo(r, AfterFinishError(r))
    /\ outcome' = [outcome EXCEPT ![r] = "failed"]
    /\ UNCHANGED <<hazards, lockOwner, phase, todo, accepting, lost, home, ctx,
                   world>>

\* A DELETE that is reported as failed may have been applied.
ClearHazard(r) ==
    LET p == home[r]
        cleared == [hazards EXCEPT ![r] = IF @ = p THEN None ELSE @] IN
    /\ pc[r] = "clearing"
    /\ \/ /\ lockOwner = p
          /\ hazards' = cleared
          /\ GoTo(r, "exiting")
          /\ UNCHANGED <<lost, ctx, faults>>
       \/ /\ ProbeFails(p)
          /\ loseOwnershipLocked(p)
          /\ GoTo(r, "retrying")
          /\ hazards' = hazards \/ (lockOwner = p /\ hazards' = cleared)
    /\ UNCHANGED <<db, lockOwner, phase, todo, accepting, home, outcome, world>>

\* The deferred cancel and removal from the active map, and wg.Done.
ExecuteExit(r) ==
    /\ pc[r] = "exiting"
    /\ MuFree(home[r])
    /\ GoTo(r, "done")
    /\ ctx' = [ctx EXCEPT ![r] = "cancelled"]
    /\ UNCHANGED <<db, hazards, lockOwner, phase, todo, accepting, lost, home,
                   outcome, world, faults>>

-----------------------------------------------------------------------------
(* cancelRun *)

Cancellable(r) == runState[r] \in {"queued", "running"}

\* p serves the request; a run that is queued or running must be in its active
\* map, any other state is only answered (and the key recorded).
CancelRun(p, r, k) ==
    LET s == runReq[r].session IN
    /\ phase[p] \in {"open", "closing"}
    /\ MuFree(p)
    /\ runState[r] # "absent"
    /\ cancels[s][k] \in {None, r}
    /\ cancels' = [cancels EXCEPT ![s][k] = r]
    /\ IF Cancellable(r)
       THEN /\ r \in ActiveRuns(p)
            /\ SetRun(r, "cancel_requested")
            /\ appendEvents(s, r, <<"run.cancel_requested">>)
       ELSE UNCHANGED <<runState, sessionState, log>>
    /\ \/ /\ ctx' = IF /\ runState'[r] = "cancel_requested"
                       /\ r \in ActiveRuns(p)
                       /\ ctx[r] = "live"
                    THEN [ctx EXCEPT ![r] = "cancelled"] ELSE ctx
          /\ UNCHANGED faults
       \/ StorageFault /\ UNCHANGED ctx  \* commit applied, not confirmed
    /\ UNCHANGED <<runReq, hazards, lockOwner, phase, todo, accepting, lost, home,
                   pc, outcome, world>>

-----------------------------------------------------------------------------
(* Ownership, shutdown, crash, recovery *)

\* The lock connection drops; PostgreSQL gives the advisory lock up.
LockConnectionDrops(p) ==
    /\ lockOwner = p
    /\ lockOwner' = None
    /\ UNCHANGED <<db, hazards, memory, world, faults>>

\* The probe every 100 ms fails.
WatchOwnership(p) ==
    /\ phase[p] = "open"
    /\ MuFree(p)
    /\ ~lost[p]
    /\ ProbeFails(p)
    /\ loseOwnershipLocked(p)
    /\ UNCHANGED <<db, hazards, lockOwner, phase, todo, accepting, home, pc,
                   outcome, world>>

Close(p) ==
    /\ phase[p] = "open"
    /\ MuFree(p)
    /\ phase' = [phase EXCEPT ![p] = "closing"]
    /\ CancelAll(p)
    /\ UNCHANGED <<db, hazards, lockOwner, todo, accepting, lost, home, pc,
                   outcome, world, faults>>

\* wg.Wait returned: the lock is released.
CloseDone(p) ==
    /\ phase[p] = "closing"
    /\ ActiveRuns(p) = {}
    /\ Release(p)
    /\ phase' = [phase EXCEPT ![p] = "stopped"]
    /\ UNCHANGED <<db, hazards, todo, accepting, lost, home, pc, ctx, outcome,
                   world, faults>>

\* The process dies: its memory is gone, its connections close.
Crash(p) ==
    /\ phase[p] \notin {"new", "stopped", "crashed"}
    /\ phase' = [phase EXCEPT ![p] = "crashed"]
    /\ pc' = [r \in Run |-> IF r \in ActiveRuns(p) THEN "done" ELSE pc[r]]
    /\ ctx' = [r \in Run |-> IF r \in ActiveRuns(p) THEN "cancelled" ELSE ctx[r]]
    /\ accepting' = [accepting EXCEPT ![p] = None]
    /\ todo' = [todo EXCEPT ![p] = {}]
    /\ Release(p)
    /\ UNCHANGED <<db, hazards, lost, home, outcome, world, faults>>

\* Administrative recovery, by hand: all other Bridge processes are stopped and
\* the execution is verified to have ended before its hazard is deleted.
Recover(r) ==
    /\ hazards[r] # None
    /\ \A p \in Process : p # lockOwner => phase[p] \in {"new", "stopped", "crashed"}
    /\ pc[r] \in {"none", "done"}
    /\ r \notin alive
    /\ hazards' = [hazards EXCEPT ![r] = None]
    /\ UNCHANGED <<db, lockOwner, memory, world, faults>>

-----------------------------------------------------------------------------
Opening(p) ==
    \/ Open(p) \/ FenceActiveRuns(p) \/ ListActiveRuns(p)
    \/ \E r \in Run : ReconcileRun(p, r)
    \/ FinishOpen(p) \/ AbortOpen(p)

Accepting(p) ==
    \/ AcceptReplay(p) \/ AcceptReject(p)
    \/ \E r \in Run : AcceptCommit(p, r) \/ AcceptUnconfirmed(p, r)

Executing(r) ==
    \/ TransitionCheck(r) \/ TransitionCommit(r) \/ TransitionError(r)
    \/ Dispatch(r) \/ SkipDispatch(r)
    \/ \E result \in {"completed", "failed"} : ProcessReturn(r, result)
    \/ Finish(r) \/ FinishError(r) \/ ClearHazard(r) \/ ExecuteExit(r)

Environment ==
    \/ \E p \in Process : LockConnectionDrops(p) \/ Crash(p)
    \/ \E r \in Run : ExecutorStops(r) \/ ContextExpires(r) \/ Recover(r)

Next ==
    \/ \E p \in Process :
          \/ Opening(p) \/ Accepting(p)
          \/ WatchOwnership(p) \/ Close(p) \/ CloseDone(p)
          \/ \E req \in Request : AcceptProbe(p, req)
          \/ AcceptProbeClientGone(p)
          \/ \E r \in Run, k \in CancelKey : CancelRun(p, r, k)
    \/ \E r \in Run : Executing(r)
    \/ Environment

Spec == Init /\ [][Next]_vars

-----------------------------------------------------------------------------
(* Safety *)

\* Two executions that may still have effects were never started by different
\* processes, and never for the same session: the promise of the hazard table
\* (transition's INSERT, initializeRuns' fence, recoveryRequired) across lock
\* loss, takeover, crash and cancellation.
NoOverlappingExecutions ==
    \A r1, r2 \in alive :
        /\ home[r1] = home[r2]
        /\ runReq[r1].session = runReq[r2].session => r1 = r2

\* An execution that may still have effects has its durable hazard, whatever
\* became of its run and of its process.
HazardCoversExecution == \A r \in alive : hazards[r] # None

\* The executor is called at most once per clientRequestId of a session,
\* retries, unconfirmed commits and restarts included.
AtMostOneDispatch ==
    /\ \A r \in Run : dispatched[r] <= 1
    /\ \A r1, r2 \in Run :
          /\ dispatched[r1] > 0 /\ dispatched[r2] > 0
          /\ runReq[r1].session = runReq[r2].session
          /\ runReq[r1].key = runReq[r2].key
          => r1 = r2

\* Receipts for one clientRequestId of a session name one run and one content:
\* a retry gets the run of the first request, and a key that is reused with
\* other content gets a 409 and no receipt.
ReceiptsAgree ==
    \A c1, c2 \in receipts :
        /\ c1.request.session = c2.request.session
        /\ c1.request.key = c2.request.key
        => c1 = c2

JournalOf(r) == IF runReq[r] = None THEN <<>> ELSE log[runReq[r].session]

EventsOf(journal, r) == {i \in 1..Len(journal) : journal[i].run = r}

\* The events of r in the journal are those of the history, in its order.
Reads(journal, r, history) ==
    LET events == EventsOf(journal, r) IN
    /\ Cardinality(events) = Len(history)
    /\ \A i \in events :
          journal[i].type = history[Cardinality({j \in events : j <= i})]

Opened == <<"message.created", "run.queued">>
Started == <<"run.running", "run.progressed">>

\* The histories of a run that the journal may show, by the run's state.
Histories(state) ==
    LET asked == <<"run.cancel_requested">>
        unsettled == CASE state = "queued" -> {Opened}
                       [] state = "running" -> {Opened \o Started}
                       [] state = "cancel_requested" ->
                            {Opened \o asked, Opened \o Started \o asked}
                       [] OTHER -> {}
    IN CASE state = "absent" -> {<<>>}
         [] state = "completed" ->
              {Opened \o Started \o <<"assistant.message.created", "run.completed">>}
         [] state = "cancelled" ->
              {Opened \o Started \o <<"run.cancelled">>,
               Opened \o asked \o <<"run.cancelled">>,
               Opened \o Started \o asked \o <<"run.cancelled">>}
         [] state = "failed" ->
              {h \o <<"run.failed">> : h \in {Opened, Opened \o Started,
                                           Opened \o asked,
                                           Opened \o Started \o asked}}
         [] OTHER -> unsettled

\* What a client folds out of the journal is the state of the run: one terminal
\* event, nothing after it, no completion of a run whose cancellation was
\* accepted, no start after a cancellation, whoever wrote the events.
JournalMatchesRuns ==
    \A r \in Run : \E history \in Histories(runState[r]) : Reads(JournalOf(r), r, history)

\* A session's run_state is the state of the run its last event is about: a late
\* finish of a former owner never overwrites the state of a newer run.
SessionShowsLatestRun ==
    \A s \in Session :
        IF log[s] = <<>> THEN sessionState[s] = "idle"
        ELSE sessionState[s] = runState[log[s][Len(log[s])].run]

\* The store implements the promise of RunContract.
Contract == INSTANCE RunContract WITH
    state <- runState,
    sessionOf <- [r \in Run |-> IF runReq[r] = None THEN None
                                ELSE runReq[r].session],
    started <- {r \in Run : dispatched[r] > 0}

\* Every step of the processes, the executors and the operator is a step the
\* contract allows, or changes nothing it speaks of.
ImplementsContract == Contract!ContractSpec

-----------------------------------------------------------------------------
(* Liveness *)

\* The goroutine of a run, apart from the executor call it waits for.
ExecutorStep(r) ==
    \/ TransitionCheck(r) \/ TransitionCommit(r) \/ TransitionError(r)
    \/ Dispatch(r) \/ SkipDispatch(r)
    \/ Finish(r) \/ FinishError(r) \/ ClearHazard(r) \/ ExecuteExit(r)

(***************************************************************************)
(* Goroutines are scheduled, and sync.Mutex hands mu to a waiter in the    *)
(* end (hence strong fairness where mu is waited for); the deadline timer  *)
(* fires; Process returns once its context is done; the statements of an   *)
(* opening store, of an acceptLocalMessage and of Close come to an end.    *)
(* Nothing is assumed of clients, of the executor on a live context, or of *)
(* the operator.                                                           *)
(***************************************************************************)
Fairness ==
    /\ \A r \in Run :
          /\ SF_vars(ExecutorStep(r))
          /\ WF_vars(ContextExpires(r))
          /\ WF_vars(ctx[r] # "live" /\ ProcessReturn(r, "failed"))
    /\ \A p \in Process :
          /\ WF_vars(Opening(p) /\ phase[p] # "new")
          /\ WF_vars(Accepting(p))
          /\ WF_vars(CloseDone(p))

FairSpec == Spec /\ Fairness

IsSettled(r) == runState[r] \in TerminalStates
ProcessDied(r) == \E p \in Process : home[r] = p /\ phase[p] = "crashed"

\* An accepted run is settled, unless its process dies or storage fails.
AcceptedRunSettles ==
    \A r \in Run : pc[r] = "starting" ~>
        (IsSettled(r) \/ ProcessDied(r) \/ faults > 0)

\* A run whose start was recorded is settled although one storage operation
\* fails on the way (RESULT_PERSIST_FAILED), unless its process dies.
StartedRunSettles ==
    \A r \in Run : pc[r] = "ready" ~>
        (IsSettled(r) \/ ProcessDied(r))

\* Close comes back: the goroutines it waits for never wait for it.
CloseReturns ==
    \A p \in Process : phase[p] = "closing" ~> phase[p] \in {"stopped", "crashed"}

-----------------------------------------------------------------------------
(* Statements of the documentation that the code does not keep *)

\* "HTTP client disconnect does not cancel accepted work": an execution is only
\* cancelled by a cancel request, by Close, or when the lock was lost.
DisconnectKeepsWork ==
    \A r \in Run : pc[r] = "processing" /\ ctx[r] = "cancelled" =>
        \/ runState[r] = "cancel_requested"
        \/ phase[home[r]] = "closing"
        \/ lockOwner # home[r]
=============================================================================
