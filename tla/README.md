# TLA+ models of xworkmate-bridge

xworkmate-bridge is a Go control plane between XWorkmate clients and the agents
that do the work: OpenClaw gateways reached over WebSocket, DSH and other
providers reached over HTTP or stdio. Clients submit turns, messages and jobs
and learn their outcome by polling, from a journal or through callbacks, while
the execution itself happens elsewhere and outlives connections, requests and
Bridge processes. What can go wrong is therefore seldom inside one function: it
is a result that arrives late, a lock that was lost, a process that was replaced
while its work went on.

## Inventory

| component | state | operations | how it is reached | what is hard | what makes it correct |
|---|---|---|---|---|---|
| local session store (`acp/session_local*.go`) | PostgreSQL rows of sessions, runs, events, cancel requests, execution hazards; advisory lock; `active`, `closed`, `ownershipLost` under `mu` | open and reconcile, accept a message, transition, execute, finish, cancel, watch ownership, close | HTTP handlers; calls `orchestrator.Process` in a goroutine per run | two Bridge processes, lost lock connection, crash, unconfirmed commits | one execution per message, no two owners executing, journal tells the truth |
| OpenClaw admission gate (`acp/openclaw_gateway_admission.go`) | `slots` channel, `queued` counter | acquire (fast path, queue, timeout, cancelled request), release | `runGateway` around starting a task | release exactly once on every path, counter and channel updated separately | never more than `maxActive` starts, no slot lost |
| OpenClaw task registry (`acp/openclaw_run_registry.go`, `rpc_handler.go`, `openclaw_async_tasks.go`) | per session: `task`, `openClaw`, `lastResult`, artifact wait | start turn, tasks.get, tasks.cancel, session.close | concurrent RPCs on one session | results of one turn applied to the record of another; deadlines | a poll for a run answers for that run |
| session orchestrator (`acp/orchestrator.go`) | none of its own; writes session records | Process, runGateway, startOpenClawGatewayTask, normalizeResult | RPC and local store | writes after long calls made without the lock | see registry |
| task run dispatcher (`acp/task_run_*.go`) | runs by id with lease and fencing token, callback sequence | dispatch, report, poll callbacks | HTTP from a scheduler; callbacks back | duplicate dispatch, stale fence, lost callbacks | one execution per fence, monotone callbacks |
| job manager (`acp/jobs.go`) | job table, queue, webhook attempts | submit, run, fail stuck, notify | RPC; timer | completion after the stuck detector gave up | terminal states are final, one callback |
| gateway runtime and adapter (`gatewayruntime/runtime.go`, `acp/gateway*.go`) | connection, pending requests, reconnect flag, status | connect, request, receive, lose connection, disconnect | orchestrator and RPC | superseded connections, reconnect after disconnect | each request answered once, manual disconnect stays |
| distributed forwarder (`acp/distributed_forwarder.go`) | route cache | forward or run locally | front end | hop limit, stale routes | no forwarding loop |
| desktop service (`desktop/*.go`) | session table, capture pipeline | start, capture, ICE, stop | RPC | stop racing with capture start | no pipeline without session |
| provider adapters (`hermesadapter`, `acpagentadapter`, `geminiadapter`, `opencodeadapter`) | session table, child process, notification handler | prompt, cancel | HTTP | handler shared by concurrent prompts | updates reach their own prompt |
| provider compatibility layer (`acp/provider_compat.go`, `dsh_adapter.go`, `dsbot_adapter.go`) | thread map, executor sessions, one socket per call | open or resume, prompt, answer permissions, cancel | agent path of `Process` | answers of other turns on one thread, providers that fall silent | a turn is answered with its own result, calls return |
| front ends (`acp/http_handler.go`, `stdio.go`) | one event stream per request | accept, keepalive, notify, answer, close | HTTP, WebSocket, stdio | late notifications, failed writes, return of the handler | ordered streams, no use of a finished connection |
| routing (`acp/routing.go`, `router/*.go`) | none | rewrite, guess, resolve | front end, `Process` | two decisions with different rules | a turn goes where its endpoint says |
| configuration, skills, memory, vault, artifact download | none, or read-only | parse, look up | | pure I/O | not modelled |

## Plan

1. `LocalSessionStore` with `RunContract`; proofs of the fence, of dispatch, receipts,
   journal, session row and of the contract refinement (done).
2. `AdmissionGate`, `OpenClawTasks` and their proofs (done).
3. `JobManager`, `TaskRunDispatch` and their proofs (done).
4. `GatewayRuntime` and its proofs (done).
5. `DistributedForwarder`, `DesktopService`, `StreamFrontEnd` with `Routing`, the adapters
   and the compatibility layer, and their proofs (done).
6. Every safety property a run checks is now a theorem. What could follow: an abstract
   specification of the gateway session and its refinement, and more of the orchestrator
   (`helpers.go`, artifact merging).

Modules: `AdmissionGate` is extended by `OpenClawTasks` and by `JobManager`, which compose
it with turns and with jobs; `Routing` by `StreamFrontEnd`; `RunContract` is the abstract
specification that `LocalSessionStore` implements. `MC*` modules hold symmetry, bounds, the
composition of the services and, where two aspects multiply the states without touching,
the choice of the one that a behaviour looks at (`focus`). Definitions whose comment begins with "Mutant" are
wrong on purpose: each is a plausible mistake in the definition that follows it, used to
show that a property notices.

## The local session store

`LocalSessionStore.tla` models `session_local.go` and `session_local_runs.go`.
`Process` is a set of Bridge incarnations (one `ownerID` each); a restart is
another member. The tables are functions over `Run` and `Session`; `log` is the
event table in `seq` order. `hazards` is `bridge_local_execution_hazards`.

* A database transaction is one step. What the code does between transactions is
  a step of its own: the ownership check of `transition` and its transaction
  (`TransitionCheck`, `TransitionCommit`), the ownership probe of
  `acceptLocalMessage` and its commit (`AcceptProbe`, `AcceptCommit`), the commit
  of `finish` and its DELETE on the lock connection (`Finish`, `ClearHazard`; a DELETE
  that is reported as failed may have been applied).
* `mu` is not a variable. `MuFree(p)` says that none of the operations that hold
  it across two steps is between them; all others hold it within one step.
* `pc[r]` is the position of the run's `executeLocal` goroutine, `ctx[r]` its
  context, `outcome[r]` what it will ask `finish` for.
* `alive` is what the program cannot see: executions that may still have effects.
  A synchronous completion ends one; an error, a cancelled context, a dead
  process do not.
* A storage error (`StorageFault`) either rolls back or leaves a commit applied
  but unconfirmed; `MaxFaults` bounds how many happen. The drop of the lock
  connection, the crash of a process and the end of an execution are unbounded.
* `Recover` is the operator's procedure from the comment above `initializeRuns`:
  old processes stopped, the execution verified to have ended.

`RunContract.tla` is what a client is promised: states only move forward, one
active run per session, an execution only for a run that was accepted and not
settled, at most once. `ImplementsContract` maps the store to it.

Left out: creation of sessions, body files, paging, the choice between
`session.start` and `session.message`, request validation.

### Runs

| run | instance | shows |
|---|---|---|
| `store_takeover` | 2 processes, 1 session, 2 runs, 2 keys, 2 contents, a cancel key, 2 faults | `TypeOK`, `HazardCoversExecution`, `NoOverlappingExecutions`, `AtMostOneDispatch`, `JournalMatchesRuns`, `SessionShowsLatestRun`, `ReceiptsAgree` and the refinement `ImplementsContract` under takeover, crash, cancellation, late finish and failing or unconfirmed storage |
| `store_liveness` | 2 processes, 1 run, 1 fault | `AcceptedRunSettles`, `StartedRunSettles`, `CloseReturns` |
| `store_disconnect` | violation | a client that disconnects before the probe cancels the work of others |

The constraint `TwoRunsOrFaults` splits `store_takeover`: two runs are explored
without storage errors and with one content per key, storage errors and a key used
for two contents with one run.
Two processes are enough for a takeover (owner and successor); two runs for one
run to disturb another. `RecoveryRequired` treats the own session and foreign
owners differently; several sessions are covered by the proof below. Deadlock is not checked: once every
process has stopped nothing happens any more.

Fairness (`store_liveness`): goroutines are scheduled; `sync.Mutex` does not
starve a waiter, hence strong fairness for the steps that wait for `mu`; the
deadline of the execution context fires; `Process` returns once its context is
done; statements in flight come to an end. Nothing is assumed of clients, of an
executor on a live context, or of the operator.

### Proofs

`LocalSessionStoreProofs.tla` proves, for any number of processes, sessions, runs,
keys, contents and faults:

* `TypeCorrect`: `Spec => []TypeOK`;
* `ExecutionsNeverOverlap`: `Spec => []NoOverlappingExecutions`;
* `HazardsAreDurable`: `Spec => []HazardCoversExecution`;
* `DispatchedAtMostOnce`, `ReceiptsAlwaysAgree`: `AtMostOneDispatch` and `ReceiptsAgree`;
* `SessionFollowsJournal`: `Spec => []SessionShowsLatestRun`;
* `JournalTellsTheRuns`: `Spec => []JournalMatchesRuns`;
* `StoreImplementsContract`: `Spec => ImplementsContract`.

They assume that the special values differ from processes, runs, sessions and requests
(`ConstantsAssumption`, `RequestAssumption`). `NoOverlappingExecutions` is not
inductive: what matters is who may still insert a hazard. `FenceInv` adds

* `ExecutionsCovered`: an execution, alive or about to start, has a hazard of its
  own process, and `finish` only deletes it after a proven completion;
* `FenceBeforeTakeover`, `OneFencer`: while some goroutine has passed
  `transition`'s check but not its transaction, any other process that holds the
  lock has yet to run its INSERT of reconciliation hazards. That INSERT makes
  the late transaction fail on the primary key;
* `NoForeignHazard`, `OneHazardOwner`, `HazardsExclude`, `OneActiveRun`: hazards
  belong to one process, and one per session;
* `RowsComplete`, `PhasesAgree`: bookkeeping between rows, goroutines and phases.

The other theorems rest on the fence, each with an invariant of its own:

* `DispatchInv` adds `KeysUnique` (the unique constraint), `DispatchedOnce` (a goroutine
  passes the executor call once, and who shows an effect of the call is past it),
  `StartRecorded` (the start is in the row before the call) and `ReceiptsHeld`. A second
  dispatch for one key would need a second row or a second pass. The refinement needs no
  more than this: a transaction is the contract step of the same meaning, an executor
  that ends is `ExecutionEnds`, and everything else changes nothing of the contract;
* `JournalInv` adds `ActiveIsLatest`: the unsettled run of a session is the one its last
  event is about. Without it a late `finish` of an older run could overwrite
  `run_state`;
* `HistoryInv` adds `EventsAreOwn` and `ResultPending` (only a goroutine whose executor
  call returned asks `finish` for more than a failure) to `JournalMatchesRuns`. That
  property says that the events of a run, read in order, are one of the finitely many
  histories of its state. `Reads` states it by rank, the n-th event being the one with
  n events of the run up to it, rather than by filtering the journal: what one or two
  appended events do to ranks follows from cardinalities (`ReadsAppend`, `ReadsOther`),
  where filtering would need induction over the journal.

The liveness properties are model-checked only.

### Observation

`transition` checks ownership and then opens its transaction. A process that loses
the lock in between can still commit and call the executor (`session_local_runs.go`
near line 617) as long as its successor has not inserted its reconciliation hazards.
The fence makes this harmless for overlap (`ExecutionsNeverOverlap`), but the
former owner is the one that executes.

## OpenClaw turns: gate, orchestrator, task registry

`AdmissionGate.tla` models `openclaw_gateway_admission.go`. `slots` is the length
of the channel, `queued` the counter under `mu`, `gate[t]` where a caller is. The
fast path, the queue, the select of the queue and the deferred `decrementQueued`
are separate steps, because the code holds nothing between them.

`OpenClawTasks.tla` extends it with the turns that use the gate and with the calls
that share a session record:

* a turn (`Begin`, `PassGate`, `SendChat`, `Accept`, `NormalizeResult`, and
  `StartFails`, `FailTurn`) is `Process` for an OpenClaw gateway. Each critical
  section on the record is one step; gateway calls lie between them. A turn keeps
  the record it got in `Begin` (`held`), while `Accept` looks the session up again:
  after a `session.close` these differ, so records are objects, at most two per turn;
* a poll is `handleTaskGet`: `PollStart` fills in the session's run, `PollCached`
  looks into the store, `PollAsk` is the gateway's answer and what
  `normalizeOpenClawTaskGetResult` makes of it, `PollApply` files it, `PollFallback`
  is the answer when the gateway does not confirm the run;
* `CancelTask` and `ChatAbort` are `handleTaskCancel` before and after it unlocks;
* a result is reduced to its status and the run it names. `wait_cancelled` is the
  result with `cancellationScope: artifact-wait`; `syncing` the answer that waits
  for artifacts; `partially_delivered` counts as `completed`. The record's
  `SessionKey` changes with its run and is represented by it;
* external: the life of a run on the gateway (`NativeStep`), whether it can be
  reached, and which run a lookup without a run id finds (`LookedUp`). `late` is
  the set of runs past their `DeadlineAt`.

Constants bound what an instance explores: `Closing`, `Cancelling`, `Forgotten`
(runs of which a restarted gateway only has the artifacts), `Outage`. With
`Outage = FALSE` any single request may still fail; `TRUE` adds that the gateway
stays away, which only liveness can tell.

Left out: dsh and dsbot turns, `findTaskSession`'s search by thread or run when
the session is unknown (clients name their session), artifact merging, progress
texts. A gateway that answers `chat.send` with its own run id is covered: runs are
named after the turn that started them.

### Runs

| run | instance | shows |
|---|---|---|
| `tasks_records` | 2 turns, 1 session that may be closed, 1 poll, cancels, forgetful gateway | `RecordsAgree`, `AnswersHaveEvidence`, `SlotsMatchHolders` |
| `tasks_outage` | 2 turns, 1 poll, outage | `OutageEndsWaiting`: who keeps polling learns that the run was interrupted |
| `tasks_kept` | violation | `EndIsKept`: the end of a run that a poll has seen is overwritten (see below) |

The constraint `OneDisturbance` explores closed sessions apart from cancelled and
forgotten runs. The queue of the gate needs more callers than slots and places; it is
explored with the jobs below.
Records of different sessions share nothing but the gate, so one session is
enough for the records; two turns are the run that is asked about and the one
that replaces it. Deadlock is not checked: turns are finite in number.

Fairness: polls and `acquire` are goroutines whose waits have timers, and the
clock runs (weak fairness); nothing is assumed of turns. `tasks_outage` also assumes a client that polls
its session again and again without naming a run (`KeepsPolling`): the fallback
only ends the wait of someone who asks.

### Proofs

`AdmissionGateProofs.tla` proves `SlotsAreExact` and `QueueIsExact` for any finite
set of callers and any limits (`GateAssumption`). `GateInv` joins both counts with
the types: the guards test `slots` and `queued`, so that a slot is free for a
caller, and a token there for a release, follows from the counts.

`OpenClawTasksProofs.tla` proves that the turns implement the gate
(`TurnsImplementGate`: every step is a gate step or leaves it alone), hence
`TurnsKeepSlots`; `TasksTypeCorrect`; and `RecordsNeverMix`, that is
`TasksSpec => []RecordsAgree`, for any number of turns, sessions and polls.
`RecordsAgree` needs only the types and that calls under way hold their session
and record (`CallsAreBound`), since `ForeignResult` is tested in the same critical
section that files a result, and a deadline exists only together with a run.

`AnswersAreTrue` is `TasksSpec => []AnswersHaveEvidence`. The property speaks of answers
when they are given; what is given may have been read, or filed, long before. `EvidenceInv`
therefore asks for evidence of everything that is kept: the results of the records, the
runs whose artifacts are waited for, and the answers of polls on their way. It is kept
because the gateway takes no end of a run back (it may forget it) and a deadline that has
passed stays passed.

`OutageEndsWaiting` is model-checked only.

### Findings

The header of `openclaw_run_registry.go` promises (T8, line 22) that a terminal result,
once observed, is kept in `lastResult` and not lost when the gateway cannot find the run
later, and `rpc_handler.go:194` that it is then served from there. `EndIsKept` states it
and `tasks_kept` refutes it. The trace is that of `orchestrator.go:1957`: a poll files the
end of the run between `Accept` and `normalizeResult`, which then stores a running result
over it. The same happens with no turn in flight (`openclaw_run_registry.go:161`): the
session's run has ended and its end is kept; a client asks for an older run of the session,
which misses the kept result, the gateway does not answer, and the fallback stores a
running result of the newer run. If the gateway has forgotten that run by then, its end is
lost, and the run becomes interrupted at its deadline.

`RecordsAgree` speaks of results that name their run. The comment of
`cachedTerminalForRunLocked` (`openclaw_run_registry.go:98-99`) goes further: a kept end is
served only when it really is that of the run asked for. The code compares names only when
the kept result has one, and the failure of a turn has none (`:113`): filed late, it is
served for whatever run the session has by then. This case no property covers; the model has it.

## Jobs

`JobManager.tla` models `jobs.go` on top of `AdmissionGate`: the callers of the gate
are the jobs that are routed to the OpenClaw gateway. `status` is the table, `runner`
the goroutine of `run`, `overdue` the timeout as the sweep sees it, `callbacks` the
goroutines of `sendCallbacks`. `submit`, `get`, `list` and `stats` all sweep
(`failStuck`; `Submit` is the sweep of `submit`, `Enter` its second critical section, which
enters the job), and the sweep does not stop the goroutine: a failed job may be revived
by `setRunning` and still complete. The up to three tries of a webhook are one step, since
the payload is encoded once. The message that a job with a `target` sends through the
gateway's tool call is left out: it is tried once, its error dropped, and no state of the
job depends on it.

Run `jobs` (3 jobs, 1 slot, 1 place in the queue, 1 job that overruns and is watched):
`OutcomeIsReported`, `CompletedIsFinal`, `QueueMatchesWaiters`, `JobsEnd`. Three jobs are one that holds the slot, one that waits and one that is
refused. Fairness: the goroutine of `run` keeps going, because `acquire` has a timer
and the executor a context with a deadline; nobody has to read the table, and nothing
is assumed of webhooks, whose client has no timeout.

`ServicesProofs.tla` proves that the jobs implement the gate (`JobsImplementGate`),
hence `JobsKeepSlots` and `JobsKeepQueue`; `CompletedStays`, which needs
`CompletedHasEnded`: only a goroutine that ends completes its job; `OutcomesAreReported`
and `JobsTypes`. `OutcomeIsReported` is about goroutines that are through; `ReportInv`
says for one that has ended that some callback carried the status of the table or has yet
to encode it (`EndIsReported`), and bounds the callbacks by where the goroutine is
(`ReportsBounded`: two by the sweep, before and after `setRunning`, and one at the end).
`JobsEnd` is model-checked only.

## Gateway sessions

`GatewayRuntime.tla` models one session of `gatewayruntime/runtime.go` with the calls
of `gateway.go`. A step is one critical section under `mu`; dialling, writing, reading
and channel sends lie between. Processes are callers of `Connect`, the reconnect timer,
requests and disconnects; each socket has a reader. `pending`, `inbox` and the channel a
goroutine still holds are kept apart, because the code takes a channel out of the map
before it sends to it. `Connect` configures the session and publishes `connecting`
(`PublishConnecting`) in two critical sections; an attempt dials, waits for the challenge,
sends its connect request, waits and settles in steps of their own. The device token of `gateway_identity.go` may be rotated or
stale; a refused one is retried once with the shared token, which is assumed to be
configured. External: the gateway's answers and the sockets. Any attempt may get any answer
(`Reply`), except that a stale token is never accepted; the answer that is due (`Due`) costs
no fault. `MaxFaults` bounds the other answers, failures of dial and sockets, and counts a
token that is stale from the start.

Run `gateway_sessions` (1 caller, 1 timer, 1 request, 1 disconnect, 2 sockets, 2
faults): `NoLostWaiter`, `NeverStranded`, `DisconnectHolds`. Two
sockets are the superseded and the current one.

`GatewayRuntimeProofs.tla` proves, for any finite sets of callers, timers, requests,
disconnects and sockets (`GatewayAssumption`):

* `GatewayTypes`;
* `WaitersAreKept`: `GatewaySpec => []NoLostWaiter`. `WaiterInv` adds who may have a
  channel in hand: a goroutine only while it tells the owners (`TakenWhileTelling`), a read
  loop while it sends a response or has lost its connection (`ReadersHold`);
* `DisconnectIsFinal`: `GatewaySpec => DisconnectHolds`, because a manually disconnected
  session has no timer running (`NoTimerAfterDisconnect`) and only a running timer starts
  an idle timer goroutine;
* `SessionsReconnect`: `GatewaySpec => []NeverStranded`. `Reconnects` names who will bring
  the connection back: a timer, an attempt, the reader of the current socket, or a read
  loop that has seen its loss and is about to start the timer.

Observations. (1) A read loop may arm the reconnect timer before the refusal of a
request suppresses reconnects, and the timer then fires (`runtime.go:802-845`;
`runtime_test.go:282-297` covers the other order). (2) An attempt that fails late marks
a session as failed whose newer connection works (`runtime.go:884`); `NeverStranded`
therefore asks for a timer or a socket with a reader, not for a status, and no property
forbids the false status. (3) A read loop blocked in the send of a response
(`runtime.go:815`) sees no loss; `Quiet`, the premise of `NeverStranded`, counts it as
under way.

## Services

Four modules serve requests of different kinds and share no state. `MCServices.tla`
puts them in one run, `services`; every behaviour uses one of them.

* `TaskRunDispatch.tla` (`task_run_*.go`): leases with growing fences, envelopes that
  arrive late or twice, the lease checks, the running event, the execution, the report.
  The row and its conditional write are external: the code declares the condition
  (`TaskRunLeaseCondition`) and fills it in (`task_run_dispatch.go:281-287`), the writer
  checks it.
  Bounds: 3 requests, 2 leases of length 1, the clock at 0 and 1. Shows
  `NothingWithoutStart` (about the order of checks, writes and execution, whichever of them
  fails) and `EndIsReopenedOnlyByRepeat`. Observation: an expired lease is wrapped in
  `ErrTaskRunDispatchInvalid`, so it is answered 400, where `docs/api-reference.md:140`
  lists a conflict.
* `DesktopService.tla` (`internal/desktop`, `handleDesktopMethod`): offers and closes on
  one UDP port, receivers, capture processes and their monitors, the injector's restart.
  Bounds: 3 offers of 2 ids. Shows `ReceiverHasSession`, which reads the session table and
  the receivers only; injector and capture are there because offer and close stop and start
  them in the same handlers, and the observation below came out of them. Observation: a
  close while `Inject` has released its mutex for a restart leaves the restarted xdotool
  running, and its next write may meet a closed pipe (`input.go:153`).
* `DistributedForwarder.tla` (`distributed_forwarder.go`): one ingress, two workers, every
  next-hop table and every set of routers, hop limit 3, two requests of one session.
  Looking the route up, choosing (`SelectTarget`, which may also find no rule, no candidate
  or the node itself, and then executes locally) and storing (`StoreRoute`) are three steps;
  `OtherSelects` is a request of another key that takes a turn of the round robin.
  Shows `SessionStaysOnItsNode`. Two tasks of a session that choose at once may choose two
  nodes, and a route may expire: the property excludes both in its premise (`calm`), so what
  it catches is a follow-up that looks while another task chooses, and a route kept after a
  failed forward. The requests share one key; the two keys of a conversation that is named
  by its session and then by its thread alone are outside the model.
* `StreamFrontEnd.tla` and `Routing.tla` (`http_handler.go`, `routing.go`, `router.go`):
  one request over HTTP, from its params to its last event. `Routing` holds the pure
  operators: the conflicts and the rewriting of `/gateway/openclaw`, the front end's
  guess and the resolver, for every outcome of prompt class, language model, environment
  and preferences. `StreamFrontEnd` has the three goroutines that write: handler,
  keepalive, and a gateway session that kept `notify`. Bounds: `MaxKeys` = 3 keys with a
  value (each rule reads at most three), `MaxOut` = 2 events after which no tick or
  notification starts, enough for two writers to wait behind a third. Shows
  `DoneFollowsAnswer`, `OneStrayWrite`, `NothingAfterFailure`,
  `EndpointRunsOnOpenClaw`. Observations: one write may still
  touch the `ResponseWriter` after the handler returned, because `close()` takes no mutex
  (`OneStrayWrite` bounds it); a target spelled `GATEWAY` counts as gateway for the
  front end and as a single agent for `mapExplicitTarget`.

`ServicesProofs.tla` proves the properties of the four for every value of their constants.

* Dispatcher: `DispatchTypes`, `RunsAreAnnounced` (`NothingWithoutStart`),
  `EndIsReopenedByRepeat`, and `FencesNeverGoBack`, that the fences of the entries of a row
  never decrease. `StartInv` says of every call past its running event that the event is in
  the row, which no later write takes out. The other invariant says that a call under way names a lease that was taken, that an ended run was
  ended under the current lease by a call that is over (`EndIsAnswered`), and
  `FencesInOrder`.
* Desktop: `ReceiversHaveSessions` from `PortInv`: there is at most one session, and a
  receiver is open exactly while its session is in the table, which stopping the other
  sessions before each offer maintains; `DesktopTypes`.
* Forwarder: `SessionsStay` and `ForwarderTypes`. While the session is calm every task has
  the target of the route (`RouteInv`, with `RequestInv` for requests without a target).
  Two requests for one target are then shown to go one way although one may have come
  further (`OneWay`: there is a function from hops to nodes that all of them follow), and
  two that were executed stopped at the first node of it that goes no further.
* Stream: `StrayWritesAreBounded`, `AnswerPrecedesDone`, `FailureIsLast`, `StreamTypes`
  and `OpenClawEndpointHolds`.

`StreamInv` says who holds the mutex (`MutexIsWriter`), that only streams have writers
(`OnlyStreams`), that a returned handler has closed its stream (`ReturnedIsClosed`), and
that after a stray or a failed write the mutex is free and the stream closed, so that
nobody gets it again (`StrayIsLast`, `TornIsClosed`). `AnswerInv` adds where answer and
`[DONE]` may be in flight. These proofs treat the routing operators as unknown, so they
hold whatever is resolved. `OpenClawEndpointHolds` is the one that opens them: after
`forceOpenClawGatewayRequest` the params name the gateway (`ForcedParams`), and from
such params every branch of the resolver that is left answers OpenClaw or, for role
routing, unavailable (`ForcedRoute`), whatever prompt class, language model, environment
and preferences are.

## Provider adapters

`AcpAgentAdapter.tla` (`acpagentadapter`): one agent process, turns with a connection each,
the handshake that the first turn makes for all (and that may fail at the start of the
process, by an error answer or by its exit), the model bound to a session, listeners.
Permission requests are processes of their own: the agent asks, the turn that listens relays
the request over its connection under an id, the bridge replies, and a reply may come when
its request has timed out, when another one waits, or when the prompt is over. The agent
may end a prompt while a request is out. `session.cancel` is no action: it forwards
`session/cancel` and changes no state of the adapter.

Run `acp_agent` (2 turns, 2 agent sessions, 2 models, 2 permission requests; `MCAcpAgent`
explores turns and permission requests in separate behaviours): `ApprovalIsDecided`,
`LonePromptIsHeard`, `TurnsAnswered`. Fairness: goroutines run, a living agent answers, a
relayed permission has a timeout. Prompts that overlap in one agent session share a
listener, and may lose or swap their text; `LonePromptIsHeard` bounds the damage to them.
Observation: after a model change whose answer was lost, or with overlapping turns that want
different models, a prompt can run on another model than the one it asked for, although the
package comment of `server.go` excludes it.

`AcpAgentAdapterProofs.tla` proves `AdapterTypes`, `ApprovalsAreDecided` and
`LonePromptsAreHeard` for any number of turns, sessions, models and requests. `TurnsInv`
says what a lone turn is: it has prompted, listens, and is all there is in its agent
session. `AsksInv`: requests over one connection have ids of their own, and a reply that
selects, under way or received, is to a request that the bridge decided.

`ProviderAdapters.tla` (`hermesadapter`, `geminiadapter`, `opencodeadapter`): one module,
since all keep a session table around one child; `adapter` says which one it is. Run
`adapters` (each of the three, 1 session, 2 turns): `AloneHearsItself`,
`ClosedIsForgotten`, `TurnsEnd`. Fairness: strong for the steps that wait for the one
mutex (Go's mutex does not starve a waiter), weak for the child's answers: that a living child responds is assumed, and gemini waits for
a silent one without a deadline and with the mutex held (`geminiadapter/client.go:169`). The
drain after a hermes prompt takes what the child has said within two seconds; text it writes
later (`late`) stays in the pipe or arrives there after the unlock, and goes to the handler of
the next turn. `AloneHearsItself` allows that text and nothing else. A hermes call
whose read timed out reads the child's stderr to its end, which a living child does not
reach, and holds the mutex of all turns meanwhile (`stuck`); `TurnsEnd` names this as an
exception. A turn that is in flight when its session is closed writes its record again
(`hermesadapter/server.go:431`); `ClosedIsForgotten` is about sessions closed with none.

`ProviderAdaptersProofs.tla` proves `AdaptersTypes`, `LoneTurnHearsItself` and
`ClosedSessionsStayForgotten` for any number of sessions and turns. `PipeInv`: but for late
text, lines in the pipe belong to the call that holds the mutex, and a call that ends leaves
none behind unless the child has exited. `AloneInv`: a turn that is alone is the only one in flight, so
the handler and the pipe are its own. `ForgetInv` follows everything a turn could get an
upstream session or a history from (the entry in the table, the copy a turn has read, the
record a turn points at) and says that it was made by turns of the session that were not
dropped since.

## Provider compatibility layer

`ProviderCompat.tla` is the agent path of `Process` with the compats behind it: Codex over
WebSocket or HTTP, ACP agents over WebSocket or HTTP, dsh, dsbot (`kind`). A turn opens
its connection, starts or resumes a thread, sends the prompt, and reads what comes:
answers, permission requests, completions of any turn of the thread. Cancels, closes,
dropped sockets and silent providers happen at any step.

Requests may name a session, a thread, both or neither. A completion may come without an id,
and so may the answer to `turn/start`: `isCodexTurnCompleted` then accepts the completion of
any turn of the thread, and so does the model.

Run `compat` (every kind, 2 turns, 2 sessions, 1 thread): `ResultIsOwn`, `RunningHasTurn`,
`ThreadIsOwn`, `CallsReturn`. `MCProviderCompat` has three kinds of behaviours: two turns
of one session with everything that may happen in their calls; messages without ids between
two turns of a Codex thread; and requests of any names to Codex. `ResultIsOwn` allows a
foreign end only where an id is missing. Fairness: the turn's goroutine and the one
that closes a cancelled socket run, and a provider that has not fallen silent answers; a
provider may fall silent. `CallsReturn` leaves out the silent ACP socket, for which the code
has no deadline. A provider that the server does not have (`orchestrator.go:107-110`) is left
out: the built-in router and the fixed provider ids never name one. A cancel before the
compat is published is lost (`rpc_handler.go:945`); the model has it, no property speaks of it.

Observation: `docs/api-reference.md:531` says that `session.close` calls close of the current
compat. `closeSession` only removes the record (`rpc_handler.go:956-964`), and nothing in the
repository calls a compat's `CloseSession`: the Codex thread map and the tables of dsh and
dsbot keep the session, and a later message with its id continues the conversation.

`ProviderCompatProofs.tla` proves `CompatTypes`, `ResultsAreOwn`, `RunningHasItsTurn` and
`ThreadsAreOwn` for any number of turns, sessions and threads and every kind. `TurnOK` is about the
inbox of a turn's socket: a message that ends the turn with a result and names it is there
only when the provider has finished this turn, and a turn that still asks for its thread has at most
the answer to that, so the answer cannot be taken for the prompt's. `ThreadInv`:
no entry of the thread map is under the empty id, and each names a thread
remembered under that very id.

## Sizes

| run | distinct states | minutes (2 workers) |
|---|---|---|
| `store_takeover` | 588,209 | 1.5 |
| `store_liveness` | 145,502 | 1.1 |
| `tasks_records` | 2,969,200 | 1.8 |
| `tasks_outage` | 421,682 | 1.7 |
| `gateway_sessions` | 2,770,392 | 0.7 |
| `jobs` | 283,755 | 1.0 |
| `services` | 2,274,392 | 2.6 |
| `acp_agent` | 564,928 | 2.8 |
| `adapters` | 472,912 | 1.3 |
| `compat` | 558,513 | 3.4 |

## What is proved and what is not

| module | theorems |
|---|---|
| `AdmissionGateProofs` | `SlotsAreExact`, `QueueIsExact` |
| `LocalSessionStoreProofs` | `TypeCorrect`, `ExecutionsNeverOverlap`, `HazardsAreDurable`, `DispatchedAtMostOnce`, `ReceiptsAlwaysAgree`, `SessionFollowsJournal`, `JournalTellsTheRuns`, `StoreImplementsContract` |
| `OpenClawTasksProofs` | `TurnsImplementGate`, `TurnsKeepSlots`, `TasksTypeCorrect`, `RecordsNeverMix`, `AnswersAreTrue` |
| `GatewayRuntimeProofs` | `GatewayTypes`, `WaitersAreKept`, `DisconnectIsFinal`, `SessionsReconnect` |
| `ServicesProofs`, jobs | `JobsImplementGate`, `JobsKeepSlots`, `JobsKeepQueue`, `CompletedStays`, `OutcomesAreReported`, `JobsTypes` |
| `ServicesProofs`, dispatcher | `DispatchTypes`, `RunsAreAnnounced`, `FencesNeverGoBack`, `EndIsReopenedByRepeat` |
| `ServicesProofs`, desktop | `ReceiversHaveSessions`, `DesktopTypes` |
| `ServicesProofs`, forwarder | `ForwarderTypes`, `SessionsStay` |
| `ServicesProofs`, stream | `StrayWritesAreBounded`, `AnswerPrecedesDone`, `FailureIsLast`, `OpenClawEndpointHolds`, `StreamTypes` |
| `AcpAgentAdapterProofs` | `AdapterTypes`, `ApprovalsAreDecided`, `LonePromptsAreHeard` |
| `ProviderCompatProofs` | `CompatTypes`, `ResultsAreOwn`, `RunningHasItsTurn`, `ThreadsAreOwn` |
| `ProviderAdaptersProofs` | `AdaptersTypes`, `LoneTurnHearsItself`, `ClosedSessionsStayForgotten` |

`ServicesProofs` extends its five components, which share no state; each theorem speaks of
the specification of one of them. The assumptions are those each module states of its constants: limits
are naturals, special values (`None`, `NoStatus`, `NoNode`) are not values they stand
beside, and sets are finite where the code counts or the model ranks. None of them bounds
the number of processes, runs, requests or faults.

Every invariant and action property of the passing runs, the refinement
`ImplementsContract` and the type invariant of every module are proved. Model-checked
only are the liveness properties: `AcceptedRunSettles`, `StartedRunSettles`, `CloseReturns`,
`OutageEndsWaiting`, `JobsEnd`, `TurnsAnswered`, `TurnsEnd` and `CallsReturn`. They need
fairness, which is stated with ENABLED, and the prover does not reason about that.

## Not modelled

* configuration, catalog, metrics, capability lists: read at start or counters without
  effect on control;
* artifact download, vault, credential and token checks: cryptography and file I/O;
* skills and memory files: text look-ups; what they decide enters `Routing` as
  preferences;
* WebSocket and stdio loops: one request after the other around the same handlers, with
  no state shared but a mutex around each write;
* creation of sessions, paging and body files of the local store; the agent and session
  HTTP APIs: decoding around the modelled operations;
* media encoding, ICE, SDP, process spawning and HTTP transport of the adapters: external
  processes and libraries, modelled by what the code does with their outcomes;
* prompt, artifact and progress texts.
