--------------------------- MODULE TaskRunDispatch ---------------------------
(***************************************************************************)
(* TaskRunDispatcher (task_run_dispatch.go, task_run_envelope.go) and its  *)
(* HTTP boundary (task_run_http.go): the scheduler leases one task run     *)
(* under a growing fence, sends the envelope, possibly late or twice, and  *)
(* the bridge verifies the lease, reports running, executes, and reports   *)
(* the result.  The lease row and its conditional writer are external and  *)
(* follow the contract of TaskRunLeaseCondition.  A lease token stands for *)
(* its fence.                                                              *)
(***************************************************************************)
EXTENDS Naturals, Sequences, FiniteSets

CONSTANTS
    Call,      \* requests to the dispatch endpoint and to ReportTaskSnapshot
    MaxFence,  \* leases the scheduler takes
    Lease,     \* length of a lease
    MaxTime    \* bound of the clock

ASSUME DispatchAssumption ==
    /\ IsFiniteSet(Call)
    /\ MaxFence \in Nat \ {0} /\ Lease \in Nat \ {0} /\ MaxTime \in Nat

VARIABLES
    clock,
    expires,   \* leaseExpiresAt of the leases taken so far, indexed by fence
    log,       \* the events written to the row, in order
    call       \* the handler of a request

dispatchVars == <<clock, expires, log, call>>

Terminal == {"completed", "failed", "cancelled"}
Snapshots == Terminal \cup {"queued", "running", "other"}

Steps == {"idle", "enrich", "verify", "validate", "write", "execute", "answered"}
Phases == {"start", "report", "reportFailure"}

NoCall == [at |-> "idle", phase |-> "start", fence |-> 0, now |-> 0,
           state |-> "running", answer |-> 0, executed |-> FALSE]

fence == Len(expires)                     \* the row's current fence
State == IF log = << >> THEN "queued" ELSE log[Len(log)].state

DispatchInit ==
    /\ clock = 0
    /\ expires = << >>
    /\ log = << >>
    /\ call = [c \in Call |-> NoCall]

Set(c, record) == call' = [call EXCEPT ![c] = record]
Step(c, step) == Set(c, [call[c] EXCEPT !.at = step])

-----------------------------------------------------------------------------
(* The scheduler and its repository *)

Tick == clock < MaxTime /\ clock' = clock + 1 /\ UNCHANGED <<expires, log, call>>

\* A lease is taken again when it has run out and the run has not ended.
ClaimLease ==
    /\ fence < MaxFence
    /\ State \notin Terminal
    /\ fence > 0 => clock >= expires[fence]
    /\ expires' = Append(expires, clock + Lease)
    /\ UNCHANGED <<clock, log, call>>

\* Any envelope issued so far arrives, whatever happened to its lease since.
Receive(c) ==
    /\ call[c].at = "idle"
    /\ \E f \in 1..fence : Set(c, [NoCall EXCEPT !.at = "enrich", !.fence = f])
    /\ UNCHANGED <<clock, expires, log>>

\* A poller feeds a snapshot of a run that was started before.
ReportTaskSnapshot(c) ==
    /\ call[c].at = "idle"
    /\ \E other \in Call, s \in Snapshots :
          /\ call[other].executed
          /\ Set(c, [NoCall EXCEPT !.at = "verify", !.phase = "report", !.state = s,
                                   !.fence = call[other].fence, !.now = clock])
    /\ UNCHANGED <<clock, expires, log>>

-----------------------------------------------------------------------------
(* Answers *)

\* taskRunDispatchHTTPError, in its order: the first kind found in a joined error
\* decides.
HTTPStatus(errors) ==
    CASE errors \cap {"dispatchInvalid", "envelopeInvalid"} # {} -> 400
      [] errors \cap {"leaseExpired", "leaseRejected"} # {} -> 409
      [] "unavailable" \in errors -> 503
      [] errors \cap {"callbackInvalid", "callbackWrite", "execution"} # {} -> 502
      [] OTHER -> 500

\* An execution failure is joined with the error of its own report.
Joined(c, errors) ==
    IF call[c].phase = "reportFailure" THEN errors \cup {"execution"} ELSE errors

\* The handler returns; what it kept beside its lease is gone.
Answer(c, code) ==
    Set(c, [NoCall EXCEPT !.at = "answered", !.answer = code, !.fence = call[c].fence,
                          !.phase = call[c].phase, !.executed = call[c].executed,
                          !.state = IF code = 200 THEN call[c].state ELSE "running"])

Fail(c, errors) == Answer(c, HTTPStatus(Joined(c, errors)))

\* The conditions of HandleTaskRunDispatch and those of Dispatch on the request.
Refuse(c) ==
    /\ call[c].at = "enrich"
    /\ \E code \in {400, 401, 403, 405, 503} :
          Answer(c, code)
    /\ UNCHANGED <<clock, expires, log>>

-----------------------------------------------------------------------------
(* Dispatch *)

\* TaskRunEnvelope.Validate: an expired lease.
Expired(f) == clock >= expires[f]

\* now is read once; Dispatch puts ErrTaskRunDispatchInvalid around whatever
\* EnrichParams returns, an expired lease included.
EnrichParams(c) ==
    /\ call[c].at = "enrich"
    /\ IF Expired(call[c].fence)
       THEN Fail(c, {"dispatchInvalid", "leaseExpired"})
       ELSE Set(c, [call[c] EXCEPT !.at = "verify", !.now = clock])
    /\ UNCHANGED <<clock, expires, log>>

\* What the row says of a lease at a given time.
Holds(f, now) == f = fence /\ now < expires[f]

\* taskRunCallbackFromSnapshot: queued and running progress, the ends are named,
\* anything else is an error.
CallbackState(snapshot) == IF snapshot = "queued" THEN "running" ELSE snapshot

\* verifyLease, and the callback that is to be written next.
VerifyLease(c) ==
    LET k == call[c] IN
    /\ k.at = "verify"
    /\ \/ k.now >= expires[k.fence] /\ Fail(c, {"leaseExpired"})
       \/ k.now < expires[k.fence] /\ ~Holds(k.fence, k.now) /\ Fail(c, {"leaseRejected"})
       \/ Fail(c, {"repository"})
       \/ Holds(k.fence, k.now) /\ k.state = "other" /\ Fail(c, {"callbackInvalid"})
       \/ Holds(k.fence, k.now) /\ k.state # "other" /\
          Set(c, [k EXCEPT !.at = "validate", !.state = CallbackState(k.state)])
    /\ UNCHANGED <<clock, expires, log>>

\* TaskRunStatusCallback.Validate, at a time of its own; a payload above 16 KiB
\* is refused too.
ValidateCallback(c) ==
    /\ call[c].at = "validate"
    /\ \/ Expired(call[c].fence) /\ Fail(c, {"leaseExpired"})
       \/ ~Expired(call[c].fence) /\ Step(c, "write")
       \/ ~Expired(call[c].fence) /\ call[c].phase # "start" /\ Fail(c, {"callbackInvalid"})
    /\ UNCHANGED <<clock, expires, log>>

\* Mutant: the condition names the run and the time but not the fence.
LeaseConditionUnfenced(c) == call[c].now < expires[fence]

\* The TaskRunLeaseCondition that writeCallback fills in, as the row answers it:
\* LeaseValidAt is the time the callback was made, not the time of the write.
LeaseCondition(c) == Holds(call[c].fence, call[c].now)

\* The event is in the row: the executor is called, or the answer is sent.
Written(c) ==
    CASE call[c].phase = "start" -> Step(c, "execute")
      [] call[c].phase = "report" -> Answer(c, 200)
      [] OTHER -> Fail(c, {})

\* Mutant: the error of a write is logged and the dispatch goes on.
WriteFailedIgnored(c, errors) == Written(c)

\* The error ends the request, before the executor was called or after it.
WriteFailed(c, errors) == Fail(c, errors)

\* writeCallback's WriteTaskRunCallback.
WriteCallback(c) ==
    /\ call[c].at = "write"
    /\ \/ /\ LeaseCondition(c)
          /\ log' = Append(log, [fence |-> call[c].fence, state |-> call[c].state])
          /\ Written(c)
       \/ ~LeaseCondition(c) /\ WriteFailed(c, {"leaseRejected"}) /\ UNCHANGED log
       \/ WriteFailed(c, {"callbackWrite"}) /\ UNCHANGED log
    /\ UNCHANGED <<clock, expires>>

\* reportExecutionFailure: ReportTaskSnapshot with status failed.
AfterError(c) == [call[c] EXCEPT !.at = "verify", !.phase = "reportFailure",
                                 !.state = "failed", !.now = clock]

\* ExecuteTaskRun ends with a snapshot or an error; the lease is not looked at
\* until ReportTaskSnapshot.
ExecuteTaskRun(c) ==
    /\ call[c].at = "execute"
    /\ \/ \E s \in Snapshots :
             Set(c, [call[c] EXCEPT !.at = "verify", !.phase = "report", !.state = s,
                                    !.now = clock, !.executed = TRUE])
       \/ Set(c, [AfterError(c) EXCEPT !.executed = TRUE])
    /\ UNCHANGED <<clock, expires, log>>

-----------------------------------------------------------------------------
Dispatch(c) ==
    \/ Refuse(c) \/ EnrichParams(c) \/ VerifyLease(c) \/ ValidateCallback(c)
    \/ WriteCallback(c) \/ ExecuteTaskRun(c)

DispatchNext ==
    \/ Tick \/ ClaimLease
    \/ \E c \in Call : Receive(c) \/ ReportTaskSnapshot(c) \/ Dispatch(c)

DispatchSpec == DispatchInit /\ [][DispatchNext]_dispatchVars

DispatchTypeOK ==
    /\ clock \in 0..MaxTime
    /\ expires \in Seq(1..(MaxTime + Lease)) /\ fence <= MaxFence
    /\ log \in Seq([fence : 1..MaxFence, state : Terminal \cup {"running"}])
    /\ call \in [Call -> [at : Steps, phase : Phases, fence : 0..MaxFence, now : 0..MaxTime,
                          state : Snapshots, executed : BOOLEAN,
                          answer : {0, 200, 400, 401, 403, 405, 409, 500, 502, 503}]]

\* A run is started under a lease: its running event is in the row.
Started(f) == \E i \in DOMAIN log : log[i] = [fence |-> f, state |-> "running"]

\* Whatever writes fail and whenever the lease is lost, between the checks and the
\* write, while the executor runs or before its result is reported: nothing is
\* executed under a lease whose start the row does not show, an end in the row follows
\* a start under the same lease, and the state a caller is told is in the row.
NothingWithoutStart ==
    /\ \A i \in DOMAIN log :
          log[i].state \in Terminal =>
             \E j \in 1..(i - 1) : log[j] = [fence |-> log[i].fence, state |-> "running"]
    /\ \A c \in Call :
          /\ call[c].executed \/ call[c].at = "execute" => Started(call[c].fence)
          /\ call[c].answer = 200 =>
                \E i \in DOMAIN log :
                   log[i] = [fence |-> call[c].fence, state |-> call[c].state]

\* The dispatcher keeps no memory of what it wrote, so a second request for the
\* same lease can write running over an end.  Nothing else can: an ended run changes
\* only when two requests used its last lease.
EndIsReopenedOnlyByRepeat ==
    [][log' # log /\ State \in Terminal =>
          1 < Cardinality({c \in Call : call[c].fence = log[Len(log)].fence})]_dispatchVars
=============================================================================
