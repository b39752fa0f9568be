---------------------------- MODULE ServicesProofs ----------------------------
(***************************************************************************)
(* Proofs about TaskRunDispatch, DesktopService, DistributedForwarder,     *)
(* StreamFrontEnd and JobManager, for any number of requests, leases,      *)
(* sessions, nodes, events and jobs.                                       *)
(***************************************************************************)
EXTENDS TaskRunDispatch, DesktopService, DistributedForwarder, StreamFrontEnd, JobManager,
        AdmissionGateProofs

-----------------------------------------------------------------------------
(* TaskRunDispatch *)

Codes == {0, 200, 400, 401, 403, 405, 409, 500, 502, 503}
CallType == [at : Steps, phase : Phases, fence : 0..MaxFence, now : 0..MaxTime,
             state : Snapshots, executed : BOOLEAN, answer : Codes]
EntryType == [fence : 1..MaxFence, state : Terminal \cup {"running"}]

\* A call that has begun names a lease that was taken; before its executor ran it
\* reports running, and what it is about to write is a state of the row.
Begun(v) ==
    /\ v \in CallType
    /\ v.at # "idle" /\ v.fence \in 1..fence
    /\ v.phase = "start" => v.state = "running"
    /\ v.at \in {"validate", "write"} => v.state \in Terminal \cup {"running"}

RowTypes ==
    /\ clock \in 0..MaxTime
    /\ expires \in Seq(1..(MaxTime + Lease)) /\ fence <= MaxFence
    /\ log \in Seq(EntryType)
    /\ call \in [Call -> CallType]

\* An ended run was ended under the current lease, by a call that is over.
EndIsAnswered ==
    State \in Terminal =>
        /\ log[Len(log)].fence = fence
        /\ \E c \in Call : call[c].at = "answered" /\ call[c].fence = fence

\* No entry of the log is of a later lease than the one after it.
FencesInOrder ==
    \A i \in DOMAIN log : /\ log[i].fence <= fence
                          /\ \A j \in 1..i : log[j].fence <= log[i].fence

DispatchInv ==
    /\ RowTypes
    /\ \A c \in Call : call[c] = NoCall \/ Begun(call[c])
    /\ EndIsAnswered
    /\ FencesInOrder

\* Only a call begins, and only one that is not over moves.
LEMMA CallMoves ==
    ASSUME DispatchInv, NEW c \in Call, NEW v, Begun(v), call[c].at # "answered",
           call' = [call EXCEPT ![c] = v], UNCHANGED <<clock, expires, log>>
    PROVE  DispatchInv'
<1>1. v \in CallType /\ fence' = fence /\ State' = State
  BY DEF Begun, fence, State
<1>2. RowTypes'
  BY <1>1 DEF DispatchInv, RowTypes
<1>3. \A d \in Call : call'[d] = NoCall \/ Begun(call[d])'
  BY <1>1 DEF DispatchInv, RowTypes, Begun
<1>4. EndIsAnswered'
  BY <1>1 DEF DispatchInv, RowTypes, EndIsAnswered
<1>5. FencesInOrder'
  BY <1>1 DEF DispatchInv, FencesInOrder
<1> QED
  BY <1>2, <1>3, <1>4, <1>5 DEF DispatchInv

\* What a handler leaves behind when it answers.
AnswerRecord(c, code) ==
    [NoCall EXCEPT !.at = "answered", !.answer = code, !.fence = call[c].fence,
                   !.phase = call[c].phase, !.executed = call[c].executed,
                   !.state = IF code = 200 THEN call[c].state ELSE "running"]

\* A call that has not begun is typed.
LEMMA NoCallType == NoCall \in CallType
BY DispatchAssumption DEF NoCall, CallType, Steps, Phases, Snapshots, Codes

\* An answer is that of a call that has begun, with the fence of its request.
LEMMA AnsweredBegun ==
    ASSUME NEW c \in Call, Begun(call[c]), NEW code \in Codes
    PROVE  /\ Begun(AnswerRecord(c, code))
           /\ AnswerRecord(c, code).at = "answered"
           /\ AnswerRecord(c, code).fence = call[c].fence
           /\ Answer(c, code) => call' = [call EXCEPT ![c] = AnswerRecord(c, code)]
<1>1. PICK v, w, state : /\ v = NoCall /\ w = call[c]
                         /\ state = IF code = 200 THEN call[c].state ELSE "running"
  OBVIOUS
<1>2. v \in CallType /\ w \in CallType /\ state \in Snapshots
  BY <1>1, NoCallType DEF Begun, CallType, Snapshots
<1> DEFINE r == [v EXCEPT !.at = "answered", !.answer = code, !.fence = w.fence,
                          !.phase = w.phase, !.executed = w.executed, !.state = state]
<1>3. /\ r \in CallType /\ r.at = "answered" /\ r.fence = w.fence
      /\ r.phase = w.phase /\ r.state = state
  BY <1>2 DEF CallType, Steps
<1>4. AnswerRecord(c, code) = r
  BY <1>1, Zenon DEF AnswerRecord
<1> HIDE DEF r
<1>5. Begun(AnswerRecord(c, code))
  BY <1>1, <1>3, <1>4 DEF Begun
<1> QED
  BY <1>1, <1>3, <1>4, <1>5 DEF Answer, Set, AnswerRecord

\* So is the answer to a request that failed.
LEMMA FailedBegun ==
    ASSUME NEW c \in Call, Begun(call[c]), NEW errors, Fail(c, errors)
    PROVE  \E code \in Codes : call' = [call EXCEPT ![c] = AnswerRecord(c, code)]
<1>1. HTTPStatus(Joined(c, errors)) \in Codes
  BY DEF HTTPStatus, Codes
<1> QED
  BY <1>1, AnsweredBegun DEF Fail

\* The steps that leave clock, leases and log alone.
LEMMA CallStepKeeps ==
    ASSUME DispatchInv, NEW c \in Call,
           \/ Receive(c) \/ ReportTaskSnapshot(c) \/ Refuse(c) \/ EnrichParams(c)
           \/ VerifyLease(c) \/ ValidateCallback(c) \/ ExecuteTaskRun(c)
           \/ \E errors : call[c].at = "write" /\ Fail(c, errors)
                          /\ UNCHANGED <<clock, expires, log>>
    PROVE  DispatchInv'
<1>a. /\ call[c] \in CallType /\ fence \in Nat /\ fence <= MaxFence
      /\ clock \in 0..MaxTime
      /\ \A d \in Call : call[d].at # "idle" => Begun(call[d])
  BY DEF DispatchInv, RowTypes, fence, NoCall
<1>b. /\ {"enrich", "verify", "validate", "write", "execute"} \subseteq Steps
      /\ {"report", "reportFailure"} \subseteq Phases
      /\ Terminal \cup {"running"} \subseteq Snapshots
      /\ NoCall.state = "running" /\ ~NoCall.executed /\ MaxFence \in Nat
  BY DispatchAssumption DEF Steps, Phases, Snapshots, Terminal, NoCall
<1>c. ASSUME NEW errors, Fail(c, errors), call[c].at \notin {"idle", "answered"},
             UNCHANGED <<clock, expires, log>>
      PROVE  DispatchInv'
  BY <1>a, <1>c, FailedBegun, AnsweredBegun, CallMoves
<1>1. CASE Receive(c)
  <2>1. PICK f \in 1..fence : call' = [call EXCEPT ![c] =
            [NoCall EXCEPT !.at = "enrich", !.fence = f]]
    BY <1>1 DEF Receive, Set
  <2>a. f \in 0..MaxFence /\ "enrich" \in Steps
    BY <1>a, <1>b
  <2>2. ASSUME NEW v \in CallType
        PROVE  LET w == [v EXCEPT !.at = "enrich", !.fence = f]
               IN /\ w \in CallType
                  /\ w.at = "enrich" /\ w.fence = f /\ w.state = v.state
    BY <2>a DEF CallType
  <2>3. Begun([NoCall EXCEPT !.at = "enrich", !.fence = f])
    BY <1>b, <2>2, NoCallType DEF Begun
  <2> QED
    BY <1>1, <2>1, <2>3, CallMoves DEF Receive
<1>2. CASE ReportTaskSnapshot(c)
  <2>1. PICK other \in Call, s \in Snapshots :
           /\ call[other].executed
           /\ call' = [call EXCEPT ![c] =
                 [NoCall EXCEPT !.at = "verify", !.phase = "report", !.state = s,
                                !.fence = call[other].fence, !.now = clock]]
    BY <1>2 DEF ReportTaskSnapshot, Set
  <2>2. Begun(call[other])
    BY <1>b, <2>1 DEF DispatchInv
  <2>3. ASSUME NEW v \in CallType, NEW w \in CallType
        PROVE  LET r == [v EXCEPT !.at = "verify", !.phase = "report", !.state = s,
                                  !.fence = w.fence, !.now = clock]
               IN /\ r \in CallType /\ r.at = "verify" /\ r.fence = w.fence
                  /\ r.phase = "report"
    BY <1>a, <1>b DEF CallType
  <2>4. Begun([NoCall EXCEPT !.at = "verify", !.phase = "report", !.state = s,
                             !.fence = call[other].fence, !.now = clock])
    BY <2>2, <2>3, NoCallType DEF Begun
  <2> QED
    BY <1>2, <2>1, <2>4, CallMoves DEF ReportTaskSnapshot
<1>3. CASE Refuse(c)
  <2>1. PICK code \in Codes : Answer(c, code)
    BY <1>3 DEF Refuse, Codes
  <2>2. Begun(call[c]) /\ call[c].at = "enrich"
    BY <1>3, <1>a DEF Refuse
  <2>3. /\ Begun(AnswerRecord(c, code))
        /\ call' = [call EXCEPT ![c] = AnswerRecord(c, code)]
    BY <2>1, <2>2, AnsweredBegun
  <2>4. UNCHANGED <<clock, expires, log>>
    BY <1>3 DEF Refuse
  <2> QED
    BY <2>2, <2>3, <2>4, CallMoves
<1>4. CASE EnrichParams(c)
  <2>1. CASE Fail(c, {"dispatchInvalid", "leaseExpired"})
    BY <1>4, <1>c, <2>1 DEF EnrichParams
  <2>2. CASE Set(c, [call[c] EXCEPT !.at = "verify", !.now = clock])
    <3>1. Begun([call[c] EXCEPT !.at = "verify", !.now = clock])
      BY <1>4, <1>a, <1>b DEF EnrichParams, Begun, CallType
    <3> QED
      BY <1>4, <2>2, <3>1, CallMoves DEF EnrichParams, Set
  <2> QED
    BY <1>4, <2>1, <2>2 DEF EnrichParams
<1>5. CASE VerifyLease(c)
  <2>1. CASE \E errors : Fail(c, errors)
    BY <1>5, <1>c, <2>1 DEF VerifyLease
  <2>2. CASE /\ call[c].state # "other"
             /\ Set(c, [call[c] EXCEPT !.at = "validate", !.state = CallbackState(@)])
    <3>1. CallbackState(call[c].state) \in Terminal \cup {"running"}
      BY <1>a, <2>2 DEF CallbackState, CallType, Snapshots
    <3>2. Begun([call[c] EXCEPT !.at = "validate", !.state = CallbackState(@)])
      BY <1>5, <1>a, <1>b, <3>1 DEF VerifyLease, Begun, CallType, CallbackState
    <3> QED
      BY <1>5, <2>2, <3>2, CallMoves DEF VerifyLease, Set
  <2> QED
    BY <1>5, <2>1, <2>2 DEF VerifyLease
<1>6. CASE ValidateCallback(c)
  <2>1. CASE \E errors : Fail(c, errors)
    BY <1>6, <1>c, <2>1 DEF ValidateCallback
  <2>2. CASE Step(c, "write")
    <3>1. Begun([call[c] EXCEPT !.at = "write"])
      BY <1>6, <1>a, <1>b DEF ValidateCallback, Begun, CallType
    <3> QED
      BY <1>6, <2>2, <3>1, CallMoves DEF ValidateCallback, Step, Set
  <2> QED
    BY <1>6, <2>1, <2>2 DEF ValidateCallback
<1>7. CASE ExecuteTaskRun(c)
  <2>1. Begun(call[c])
    BY <1>7, <1>a DEF ExecuteTaskRun
  <2>2. ASSUME NEW s \in Snapshots, NEW phase \in {"report", "reportFailure"},
               call' = [call EXCEPT ![c] =
                          [call[c] EXCEPT !.at = "verify", !.phase = phase, !.state = s,
                                          !.now = clock, !.executed = TRUE]]
        PROVE  DispatchInv'
    <3>1. Begun([call[c] EXCEPT !.at = "verify", !.phase = phase, !.state = s,
                                !.now = clock, !.executed = TRUE])
      BY <1>a, <1>b, <2>1 DEF Begun, CallType
    <3> QED
      BY <1>7, <2>2, <3>1, CallMoves DEF ExecuteTaskRun
  <2> QED
    BY <1>7, <1>b, <2>2 DEF ExecuteTaskRun, Set, AfterError, Terminal
<1>8. CASE \E errors : /\ call[c].at = "write" /\ Fail(c, errors)
                       /\ UNCHANGED <<clock, expires, log>>
  BY <1>8, <1>c
<1> QED
  BY <1>1, <1>2, <1>3, <1>4, <1>5, <1>6, <1>7, <1>8

\* A write that the row accepts.
LEMMA WriteKeeps ==
    ASSUME DispatchInv, NEW c \in Call, call[c].at = "write", LeaseCondition(c),
           log' = Append(log, [fence |-> call[c].fence, state |-> call[c].state]),
           Written(c), UNCHANGED <<clock, expires>>
    PROVE  DispatchInv'
<1>a. /\ Begun(call[c]) /\ call[c].fence = fence /\ fence \in 1..MaxFence /\ fence' = fence
      /\ log \in Seq(EntryType) /\ call[c].state \in Terminal \cup {"running"}
      /\ MaxFence \in Nat
  BY DispatchAssumption DEF DispatchInv, NoCall, Begun, LeaseCondition, Holds, RowTypes,
     CallType, fence
<1>1. PICK e : e = [fence |-> call[c].fence, state |-> call[c].state]
  OBVIOUS
<1>2. e \in EntryType /\ e.fence = fence /\ e.state = call[c].state
  BY <1>a, <1>1 DEF EntryType
<1>3. /\ log' \in Seq(EntryType) /\ Len(log) \in Nat /\ Len(log') = Len(log) + 1
      /\ log'[Len(log')] = e /\ log' # << >>
      /\ DOMAIN log = 1..Len(log) /\ DOMAIN log' = 1..(Len(log) + 1)
      /\ \A i \in DOMAIN log : log'[i] = log[i]
  BY <1>a, <1>1, <1>2
<1>4. State' = call[c].state
  BY <1>2, <1>3 DEF State
<1>5. PICK v : /\ Begun(v) /\ call' = [call EXCEPT ![c] = v]
               /\ call[c].state = "running" \/ (v.at = "answered" /\ v.fence = fence)
  <2>1. CASE call[c].phase = "start"
    <3>1. call[c].state = "running" /\ call' = [call EXCEPT ![c] = [call[c] EXCEPT !.at = "execute"]]
      BY <1>a, <2>1 DEF Written, Step, Set, Begun
    <3>2. Begun([call[c] EXCEPT !.at = "execute"])
      BY <1>a DEF Begun, CallType, Steps
    <3> QED
      BY <3>1, <3>2
  <2>2. CASE call[c].phase # "start"
    <3>1. \E code \in Codes : call' = [call EXCEPT ![c] = AnswerRecord(c, code)]
      <4>1. 200 \in Codes
        BY DEF Codes
      <4> QED
        BY <1>a, <2>2, <4>1, FailedBegun, AnsweredBegun DEF Written
    <3> QED
      BY <1>a, <3>1, AnsweredBegun
  <2> QED
    BY <2>1, <2>2
<1>6. RowTypes' /\ call'[c] = v /\ \A d \in Call : d # c => call'[d] = call[d]
  BY <1>3, <1>5 DEF DispatchInv, RowTypes, Begun, fence
<1>7. \A d \in Call : call'[d] = NoCall \/ Begun(call[d])'
  BY <1>a, <1>5, <1>6 DEF DispatchInv, Begun
<1>8. EndIsAnswered'
  <2> SUFFICES ASSUME State' \in Terminal
               PROVE  /\ log'[Len(log')].fence = fence'
                      /\ \E d \in Call : call'[d].at = "answered" /\ call'[d].fence = fence'
    BY DEF EndIsAnswered
  <2>1. call[c].state # "running"
    BY <1>4 DEF Terminal
  <2> QED
    BY <1>a, <1>2, <1>3, <1>5, <1>6, <2>1
<1>9. FencesInOrder'
  <2> SUFFICES ASSUME NEW i \in DOMAIN log'
               PROVE  log'[i].fence <= fence /\ \A j \in 1..i : log'[j].fence <= log'[i].fence
    BY <1>a DEF FencesInOrder
  <2>1. \A k \in DOMAIN log : log[k].fence <= fence
    BY DEF DispatchInv, FencesInOrder
  <2>2. CASE i \in DOMAIN log
    BY <1>3, <2>2 DEF DispatchInv, FencesInOrder
  <2>3. CASE i = Len(log) + 1
    <3>1. \A j \in 1..i : j \in DOMAIN log \/ j = i
      BY <1>3, <2>3
    <3> QED
      BY <1>a, <1>2, <1>3, <2>1, <2>3, <3>1
  <2> QED
    BY <1>3, <2>2, <2>3
<1> QED
  BY <1>6, <1>7, <1>8, <1>9 DEF DispatchInv

\* The clock and the scheduler: a run that has ended is not leased again.
LEMMA LeaseKeeps ==
    ASSUME DispatchInv, Tick \/ ClaimLease
    PROVE  DispatchInv'
<1> USE DispatchAssumption DEF DispatchInv, RowTypes
<1>1. CASE Tick
  <2>1. /\ UNCHANGED <<expires, log, call>> /\ clock' \in 0..MaxTime
        /\ fence' = fence /\ State' = State
    BY <1>1 DEF Tick, fence, State
  <2>2. \A c \in Call : call'[c] = NoCall \/ Begun(call[c])'
    BY <2>1 DEF Begun
  <2> QED
    BY <2>1, <2>2 DEF EndIsAnswered, FencesInOrder
<1>2. CASE ClaimLease
  <2>1. /\ UNCHANGED <<clock, log, call>> /\ State \notin Terminal /\ State' = State
        /\ expires' = Append(expires, clock + Lease) /\ fence < MaxFence
    BY <1>2 DEF ClaimLease, State
  <2>2. clock + Lease \in 1..(MaxTime + Lease)
    OBVIOUS
  <2>3. fence \in Nat /\ fence' = fence + 1 /\ expires' \in Seq(1..(MaxTime + Lease))
    BY <2>1, <2>2 DEF fence
  <2>4. \A c \in Call : call'[c] = NoCall \/ Begun(call[c])'
    BY <2>1, <2>3 DEF Begun
  <2>5. FencesInOrder'
    <3>1. \A i \in DOMAIN log : log[i].fence \in Nat
      <4>1. ASSUME NEW e \in EntryType PROVE e.fence \in Nat
        BY DEF EntryType
      <4>2. \A i \in DOMAIN log : log[i] \in EntryType
        OBVIOUS
      <4> QED
        BY <4>1, <4>2
    <3>2. \A i \in DOMAIN log : log[i].fence <= fence + 1
      BY <2>3, <3>1 DEF FencesInOrder
    <3> QED
      BY <2>1, <2>3, <3>2, Zenon DEF FencesInOrder
  <2> QED
    BY <2>1, <2>3, <2>4, <2>5 DEF EndIsAnswered
<1> QED
  BY <1>1, <1>2

LEMMA DispatchInvInit == DispatchInit => DispatchInv
BY NoCallType, DispatchAssumption
   DEF DispatchInit, DispatchInv, RowTypes, EndIsAnswered, FencesInOrder, State, fence,
       Terminal

\* Every step of the scheduler, the bridge and the row keeps the invariant.
LEMMA DispatchInvStep == DispatchInv /\ [DispatchNext]_dispatchVars => DispatchInv'
<1> SUFFICES ASSUME DispatchInv, [DispatchNext]_dispatchVars PROVE DispatchInv'
  OBVIOUS
<1>1. CASE UNCHANGED dispatchVars
  BY <1>1 DEF dispatchVars, DispatchInv, RowTypes, Begun, EndIsAnswered, FencesInOrder,
              State, fence
<1>2. ASSUME NEW c \in Call, WriteCallback(c) PROVE DispatchInv'
  BY <1>2, WriteKeeps, CallStepKeeps DEF WriteCallback, WriteFailed
<1>3. CASE DispatchNext
  BY <1>2, <1>3, CallStepKeeps, LeaseKeeps DEF DispatchNext, Dispatch
<1> QED
  BY <1>1, <1>3

\* The rows, the leases and the handlers are well typed.
THEOREM DispatchTypes == DispatchSpec => []DispatchTypeOK
<1>1. DispatchInv => DispatchTypeOK
  BY DEF DispatchInv, RowTypes, DispatchTypeOK, CallType, EntryType, Codes
<1> QED
  BY <1>1, DispatchInvInit, DispatchInvStep, PTL DEF DispatchSpec

\* What changes the log is one write under the current lease, by a call that was
\* at its write.
LEMMA LogSteps ==
    ASSUME DispatchInv, DispatchNext, log' # log
    PROVE  \E c \in Call : /\ call[c].at = "write" /\ call[c].fence = fence
                           /\ log' = Append(log, [fence |-> call[c].fence,
                                                  state |-> call[c].state])
<1>1. ASSUME NEW c \in Call, Receive(c) \/ ReportTaskSnapshot(c) \/ Refuse(c)
                             \/ EnrichParams(c) \/ VerifyLease(c) \/ ValidateCallback(c)
                             \/ ExecuteTaskRun(c)
      PROVE  FALSE
  BY <1>1 DEF Receive, ReportTaskSnapshot, Refuse, EnrichParams, VerifyLease,
              ValidateCallback, ExecuteTaskRun
<1>2. ~(Tick \/ ClaimLease)
  BY DEF Tick, ClaimLease
<1>3. PICK c \in Call : WriteCallback(c)
  BY <1>1, <1>2 DEF DispatchNext, Dispatch
<1> QED
  BY <1>3 DEF WriteCallback, LeaseCondition, Holds

\* Whoever has been executed, is about to be or reports a result names a lease
\* whose start is in the row; whoever was told a state finds it there.
Covered(v) ==
    /\ v.at = "execute" \/ v.executed \/ v.phase # "start" => Started(v.fence)
    /\ v.answer = 200 =>
          /\ v.at = "answered"
          /\ \E i \in DOMAIN log : log[i] = [fence |-> v.fence, state |-> v.state]

StartInv ==
    /\ \A i \in DOMAIN log :
          log[i].state \in Terminal =>
             \E j \in 1..(i - 1) : log[j] = [fence |-> log[i].fence, state |-> "running"]
    /\ \A c \in Call : Covered(call[c])

\* A handler that goes on and writes nothing.
LEMMA CoveredMoves ==
    ASSUME DispatchInv, StartInv, NEW c \in Call, NEW v, Covered(v),
           call' = [call EXCEPT ![c] = v], log' = log
    PROVE  StartInv'
<1>1. \A d \in Call : Covered(call'[d])
  BY DEF DispatchInv, RowTypes, StartInv
<1>2. \A d \in Call : Covered(call[d])'
  BY <1>1 DEF Covered, Started
<1> QED
  BY <1>2 DEF StartInv

\* A handler that fails tells no state.
LEMMA CoveredFails ==
    ASSUME DispatchInv, StartInv, NEW c \in Call, call[c].at \notin {"idle", "answered"},
           \/ \E errors : Fail(c, errors)
           \/ \E code \in Codes \ {200} : Answer(c, code),
           log' = log
    PROVE  StartInv'
<1>1. \A errors : HTTPStatus(Joined(c, errors)) \in Codes \ {200}
  BY DEF HTTPStatus, Codes
<1>2. PICK code \in Codes \ {200} : Answer(c, code)
  BY <1>1 DEF Fail
<1>3. PICK v, w : v = NoCall /\ w = call[c]
  OBVIOUS
<1>4. v \in CallType /\ w \in CallType /\ Covered(w) /\ v.answer = 0
  BY <1>3, NoCallType DEF DispatchInv, RowTypes, StartInv, NoCall
<1> DEFINE r == [v EXCEPT !.at = "answered", !.answer = code, !.fence = w.fence,
                          !.phase = w.phase, !.executed = w.executed, !.state = "running"]
<1>5. /\ r.at = "answered" /\ r.fence = w.fence /\ r.executed = w.executed
      /\ r.phase = w.phase /\ r.answer = code
  BY <1>4 DEF CallType
<1>6. call' = [call EXCEPT ![c] = r]
  BY <1>2, <1>3 DEF Answer, Set
<1> HIDE DEF r
<1>7. Covered(r)
  BY <1>4, <1>5 DEF Covered
<1> QED
  BY <1>6, <1>7, CoveredMoves

\* The steps that write nothing.
LEMMA StartCallStep ==
    ASSUME DispatchInv, StartInv, NEW c \in Call,
           \/ Receive(c) \/ ReportTaskSnapshot(c) \/ Refuse(c) \/ EnrichParams(c)
           \/ VerifyLease(c) \/ ValidateCallback(c) \/ ExecuteTaskRun(c)
    PROVE  StartInv'
<1>a. /\ log' = log /\ call \in [Call -> CallType] /\ call[c] \in CallType
      /\ Covered(call[c])
  <2>1. log' = log
    BY Zenon DEF Receive, ReportTaskSnapshot, Refuse, EnrichParams, VerifyLease,
                 ValidateCallback, ExecuteTaskRun
  <2> QED
    BY <2>1 DEF DispatchInv, RowTypes, StartInv
<1>b. NoCall \in CallType /\ NoCall.answer = 0 /\ ~NoCall.executed /\ NoCall.phase = "start"
  BY NoCallType DEF NoCall
<1>1. CASE Receive(c)
  <2>1. PICK f \in 1..fence : call' = [call EXCEPT ![c] =
            [NoCall EXCEPT !.at = "enrich", !.fence = f]]
    BY <1>1 DEF Receive, Set
  <2>2. ASSUME NEW v \in CallType
        PROVE  LET w == [v EXCEPT !.at = "enrich", !.fence = f]
               IN w.at = "enrich" /\ w.executed = v.executed /\ w.answer = v.answer
                  /\ w.phase = v.phase
    BY DEF CallType
  <2>3. Covered([NoCall EXCEPT !.at = "enrich", !.fence = f])
    BY <1>b, <2>2 DEF Covered
  <2> QED
    BY <1>a, <2>1, <2>3, CoveredMoves
<1>2. CASE ReportTaskSnapshot(c)
  <2>1. PICK other \in Call, s \in Snapshots :
           /\ call[other].executed
           /\ call' = [call EXCEPT ![c] =
                 [NoCall EXCEPT !.at = "verify", !.phase = "report", !.state = s,
                                !.fence = call[other].fence, !.now = clock]]
    BY <1>2 DEF ReportTaskSnapshot, Set
  <2>2. Started(call[other].fence)
    BY <2>1 DEF StartInv, Covered
  <2>3. ASSUME NEW v \in CallType, NEW w \in CallType
        PROVE  LET r == [v EXCEPT !.at = "verify", !.phase = "report", !.state = s,
                                  !.fence = w.fence, !.now = clock]
               IN r.at = "verify" /\ r.fence = w.fence /\ r.answer = v.answer
    BY DEF CallType
  <2>4. Covered([NoCall EXCEPT !.at = "verify", !.phase = "report", !.state = s,
                               !.fence = call[other].fence, !.now = clock])
    BY <1>a, <1>b, <2>2, <2>3 DEF Covered
  <2> QED
    BY <1>a, <2>1, <2>4, CoveredMoves
<1>3. CASE Refuse(c)
  BY <1>3, <1>a, CoveredFails DEF Refuse, Codes
<1>4. CASE EnrichParams(c)
  <2>1. CASE \E errors : Fail(c, errors)
    BY <1>4, <1>a, <2>1, CoveredFails DEF EnrichParams
  <2>2. CASE Set(c, [call[c] EXCEPT !.at = "verify", !.now = clock])
    <3>1. Covered([call[c] EXCEPT !.at = "verify", !.now = clock])
      BY <1>a, <1>4 DEF EnrichParams, Covered, CallType
    <3> QED
      BY <1>a, <2>2, <3>1, CoveredMoves DEF Set
  <2> QED
    BY <1>4, <2>1, <2>2 DEF EnrichParams
<1>5. CASE VerifyLease(c)
  <2>1. CASE \E errors : Fail(c, errors)
    BY <1>5, <1>a, <2>1, CoveredFails DEF VerifyLease
  <2>2. CASE Set(c, [call[c] EXCEPT !.at = "validate", !.state = CallbackState(@)])
    <3>1. call[c].answer # 200
      BY <1>5, <1>a DEF VerifyLease, Covered
    <3>2. Covered([call[c] EXCEPT !.at = "validate", !.state = CallbackState(@)])
      BY <1>a, <3>1 DEF Covered, CallType
    <3> QED
      BY <1>a, <2>2, <3>2, CoveredMoves DEF Set
  <2> QED
    BY <1>5, <2>1, <2>2 DEF VerifyLease
<1>6. CASE ValidateCallback(c)
  <2>1. CASE \E errors : Fail(c, errors)
    BY <1>6, <1>a, <2>1, CoveredFails DEF ValidateCallback
  <2>2. CASE Step(c, "write")
    <3>1. Covered([call[c] EXCEPT !.at = "write"])
      BY <1>a, <1>6 DEF ValidateCallback, Covered, CallType
    <3> QED
      BY <1>a, <2>2, <3>1, CoveredMoves DEF Step, Set
  <2> QED
    BY <1>6, <2>1, <2>2 DEF ValidateCallback
<1>7. CASE ExecuteTaskRun(c)
  <2>1. call[c].at = "execute" /\ call[c].answer # 200
    BY <1>7, <1>a DEF ExecuteTaskRun, Covered
  <2>2. ASSUME NEW s \in Snapshots, NEW phase \in {"report", "reportFailure"},
               call' = [call EXCEPT ![c] =
                          [call[c] EXCEPT !.at = "verify", !.phase = phase, !.state = s,
                                          !.now = clock, !.executed = TRUE]]
        PROVE  StartInv'
    <3>1. Covered([call[c] EXCEPT !.at = "verify", !.phase = phase, !.state = s,
                                  !.now = clock, !.executed = TRUE])
      BY <1>a, <2>1 DEF Covered, CallType
    <3> QED
      BY <1>a, <2>2, <3>1, CoveredMoves
  <2>3. "failed" \in Snapshots
    BY DEF Snapshots, Terminal
  <2> QED
    BY <1>7, <2>2, <2>3 DEF ExecuteTaskRun, Set, AfterError
<1> QED
  BY <1>1, <1>2, <1>3, <1>4, <1>5, <1>6, <1>7

\* The write itself: the first one of a lease is its start.
LEMMA StartWriteStep ==
    ASSUME DispatchInv, StartInv, NEW c \in Call, WriteCallback(c)
    PROVE  StartInv'
<1>a. /\ Begun(call[c]) /\ Covered(call[c]) /\ call[c] \in CallType
      /\ call \in [Call -> CallType] /\ log \in Seq(EntryType)
      /\ call[c].state \in Terminal \cup {"running"}
  BY DEF DispatchInv, RowTypes, StartInv, NoCall, WriteCallback, Begun
<1>1. CASE (\E errors : Fail(c, errors)) /\ UNCHANGED log
  BY <1>1, CoveredFails DEF WriteCallback
<1>2. CASE /\ log' = Append(log, [fence |-> call[c].fence, state |-> call[c].state])
           /\ Written(c)
  <2>1. PICK e : e = [fence |-> call[c].fence, state |-> call[c].state]
    OBVIOUS
  <2>2. /\ Len(log) \in Nat /\ DOMAIN log = 1..Len(log) /\ DOMAIN log' = 1..(Len(log) + 1)
        /\ log'[Len(log) + 1] = e
        /\ \A i \in DOMAIN log : log'[i] = log[i]
    BY <1>a, <1>2, <2>1
  <2>3. \A f : Started(f) => \E i \in DOMAIN log : log'[i] = [fence |-> f, state |-> "running"]
    BY <2>2 DEF Started
  <2>4. e.fence = call[c].fence /\ e.state = call[c].state
    BY <2>1
  <2>5. ASSUME NEW i \in DOMAIN log', log'[i].state \in Terminal
        PROVE  \E j \in 1..(i - 1) :
                  log'[j] = [fence |-> log'[i].fence, state |-> "running"]
    <3>1. CASE i \in DOMAIN log
      <4>1. PICK j \in 1..(i - 1) : log[j] = [fence |-> log[i].fence, state |-> "running"]
        BY <2>2, <2>5, <3>1 DEF StartInv
      <4>2. j \in DOMAIN log
        BY <2>2, <3>1
      <4> QED
        BY <2>2, <3>1, <4>1, <4>2
    <3>2. CASE i = Len(log) + 1
      <4>1. log'[i] = e /\ call[c].state # "running"
        BY <2>2, <2>4, <2>5, <3>2 DEF Terminal
      <4>2. Started(call[c].fence)
        BY <1>a, <4>1 DEF Begun, Covered
      <4>3. PICK j \in DOMAIN log : log'[j] = [fence |-> call[c].fence, state |-> "running"]
        BY <2>3, <4>2
      <4>4. j \in 1..(i - 1)
        BY <2>2, <3>2
      <4> QED
        BY <2>4, <4>1, <4>3, <4>4
    <3> QED
      BY <2>2, <3>1, <3>2
  <2>6. \A v : Covered(v) => Covered(v)'
    BY <2>2, <2>3 DEF Covered, Started
  <2>7. \E i \in DOMAIN log' : log'[i] = [fence |-> call[c].fence, state |-> call[c].state]
    BY <2>1, <2>2
  <2>8. PICK v : call' = [call EXCEPT ![c] = v] /\ Covered(v)'
    <3>1. CASE call[c].phase = "start"
      <4>1. call' = [call EXCEPT ![c] = [call[c] EXCEPT !.at = "execute"]]
        BY <1>2, <3>1 DEF Written, Step, Set
      <4>2. \E i \in DOMAIN log' : log'[i] = [fence |-> call[c].fence, state |-> "running"]
        BY <1>a, <2>7, <3>1 DEF Begun
      <4>3. PICK w, r : w = call[c] /\ r = [w EXCEPT !.at = "execute"]
        OBVIOUS
      <4>4. w.answer # 200
        BY <1>a, <4>3 DEF Covered, WriteCallback
      <4>5. r.fence = w.fence /\ r.answer # 200
        BY <1>a, <4>3, <4>4 DEF CallType
      <4>6. Covered(r)'
        BY <4>2, <4>3, <4>5 DEF Covered, Started
      <4> QED
        BY <4>1, <4>3, <4>6
    <3>2. CASE call[c].phase # "start"
      <4>1. PICK code \in Codes : Answer(c, code)
        <5>1. HTTPStatus(Joined(c, {})) \in Codes /\ 200 \in Codes
          BY DEF HTTPStatus, Codes
        <5> QED
          BY <1>2, <3>2, <5>1 DEF Written, Fail
      <4>2. PICK v, w, state : /\ v = NoCall /\ w = call[c]
                               /\ state = IF code = 200 THEN call[c].state ELSE "running"
        OBVIOUS
      <4>3. v \in CallType /\ w \in CallType
        BY <1>a, <4>2, NoCallType
      <4> DEFINE r == [v EXCEPT !.at = "answered", !.answer = code, !.fence = w.fence,
                                !.phase = w.phase, !.executed = w.executed, !.state = state]
      <4>4. r.fence = w.fence /\ r.answer = code /\ r.state = state /\ r.at = "answered"
        BY <4>3 DEF CallType
      <4>5. call' = [call EXCEPT ![c] = r]
        BY <4>1, <4>2 DEF Answer, Set
      <4> HIDE DEF r
      <4>6. Started(r.fence)'
        <5>1. Started(w.fence)
          BY <1>a, <3>2, <4>2 DEF Covered
        <5> QED
          BY <2>2, <2>3, <4>4, <5>1 DEF Started
      <4>7. r.answer = 200 => \E i \in DOMAIN log' :
               log'[i] = [fence |-> r.fence, state |-> r.state]
        BY <2>7, <4>2, <4>4
      <4>8. Covered(r)'
        BY <4>4, <4>6, <4>7 DEF Covered
      <4> QED
        BY <4>5, <4>8
    <3> QED
      BY <3>1, <3>2
  <2>9. \A d \in Call : Covered(call[d])'
    BY <1>a, <2>6, <2>8 DEF StartInv, Covered, Started
  <2> QED
    BY <2>5, <2>9 DEF StartInv
<1> QED
  BY <1>1, <1>2 DEF WriteCallback, WriteFailed

LEMMA StartInvStep ==
    DispatchInv /\ StartInv /\ [DispatchNext]_dispatchVars => StartInv'
<1> SUFFICES ASSUME DispatchInv, StartInv, [DispatchNext]_dispatchVars PROVE StartInv'
  OBVIOUS
<1>1. CASE log' = log /\ call' = call
  BY <1>1 DEF StartInv, Covered, Started
<1>2. CASE DispatchNext
  <2>1. CASE Tick \/ ClaimLease
    BY <1>1, <2>1 DEF Tick, ClaimLease
  <2> QED
    BY <1>2, <2>1, StartCallStep, StartWriteStep DEF DispatchNext, Dispatch
<1> QED
  BY <1>1, <1>2 DEF dispatchVars

\* Nothing runs under a lease whose start is not in the row, no end stands there
\* without a start of its lease, and no caller is told a state that is not there.
THEOREM RunsAreAnnounced == DispatchSpec => []NothingWithoutStart
<1>1. DispatchInit => StartInv
  BY DEF DispatchInit, StartInv, Covered, NoCall
<1>2. StartInv => NothingWithoutStart
  BY DEF StartInv, Covered, NothingWithoutStart
<1> QED
  BY <1>1, <1>2, DispatchInvInit, DispatchInvStep, StartInvStep, PTL DEF DispatchSpec

\* The leases whose events the row holds are in the order in which they were
\* taken: an event never follows one of a later lease.
THEOREM FencesNeverGoBack == DispatchSpec => []FencesInOrder
<1>1. DispatchInv => FencesInOrder
  BY DEF DispatchInv
<1> QED
  BY <1>1, DispatchInvInit, DispatchInvStep, PTL DEF DispatchSpec

\* An ended run changes only when a second request used its last lease: the call
\* that ended it is over, and the scheduler takes no other lease.
THEOREM EndIsReopenedByRepeat == DispatchSpec => EndIsReopenedOnlyByRepeat
<1>1. DispatchInv /\ [DispatchNext]_dispatchVars
         => [log' # log /\ State \in Terminal =>
               1 < Cardinality({c \in Call : call[c].fence = log[Len(log)].fence})]_dispatchVars
  <2> SUFFICES ASSUME DispatchInv, DispatchNext, log' # log, State \in Terminal
               PROVE  1 < Cardinality({c \in Call : call[c].fence = log[Len(log)].fence})
    BY DEF dispatchVars
  <2>1. PICK c \in Call : call[c].at = "write" /\ call[c].fence = fence
    BY LogSteps
  <2>2. PICK d \in Call : call[d].at = "answered" /\ call[d].fence = fence
    BY DEF DispatchInv, EndIsAnswered
  <2> DEFINE Users == {x \in Call : call[x].fence = log[Len(log)].fence}
  <2>3. c # d /\ {c, d} \subseteq Users
    BY <2>1, <2>2 DEF DispatchInv, EndIsAnswered
  <2>4. IsFiniteSet(Users)
    BY DispatchAssumption, FS_Subset
  <2>5. Cardinality({c, d}) = 2
    <3>1. IsFiniteSet({c}) /\ Cardinality({c}) = 1
      BY FS_Singleton
    <3>2. {c, d} = {c} \cup {d} /\ d \notin {c}
      BY <2>3
    <3> QED
      BY <3>1, <3>2, FS_AddElement
  <2>6. Cardinality({c, d}) <= Cardinality(Users) /\ Cardinality(Users) \in Nat
    BY <2>3, <2>4, FS_Subset, FS_CardinalityType
  <2> QED
    BY <2>5, <2>6
<1> QED
  BY <1>1, DispatchInvInit, DispatchInvStep, PTL DEF DispatchSpec, EndIsReopenedOnlyByRepeat

-----------------------------------------------------------------------------
(* DesktopService *)

OfferType == [at : {"idle", "offer", "capture", "start", "done"},
              id : Id \cup {None}, target : Offer \cup {None}]
InjectorType == [started : BOOLEAN, process : {"none", "up", "broken"},
                 input : {"idle", "restart", "write"}]
CaptureType == [state : {"none", "up", "killed", "exited", "reaped"}, of : Offer \cup {None}]

\* The processes of the sessions.
ProcessTypes ==
    /\ running \in [Offer -> BOOLEAN]
    /\ injector \in [Offer -> InjectorType]
    /\ capture \in [Offer -> CaptureType]
    /\ crashed \in BOOLEAN

\* The sessions and the handlers; a handler at work has the id of its request.
SessionTypes ==
    /\ sessions \in [Id -> Offer \cup {None}]
    /\ offer \in [Offer -> OfferType]
    /\ rtc \in [Offer -> {"none", "open", "closed"}]
    /\ \A o \in Offer : offer[o].at \in {"offer", "capture", "start"} => offer[o].id \in Id

\* The port admits one session, and its receiver is open exactly while it is in
\* the table.
PortInv ==
    /\ SessionTypes
    /\ \A i, j \in Id : sessions[i] # None /\ sessions[j] # None => i = j
    /\ \A o \in Offer : rtc[o] = "open" <=> \E i \in Id : sessions[i] = o

\* The objects of a set of ids.
Objects(ids) == {sessions[i] : i \in ids} \ {None}

\* Stopping sessions closes their receivers, and no others.
LEMMA StoppedReceivers ==
    ASSUME PortInv, NEW ids \in SUBSET Id
    PROVE  /\ closeRTC(Objects(ids)) \in [Offer -> {"none", "open", "closed"}]
           /\ \A o \in Offer :
                 closeRTC(Objects(ids))[o] = "open" <=>
                     rtc[o] = "open" /\ ~\E i \in ids : sessions[i] = o
BY DesktopAssumption DEF PortInv, SessionTypes, closeRTC, Objects

\* Stopping the sessions of some ids, on every path that does so.
LEMMA StopKeepsPort ==
    ASSUME PortInv, NEW ids \in SUBSET Id,
           rtc' = closeRTC(Objects(ids)),
           sessions' = [i \in Id |-> IF i \in ids THEN None ELSE sessions[i]],
           offer' \in [Offer -> OfferType],
           \A o \in Offer : offer'[o].at \in {"offer", "capture", "start"} => offer'[o].id \in Id
    PROVE  PortInv'
<1>1. SessionTypes'
  BY StoppedReceivers DEF PortInv, SessionTypes
<1>2. \A i, j \in Id : sessions'[i] # None /\ sessions'[j] # None => i = j
  BY DEF PortInv
<1>3. ASSUME NEW o \in Offer PROVE rtc'[o] = "open" <=> \E i \in Id : sessions'[i] = o
  <2>1. o # None
    BY DesktopAssumption
  <2>2. rtc'[o] = "open" <=> rtc[o] = "open" /\ ~\E i \in ids : sessions[i] = o
    BY StoppedReceivers
  <2>3. (\E i \in Id : sessions'[i] = o) <=>
           (\E i \in Id : sessions[i] = o) /\ ~\E i \in ids : sessions[i] = o
    BY <2>1 DEF PortInv
  <2> QED
    BY <2>2, <2>3 DEF PortInv
<1> QED
  BY <1>1, <1>2, <1>3 DEF PortInv

\* Handlers that move.
LEMMA OfferUpdates ==
    ASSUME SessionTypes, NEW o \in Offer
    PROVE  /\ [offer EXCEPT ![o] = [NewOffer EXCEPT !.at = "done"]] \in [Offer -> OfferType]
           /\ \A p \in Offer : [offer EXCEPT ![o] = [NewOffer EXCEPT !.at = "done"]][p].at
                                   \in {"offer", "capture", "start"} =>
                 [offer EXCEPT ![o] = [NewOffer EXCEPT !.at = "done"]][p].id \in Id
<1>1. PICK v : v = [NewOffer EXCEPT !.at = "done"]
  OBVIOUS
<1>2. v \in OfferType /\ v.at = "done"
  BY <1>1 DEF NewOffer, OfferType
<1>3. /\ [offer EXCEPT ![o] = v] \in [Offer -> OfferType]
      /\ \A p \in Offer : [offer EXCEPT ![o] = v][p].at \in {"offer", "capture", "start"} =>
            [offer EXCEPT ![o] = v][p].id \in Id
  BY <1>2 DEF SessionTypes
<1> QED
  BY <1>1, <1>3

\* An offer that fails stops the session of its id and is done.
LEMMA FailKeepsPort ==
    ASSUME PortInv, NEW o \in Offer, FailOffer(o), offer[o].id \in Id
    PROVE  PortInv'
<1>1. {offer[o].id} \in SUBSET Id
  OBVIOUS
<1>2. /\ rtc' = closeRTC(Objects({offer[o].id}))
      /\ sessions' = [i \in Id |-> IF i \in {offer[o].id} THEN None ELSE sessions[i]]
      /\ offer' = [offer EXCEPT ![o] = [NewOffer EXCEPT !.at = "done"]]
  BY DEF FailOffer, StopAll, Done, Objects
<1>3. SessionTypes
  BY DEF PortInv
<1> QED
  BY <1>1, <1>2, <1>3, OfferUpdates, StopKeepsPort

\* An offer that starts replaces every session, so that the port is free for it.
LEMMA StartKeepsPort ==
    ASSUME PortInv, NEW o \in Offer, StartSession(o)
    PROVE  PortInv'
<1>1. PICK id \in Id :
        LET ids == SharingPort(id)
            S == {sessions[i] : i \in ids} \ {None}
            free == \A x \in Offer : closeRTC(S)[x] # "open" IN
          \/ /\ rtc' = [closeRTC(S) EXCEPT ![o] = "open"]
             /\ sessions' = [i \in Id |-> IF i = id THEN o ELSE IF i \in ids THEN None ELSE sessions[i]]
             /\ offer' = [offer EXCEPT ![o] = [at |-> "offer", id |-> id, target |-> None]]
          \/ /\ rtc' = closeRTC(S)
             /\ sessions' = [i \in Id |-> IF i \in ids THEN None ELSE sessions[i]]
             /\ offer' = [offer EXCEPT ![o] =
                            [NewOffer EXCEPT !.at = IF free THEN "done" ELSE "bound"]]
  BY DEF StartSession
<1> DEFINE ids == SharingPort(id)
<1>2. ids \in SUBSET Id /\ \A i \in Id : sessions[i] # None => i \in ids
  BY DEF SharingPort
<1>3. \A x \in Offer : closeRTC(Objects(ids))[x] # "open"
  <2> SUFFICES ASSUME NEW x \in Offer, rtc[x] = "open" PROVE \E i \in ids : sessions[i] = x
    BY <1>2, StoppedReceivers
  <2>1. PICK i \in Id : sessions[i] = x
    BY DEF PortInv
  <2> QED
    BY <1>2, <2>1, DesktopAssumption
<1>4. CASE /\ rtc' = [closeRTC(Objects(ids)) EXCEPT ![o] = "open"]
           /\ sessions' = [i \in Id |-> IF i = id THEN o ELSE IF i \in ids THEN None ELSE sessions[i]]
           /\ offer' = [offer EXCEPT ![o] = [at |-> "offer", id |-> id, target |-> None]]
  <2>1. \A i \in Id : sessions'[i] = IF i = id THEN o ELSE None
    BY <1>2, <1>4
  <2>2. /\ rtc' \in [Offer -> {"none", "open", "closed"}]
        /\ \A x \in Offer : rtc'[x] = "open" <=> x = o
    BY <1>2, <1>3, <1>4, StoppedReceivers
  <2>3. PICK v : v = [at |-> "offer", id |-> id, target |-> None]
    OBVIOUS
  <2>4. v \in OfferType /\ v.id \in Id
    BY <2>3 DEF OfferType
  <2>5. SessionTypes'
    BY <1>4, <2>1, <2>2, <2>3, <2>4 DEF PortInv, SessionTypes
  <2> QED
    BY <2>1, <2>2, <2>5, DesktopAssumption DEF PortInv
<1>5. CASE /\ rtc' = closeRTC(Objects(ids))
           /\ sessions' = [i \in Id |-> IF i \in ids THEN None ELSE sessions[i]]
           /\ offer' = [offer EXCEPT ![o] = [NewOffer EXCEPT !.at = "done"]]
  <2>1. SessionTypes
    BY DEF PortInv
  <2> QED
    BY <1>2, <1>5, <2>1, OfferUpdates, StopKeepsPort
<1> QED
  BY <1>1, <1>3, <1>4, <1>5 DEF Objects

\* The later steps of an offer, and the close.
LEMMA HandlerKeepsPort ==
    ASSUME PortInv, NEW o \in Offer, ProcessOffer(o) \/ StartCapture(o) \/ StartPipeline(o)
    PROVE  PortInv'
<1>a. SessionTypes
  BY DEF PortInv
<1>b. offer[o].id \in Id /\ sessions[offer[o].id] \in Offer \cup {None}
  BY <1>a DEF ProcessOffer, StartCapture, StartPipeline, SessionTypes
\* A handler that moves on and leaves the sessions alone.
<1>1. ASSUME UNCHANGED <<sessions, rtc>>, offer' \in [Offer -> OfferType],
             \A p \in Offer : offer'[p].at \in {"offer", "capture", "start"} =>
                                 offer'[p].id \in Id
      PROVE  PortInv'
  BY <1>1 DEF PortInv, SessionTypes
<1>2. CASE UNCHANGED <<sessions, rtc>> /\ Done(o)
  BY <1>a, <1>1, <1>2, OfferUpdates DEF Done
<1>3. CASE FailOffer(o)
  BY <1>b, <1>3, FailKeepsPort
<1>4. CASE UNCHANGED <<sessions, rtc>> /\ offer' = [offer EXCEPT ![o].at = "capture"]
  BY <1>a, <1>b, <1>1, <1>4 DEF SessionTypes, OfferType
<1>5. ASSUME NEW target \in Offer, UNCHANGED <<sessions, rtc>>,
             offer' = [offer EXCEPT ![o].at = "start", ![o].target = target]
      PROVE  PortInv'
  BY <1>a, <1>b, <1>1, <1>5 DEF SessionTypes, OfferType
<1>6. CASE ProcessOffer(o)
  BY <1>3, <1>4, <1>6 DEF ProcessOffer
<1>7. CASE StartCapture(o)
  BY <1>b, <1>2, <1>3, <1>5, <1>7 DEF StartCapture
<1>8. CASE StartPipeline(o)
  BY <1>2, <1>3, <1>8 DEF StartPipeline
<1> QED
  BY <1>6, <1>7, <1>8

LEMMA PortStep == PortInv /\ [DesktopNext]_dvars => PortInv'
<1> SUFFICES ASSUME PortInv, [DesktopNext]_dvars PROVE PortInv'
  OBVIOUS
<1>1. CASE UNCHANGED <<sessions, offer, rtc>>
  BY <1>1 DEF PortInv, SessionTypes
<1>2. ASSUME NEW id \in Id, CloseDesktop(id) PROVE PortInv'
  <2>1. /\ {id} \in SUBSET Id /\ offer' = offer
        /\ rtc' = closeRTC(Objects({id}))
        /\ sessions' = [i \in Id |-> IF i \in {id} THEN None ELSE sessions[i]]
    BY <1>2 DEF CloseDesktop, StopAll, Objects
  <2> QED
    BY <2>1, StopKeepsPort DEF PortInv, SessionTypes
<1>3. ASSUME NEW o \in Offer, \/ CaptureExits(o) \/ Monitor(o) \/ XdotoolExits(o)
                              \/ InputFails(o) \/ Restart(o) \/ RestartFails(o)
                              \/ WriteAgain(o)
      PROVE  UNCHANGED <<sessions, offer, rtc>>
  BY <1>3 DEF CaptureExits, Monitor, XdotoolExits, InputFails, Restart, RestartFails,
              WriteAgain
<1>4. UNCHANGED dvars => UNCHANGED <<sessions, offer, rtc>>
  BY DEF dvars
<1> QED
  BY <1>1, <1>2, <1>3, <1>4, StartKeepsPort, HandlerKeepsPort DEF DesktopNext, HandleOffer

LEMMA PortInit == DesktopInit => PortInv
BY DesktopAssumption DEF DesktopInit, PortInv, SessionTypes, OfferType, NewOffer

\* The port's one receiver is that of a session that can be found and closed, and
\* the bind of a later offer never fails.
THEOREM ReceiversHaveSessions == DesktopSpec => []ReceiverHasSession
<1>1. PortInv => ReceiverHasSession
  <2> SUFFICES ASSUME PortInv PROVE ReceiverHasSession
    OBVIOUS
  <2>1. {o \in Offer : rtc[o] = "open"} = Live
    BY DEF PortInv, Live
  <2>2. \A x, y \in Live : x = y
    BY DesktopAssumption DEF PortInv, Live
  <2>3. Cardinality(Live) <= 1
    <3>1. CASE Live = {}
      BY <3>1, FS_EmptySet
    <3>2. ASSUME NEW x \in Live PROVE Cardinality(Live) <= 1
      <4>1. Live = {x}
        BY <2>2, <3>2
      <4>2. Cardinality({x}) = 1
        BY FS_Singleton
      <4> QED
        BY <4>1, <4>2
    <3> QED
      BY <3>1, <3>2
  <2> QED
    BY <2>1, <2>3 DEF ReceiverHasSession
<1> QED
  BY <1>1, PortInit, PortStep, PTL DEF DesktopSpec

\* The processes that stopping sessions leaves.
LEMMA StopKeepsProcesses ==
    ASSUME ProcessTypes, NEW S
    PROVE  /\ closeInjectors(S) \in [Offer -> InjectorType]
           /\ stopPipelines(S) => /\ capture' \in [Offer -> CaptureType]
                                  /\ running' \in [Offer -> BOOLEAN]
<1>1. closeInjectors(S) \in [Offer -> InjectorType]
  BY DEF ProcessTypes, closeInjectors, InjectorType
<1>2. stopPipelines(S) => capture' \in [Offer -> CaptureType]
  BY DEF ProcessTypes, stopPipelines, CaptureType
<1>3. stopPipelines(S) => running' \in [Offer -> BOOLEAN]
  BY DEF ProcessTypes, stopPipelines
<1> QED
  BY <1>1, <1>2, <1>3

LEMMA ProcessStep == PortInv /\ ProcessTypes /\ [DesktopNext]_dvars => ProcessTypes'
<1> SUFFICES ASSUME PortInv, ProcessTypes, [DesktopNext]_dvars PROVE ProcessTypes'
  OBVIOUS
<1>1. CASE UNCHANGED <<running, injector, capture, crashed>>
  BY <1>1 DEF ProcessTypes
<1>2. ASSUME NEW ids, StopAll(ids), UNCHANGED crashed PROVE ProcessTypes'
  BY <1>2, StopKeepsProcesses DEF StopAll, ProcessTypes
<1>3. ASSUME NEW o \in Offer, StartSession(o) PROVE ProcessTypes'
  <2>1. PICK S : /\ stopPipelines(S) /\ UNCHANGED crashed
                 /\ \/ injector' = closeInjectors(S)
                    \/ injector' = [closeInjectors(S) EXCEPT
                         ![o] = [NoInjector EXCEPT !.started = TRUE, !.process = "up"]]
    BY <1>3 DEF StartSession
  <2>2. [NoInjector EXCEPT !.started = TRUE, !.process = "up"] \in InjectorType
    BY DEF NoInjector, InjectorType
  <2>3. injector' \in [Offer -> InjectorType]
    BY <2>1, <2>2, StopKeepsProcesses
  <2> QED
    BY <2>1, <2>3, StopKeepsProcesses DEF ProcessTypes
<1>4. ASSUME NEW o \in Offer, ProcessOffer(o) \/ StartCapture(o) PROVE ProcessTypes'
  BY <1>1, <1>2, <1>4 DEF ProcessOffer, StartCapture, FailOffer
<1>5. ASSUME NEW o \in Offer, StartPipeline(o) PROVE ProcessTypes'
  <2>1. CASE FailOffer(o)
    BY <1>2, <1>5, <2>1 DEF StartPipeline, FailOffer
  <2>2. ASSUME NEW x \in Offer \cup {None}, running' = [running EXCEPT ![x] = TRUE],
               capture' = [capture EXCEPT ![o] = [state |-> "up", of |-> x]],
               UNCHANGED <<injector, crashed>>
        PROVE  ProcessTypes'
    BY <2>2 DEF ProcessTypes, CaptureType
  <2>3. offer[o].target \in Offer \cup {None}
    BY DEF PortInv, SessionTypes, OfferType
  <2> QED
    BY <1>5, <2>1, <2>2, <2>3 DEF StartPipeline
<1>6. ASSUME NEW o \in Offer, CaptureExits(o) \/ Monitor(o) PROVE ProcessTypes'
  <2>1. UNCHANGED <<injector, crashed>>
    BY <1>6 DEF CaptureExits, Monitor
  <2>2. capture' \in [Offer -> CaptureType]
    BY <1>6 DEF CaptureExits, Monitor, ProcessTypes, CaptureType
  <2>3. running' \in [Offer -> BOOLEAN]
    BY <1>6 DEF CaptureExits, Monitor, ProcessTypes
  <2> QED
    BY <2>1, <2>2, <2>3 DEF ProcessTypes
<1>7. ASSUME NEW o \in Offer, \/ XdotoolExits(o) \/ InputFails(o)
                              \/ Restart(o) \/ RestartFails(o)
      PROVE  ProcessTypes'
  <2>1. UNCHANGED <<running, capture, crashed>>
    BY <1>7 DEF XdotoolExits, InputFails, Restart, RestartFails
  <2>2. injector' \in [Offer -> InjectorType]
    <3> USE DEF ProcessTypes, InjectorType
    <3>1. CASE XdotoolExits(o)
      BY <3>1 DEF XdotoolExits
    <3>2. CASE InputFails(o)
      BY <3>2 DEF InputFails
    <3>3. CASE Restart(o)
      BY <3>3 DEF Restart
    <3>4. CASE RestartFails(o)
      BY <3>4 DEF RestartFails
    <3> QED
      BY <1>7, <3>1, <3>2, <3>3, <3>4
  <2> QED
    BY <2>1, <2>2 DEF ProcessTypes
<1>8. ASSUME NEW o \in Offer, WriteAgain(o) PROVE ProcessTypes'
  <2>1. injector' \in [Offer -> InjectorType]
    BY <1>8 DEF WriteAgain, ProcessTypes, InjectorType
  <2> QED
    BY <1>8, <2>1 DEF WriteAgain, ProcessTypes
<1>9. ASSUME NEW id \in Id, CloseDesktop(id) PROVE ProcessTypes'
  BY <1>2, <1>9 DEF CloseDesktop
<1>10. UNCHANGED dvars => UNCHANGED <<running, injector, capture, crashed>>
  BY DEF dvars
<1> QED
  BY <1>1, <1>3, <1>4, <1>5, <1>6, <1>7, <1>8, <1>9, <1>10 DEF DesktopNext, HandleOffer

\* Sessions, handlers and processes are well typed; no handler finds the port held.
THEOREM DesktopTypes == DesktopSpec => []DesktopTypeOK
<1>1. DesktopInit => ProcessTypes
  <2>1. NoInjector \in InjectorType
    BY DEF NoInjector, InjectorType
  <2>2. [state |-> "none", of |-> None] \in CaptureType
    BY DEF CaptureType
  <2> QED
    BY <2>1, <2>2 DEF DesktopInit, ProcessTypes
<1>2. PortInv /\ ProcessTypes => DesktopTypeOK
  BY DEF PortInv, SessionTypes, ProcessTypes, DesktopTypeOK, OfferType, InjectorType,
         CaptureType
<1> QED
  BY <1>1, <1>2, PortInit, PortStep, ProcessStep, PTL DEF DesktopSpec

-----------------------------------------------------------------------------
(* DistributedForwarder *)

RequestType == [at : {"new", "choose", "chosen", "arrived", "executed", "refused"}, node : Node,
                method : Methods, target : Targets \cup {NoNode}, hop : 0..HopLimit]

\* Where a request for a target goes no further.
Stops(n, t) == n \notin router \/ t = n \/ nextHop[n][t] = n

\* The request went along this way, and was executed only where the way ends.
Along(way, q, t) ==
    /\ q.node = way[q.hop]
    /\ \A k \in 0..(q.hop - 1) : ~Stops(way[k], t) /\ way[k + 1] = nextHop[way[k]][t]
    /\ q.at = "executed" => Stops(q.node, t)

OnTheWay(t, way) ==
    /\ way[0] = Ingress
    /\ \A r \in Request : request[r].target = t => Along(way, request[r], t)

\* All requests for a target go one way, however far each of them has come.
OneWay == \A t \in Targets : \E way \in [0..HopLimit -> Node] : OnTheWay(t, way)

\* What a request is before its target is known; only tasks with a target count as
\* decided, and what a lookup saw stays decided.
RequestInv ==
    /\ Ingress \in router
    /\ \A r \in Request : seen[r] \subseteq Decided
    /\ \A r \in Request : request[r].at \in {"new", "choose"} =>
          request[r].target = NoNode /\ request[r].node = Ingress /\ request[r].hop = 0
    /\ \A r \in Request : request[r].at = "chosen" =>
          request[r].target # NoNode /\ request[r].node = Ingress /\ request[r].hop = 0
    /\ \A r \in Request : request[r].at = "arrived" => request[r].target # NoNode

\* While the session is calm, at most one task chooses, and only while there is no
\* route; otherwise the route is the target of every task, and of every request
\* that looked after one.
RouteInv ==
    calm =>
    /\ \A r \in Choosing : route = NoNode /\ Choosing = {r}
    /\ \A r \in Decided : request[r].target = route
    /\ \A r \in Request : seen[r] # {} /\ followsRoute(request[r].method) =>
          request[r].target = route /\ route # NoNode

ForwarderInv == ForwarderTypeOK /\ RequestInv /\ RouteInv /\ OneWay

LEMMA TargetFacts ==
    /\ Targets \subseteq Node /\ Ingress \notin Targets /\ NoNode \notin Targets
    /\ Len(Candidates) \in Nat /\ Len(Candidates) > 0
    /\ 0 \in 0..HopLimit
BY ForwarderAssumption DEF Targets

LEMMA ForwarderInvInit == ForwarderInit => ForwarderInv
<1> SUFFICES ASSUME ForwarderInit PROVE ForwarderInv
  OBVIOUS
<1>1. PICK q : q = NewRequest
  OBVIOUS
<1>2. /\ q \in RequestType /\ q.at = "new" /\ q.target = NoNode /\ q.node = Ingress
      /\ q.hop = 0 /\ q.method = "other"
  BY <1>1, TargetFacts, ForwarderAssumption DEF NewRequest, RequestType, Methods
<1>3. \A r \in Request : request[r] = q /\ seen[r] = {}
  BY <1>1 DEF ForwarderInit
<1>4. ForwarderTypeOK
  <2>1. request \in [Request -> RequestType]
    BY <1>1, <1>2 DEF ForwarderInit
  <2>2. turn \in 0..(Len(Candidates) - 1)
    BY TargetFacts DEF ForwarderInit
  <2> QED
    BY <2>1, <2>2 DEF ForwarderInit, ForwarderTypeOK, RequestType
<1>5. RequestInv
  BY <1>2, <1>3 DEF RequestInv, ForwarderInit
<1>6. RouteInv
  BY <1>2, <1>3 DEF RouteInv, Choosing, Decided
<1>7. OneWay
  <2> SUFFICES ASSUME NEW t \in Targets
               PROVE  \E way \in [0..HopLimit -> Node] : OnTheWay(t, way)
    BY DEF OneWay
  <2>1. [k \in 0..HopLimit |-> Ingress] \in [0..HopLimit -> Node]
    BY ForwarderAssumption
  <2>2. OnTheWay(t, [k \in 0..HopLimit |-> Ingress])
    BY <1>2, <1>3, TargetFacts DEF OnTheWay
  <2> QED
    BY <2>1, <2>2
<1> QED
  BY <1>4, <1>5, <1>6, <1>7 DEF ForwarderInv

\* What forwarding does to a request: it ends at this node or goes to the next hop.
Moved(r, q, t) ==
    \/ /\ q.at \in {"executed", "refused"}
       /\ q.node = request[r].node /\ q.hop = request[r].hop
       /\ q.at = "executed" => nextHop[request[r].node][t] = request[r].node
    \/ /\ q.at = "arrived"
       /\ nextHop[request[r].node][t] # request[r].node
       /\ q.node = nextHop[request[r].node][t]
       /\ q.hop = request[r].hop + 1

LEMMA Forwarding ==
    ASSUME ForwarderTypeOK, NEW r \in Request, NEW m \in Methods, NEW t \in Targets,
           ForwardTo(r, m, t)
    PROVE  \E q \in RequestType :
              /\ request' = [request EXCEPT ![r] = q]
              /\ q.method = m /\ q.target = t /\ Moved(r, q, t)
<1>1. PICK w : w = request[r]
  OBVIOUS
<1>2. PICK next : next = nextHop[w.node][t]
  OBVIOUS
<1>3. w \in RequestType /\ next \in Node
  BY <1>1, <1>2, TargetFacts DEF ForwarderTypeOK, RequestType
<1>4. CASE /\ next = w.node
           /\ request' = [request EXCEPT ![r] =
                [[w EXCEPT !.target = t, !.method = m] EXCEPT !.at = "executed"]]
  <2>1. PICK q : q = [[w EXCEPT !.target = t, !.method = m] EXCEPT !.at = "executed"]
    OBVIOUS
  <2>2. /\ q \in RequestType /\ q.method = m /\ q.target = t /\ q.at = "executed"
        /\ q.node = w.node /\ q.hop = w.hop
    BY <1>3, <2>1 DEF RequestType
  <2> QED
    BY <1>1, <1>2, <1>4, <2>1, <2>2 DEF Moved
<1>5. CASE /\ next # w.node
           /\ request' = [request EXCEPT ![r] =
                [[w EXCEPT !.target = t, !.method = m] EXCEPT !.at = "refused"]]
  <2>1. PICK q : q = [[w EXCEPT !.target = t, !.method = m] EXCEPT !.at = "refused"]
    OBVIOUS
  <2>2. /\ q \in RequestType /\ q.method = m /\ q.target = t /\ q.at = "refused"
        /\ q.node = w.node /\ q.hop = w.hop
    BY <1>3, <2>1 DEF RequestType
  <2> QED
    BY <1>1, <1>5, <2>1, <2>2 DEF Moved
<1>6. CASE /\ next # w.node /\ w.hop + 1 <= HopLimit
           /\ request' = [request EXCEPT ![r] =
                [[w EXCEPT !.target = t, !.method = m] EXCEPT
                    !.at = "arrived", !.node = next, !.hop = w.hop + 1]]
  <2>1. PICK q : q = [[w EXCEPT !.target = t, !.method = m] EXCEPT
                        !.at = "arrived", !.node = next, !.hop = w.hop + 1]
    OBVIOUS
  <2>2. w.hop + 1 \in 0..HopLimit
    BY <1>3, <1>6, ForwarderAssumption DEF RequestType
  <2>3. /\ q \in RequestType /\ q.method = m /\ q.target = t /\ q.at = "arrived"
        /\ q.node = next /\ q.hop = w.hop + 1
    BY <1>3, <2>1, <2>2 DEF RequestType
  <2> QED
    BY <1>1, <1>2, <1>6, <2>1, <2>3 DEF Moved
<1> QED
  BY <1>1, <1>2, <1>4, <1>5, <1>6 DEF ForwardTo, Put, HopAllowed, NextHopCount

\* A request that moves on keeps to the way of its target.  Where another has gone
\* further, it went the same hop; where none has, the way is extended.
LEMMA ForwardKeepsWay ==
    ASSUME ForwarderTypeOK, OneWay, UNCHANGED config,
           NEW r \in Request, NEW q \in RequestType, NEW t \in Targets,
           request' = [request EXCEPT ![r] = q], q.target = t, Moved(r, q, t),
           request[r].node \in router, request[r].node # t,
           \/ request[r].target = t /\ request[r].at # "executed"
           \/ /\ request[r].target = NoNode
              /\ request[r].node = Ingress /\ request[r].hop = 0
    PROVE  OneWay'
<1> SUFFICES ASSUME NEW u \in Targets
             PROVE  (\E way \in [0..HopLimit -> Node] : OnTheWay(u, way))'
  BY DEF OneWay, Targets
<1>0. /\ \A n, x : Stops(n, x)' <=> Stops(n, x)
      /\ nextHop' = nextHop /\ router' = router
  BY DEF Stops, config
<1>1. PICK way \in [0..HopLimit -> Node] : OnTheWay(u, way)
  BY DEF OneWay
<1>2. \A s \in Request : request'[s] = IF s = r THEN q ELSE request[s]
  BY DEF ForwarderTypeOK
<1>3. CASE u # t
  <2>1. OnTheWay(u, way)'
    BY <1>0, <1>1, <1>2, <1>3 DEF OnTheWay, Along
  <2> QED
    BY <1>1, <2>1
<1>4. CASE u = t
  <2>1. PICK h, n : h = request[r].hop /\ n = request[r].node
    OBVIOUS
  <2>2. h \in 0..HopLimit /\ n \in Node /\ HopLimit \in Nat
    BY <2>1, ForwarderAssumption DEF ForwarderTypeOK
  <2>3. /\ way[0] = Ingress /\ n = way[h]
        /\ \A k \in 0..(h - 1) : ~Stops(way[k], t) /\ way[k + 1] = nextHop[way[k]][t]
    BY <1>1, <1>4, <2>1 DEF OnTheWay, Along
  <2>4. \A s \in Request \ {r} : request[s].target = t => Along(way, request[s], t)
    BY <1>1, <1>4 DEF OnTheWay
  <2>5. CASE /\ q.at \in {"executed", "refused"} /\ q.node = n /\ q.hop = h
             /\ q.at = "executed" => nextHop[n][t] = n
    <3>1. Along(way, q, t)
      BY <2>3, <2>5 DEF Along, Stops
    <3>2. OnTheWay(t, way)'
      BY <1>0, <1>2, <2>3, <2>4, <3>1 DEF OnTheWay, Along
    <3> QED
      BY <1>1, <1>4, <3>2
  <2>6. CASE /\ q.at = "arrived" /\ nextHop[n][t] # n
             /\ q.node = nextHop[n][t] /\ q.hop = h + 1
    <3>1. ~Stops(n, t)
      BY <2>1, <2>6 DEF Stops
    <3>2. h + 1 \in 0..HopLimit
      BY <2>6 DEF RequestType
    <3>3. CASE \E s \in Request \ {r} : request[s].target = t /\ h < request[s].hop
      <4>1. PICK s \in Request \ {r} : request[s].target = t /\ h < request[s].hop
        BY <3>3
      <4>2. request[s].hop \in 0..HopLimit
        BY DEF ForwarderTypeOK
      <4>3. h \in 0..(request[s].hop - 1)
        BY <2>2, <4>1, <4>2
      <4>4. way[h + 1] = nextHop[n][t]
        BY <2>3, <2>4, <4>1, <4>3 DEF Along
      <4>5. Along(way, q, t)
        <5>1. \A k \in 0..(q.hop - 1) : k = h \/ k \in 0..(h - 1)
          BY <2>2, <2>6
        <5> QED
          BY <2>3, <2>6, <3>1, <4>4, <5>1 DEF Along
      <4>6. OnTheWay(t, way)'
        BY <1>0, <1>2, <2>3, <2>4, <4>5 DEF OnTheWay, Along
      <4> QED
        BY <1>1, <1>4, <4>6
    <3>4. CASE \A s \in Request \ {r} : request[s].target = t => ~(h < request[s].hop)
      <4>1. PICK far : far = [way EXCEPT ![h + 1] = nextHop[n][t]]
        OBVIOUS
      <4>2. /\ far \in [0..HopLimit -> Node]
            /\ far[h + 1] = nextHop[n][t]
            /\ \A k \in 0..h : far[k] = way[k]
        <5>1. nextHop[n][t] \in Node
          BY <2>2 DEF ForwarderTypeOK
        <5>2. \A k \in 0..h : k \in 0..HopLimit /\ k # h + 1
          BY <2>2
        <5> QED
          BY <1>1, <3>2, <4>1, <5>1, <5>2
      <4>3. ASSUME NEW s \in Request \ {r}, request[s].target = t
            PROVE  Along(far, request[s], t)
        <5>1. PICK e : e = request[s].hop
          OBVIOUS
        <5>2. e \in 0..h
          BY <2>2, <3>4, <4>3, <5>1 DEF ForwarderTypeOK
        <5>3. \A k \in 0..(e - 1) : k \in 0..h /\ k + 1 \in 0..h
          BY <2>2, <5>2
        <5>4. Along(way, request[s], t)
          BY <2>4, <4>3
        <5> QED
          BY <4>2, <5>1, <5>2, <5>3, <5>4 DEF Along
      <4>4. Along(far, q, t)
        <5>1. \A k \in 0..h : k = h \/ (k \in 0..(h - 1) /\ k + 1 \in 0..h)
          BY <2>2
        <5>2. q.hop - 1 = h /\ h \in 0..h
          BY <2>2, <2>6
        <5>3. \A k \in 0..h : ~Stops(far[k], t) /\ far[k + 1] = nextHop[far[k]][t]
          BY <2>3, <3>1, <4>2, <5>1, <5>2
        <5> QED
          BY <2>6, <4>2, <5>2, <5>3 DEF Along
      <4>5. far[0] = Ingress
        BY <2>2, <2>3, <4>2
      <4>6. OnTheWay(t, far)'
        BY <1>0, <1>2, <4>3, <4>4, <4>5 DEF OnTheWay, Along
      <4> QED
        BY <1>4, <4>2, <4>6
    <3> QED
      BY <3>3, <3>4
  <2> QED
    BY <2>1, <2>5, <2>6 DEF Moved
<1> QED
  BY <1>3, <1>4

\* A step that changes no request.
LEMMA WayUnchanged == OneWay /\ UNCHANGED <<config, request>> => OneWay'
<1> SUFFICES ASSUME OneWay, UNCHANGED <<config, request>>,
                    NEW t, NEW way, OnTheWay(t, way)
             PROVE  OnTheWay(t, way)'
  BY DEF OneWay, Targets
<1>1. /\ \A n, x : Stops(n, x)' <=> Stops(n, x)
      /\ nextHop' = nextHop
  BY DEF Stops, config
<1> QED
  BY <1>1 DEF OnTheWay, Along

\* A request that is executed here without being forwarded, with no target or at
\* the end of its way.
LEMMA EndKeepsWay ==
    ASSUME ForwarderTypeOK, OneWay, UNCHANGED config,
           NEW r \in Request, NEW q, request' = [request EXCEPT ![r] = q],
           q.target = request[r].target, q.node = request[r].node, q.hop = request[r].hop,
           q.target \notin Targets \/ Stops(q.node, q.target)
    PROVE  OneWay'
<1> SUFFICES ASSUME NEW t \in Targets
             PROVE  (\E way \in [0..HopLimit -> Node] : OnTheWay(t, way))'
  BY DEF OneWay, Targets
<1>1. PICK way \in [0..HopLimit -> Node] : OnTheWay(t, way)
  BY DEF OneWay
<1>2. \A s \in Request : request'[s] = IF s = r THEN q ELSE request[s]
  BY DEF ForwarderTypeOK
<1>3. Along(way, q, t) \/ q.target # t
  BY <1>1 DEF OnTheWay, Along
<1>4. /\ \A n, x : Stops(n, x)' <=> Stops(n, x)
      /\ nextHop' = nextHop
  BY DEF Stops, config
<1>5. OnTheWay(t, way)'
  BY <1>1, <1>2, <1>3, <1>4 DEF OnTheWay, Along
<1> QED
  BY <1>5

\* A request at the node where it enters is at the start of every way.
LEMMA StartKeepsWay ==
    ASSUME ForwarderTypeOK, OneWay, UNCHANGED config,
           NEW r \in Request, NEW q, request' = [request EXCEPT ![r] = q],
           q.node = Ingress, q.hop = 0, q.at # "executed"
    PROVE  OneWay'
<1> SUFFICES ASSUME NEW t \in Targets
             PROVE  (\E way \in [0..HopLimit -> Node] : OnTheWay(t, way))'
  BY DEF OneWay, Targets
<1>1. PICK way \in [0..HopLimit -> Node] : OnTheWay(t, way)
  BY DEF OneWay
<1>2. \A s \in Request : request'[s] = IF s = r THEN q ELSE request[s]
  BY DEF ForwarderTypeOK
<1>3. Along(way, q, t)
  BY <1>1 DEF OnTheWay, Along
<1>4. /\ \A n, x : Stops(n, x)' <=> Stops(n, x)
      /\ nextHop' = nextHop
  BY DEF Stops, config
<1>5. OnTheWay(t, way)'
  BY <1>1, <1>2, <1>3, <1>4 DEF OnTheWay, Along
<1> QED
  BY <1>5

\* The choice names a candidate, and the turn stays within the list.
LEMMA SelectedTarget ==
    ASSUME ForwarderTypeOK
    PROVE  Selected \in Targets /\ (turn + 1) % Len(Candidates) \in 0..(Len(Candidates) - 1)
<1>1. PICK n : n = Len(Candidates)
  OBVIOUS
<1>2. n \in Nat /\ n > 0 /\ turn \in 0..(n - 1)
  BY <1>1, TargetFacts DEF ForwarderTypeOK
<1>3. turn % n \in 0..(n - 1) /\ (turn + 1) % n \in 0..(n - 1)
  BY <1>2
<1>4. 1 \in DOMAIN Candidates /\ (turn % n) + 1 \in DOMAIN Candidates
  BY <1>1, <1>2, <1>3, ForwarderAssumption
<1> QED
  BY <1>1, <1>3, <1>4 DEF Selected, Targets

LEMMA LookStep ==
    ASSUME ForwarderInv, NEW r \in Request, Look(r)
    PROVE  ForwarderInv'
<1>1. /\ ForwarderTypeOK /\ RequestInv /\ RouteInv /\ OneWay
      /\ UNCHANGED <<config, turn, route>>
      /\ seen' = [seen EXCEPT ![r] = Decided]
      /\ calm' = (calm /\ \A s, t \in Choosing' : s = t)
  BY DEF ForwarderInv, Look
<1>2. /\ request[r].at = "new" /\ request[r].target = NoNode
      /\ request[r].node = Ingress /\ request[r].hop = 0
      /\ request[r] \in RequestType /\ r \notin Decided /\ r \notin Choosing
  BY <1>1 DEF Look, RequestInv, ForwarderTypeOK, RequestType, Decided, Choosing
\* Either way, what matters of the request that the lookup leaves.
<1>3. ASSUME NEW q \in RequestType, request' = [request EXCEPT ![r] = q], q.at # "new",
             OneWay',
             q.at # "chosen",
             \/ followsRoute(q.method) /\ route # NoNode /\ q.target = route /\ q.at # "choose"
             \/ /\ q.target = NoNode /\ q.node = Ingress /\ q.hop = 0 /\ q.at # "arrived"
                /\ followsRoute(q.method) \/ q.at = "choose" => route = NoNode
      PROVE  ForwarderInv'
  <2>1. \A s \in Request : /\ request'[s] = IF s = r THEN q ELSE request[s]
                           /\ seen'[s] = IF s = r THEN Decided ELSE seen[s]
    BY <1>1, <1>3 DEF ForwarderTypeOK
  <2>2. Decided \subseteq Decided' /\ Decided' \subseteq Decided \cup {r}
    BY <1>2, <2>1 DEF Decided
  <2>3. ForwarderTypeOK'
    <3>1. request' \in [Request -> RequestType]
      BY <1>1, <1>3 DEF ForwarderTypeOK, RequestType
    <3>2. seen' \in [Request -> SUBSET Request]
      BY <1>1 DEF ForwarderTypeOK, Decided
    <3>3. calm' \in BOOLEAN
      BY <1>1
    <3> QED
      BY <1>1, <3>1, <3>2, <3>3 DEF ForwarderTypeOK, RequestType, config, Targets
  <2>4. RequestInv'
    BY <1>1, <1>3, <2>1, <2>2 DEF RequestInv, config
  <2>5. RouteInv'
    <3> SUFFICES ASSUME calm' = TRUE PROVE RouteInv'
      BY <2>3 DEF RouteInv, ForwarderTypeOK
    <3>1. calm /\ route' = route /\ \A s, t \in Choosing' : s = t
      BY <1>1
    <3>2. \A s \in Decided : request[s].target = route /\ route # NoNode
      BY <1>1, <3>1 DEF RouteInv, Decided
    <3>3. Choosing' = IF q.at = "choose" THEN Choosing \cup {r} ELSE Choosing
      BY <1>2, <1>3, <2>1 DEF Choosing
    <3>4. q.at = "choose" => route = NoNode /\ Choosing = {}
      BY <1>2, <1>3, <3>1, <3>3
    <3>7. \A s \in Choosing' : route' = NoNode /\ Choosing' = {s}
      BY <1>1, <3>1, <3>3, <3>4 DEF RouteInv
    <3>5. \A s \in Decided' : request'[s].target = route'
      BY <1>3, <2>1, <3>1, <3>2 DEF Decided
    <3>6. \A s \in Request : seen'[s] # {} /\ followsRoute(request'[s].method) =>
             request'[s].target = route' /\ route' # NoNode
      BY <1>1, <1>3, <2>1, <3>1, <3>2 DEF RouteInv
    <3> QED
      BY <3>5, <3>6, <3>7 DEF RouteInv
  <2> QED
    BY <1>3, <2>3, <2>4, <2>5 DEF ForwarderInv
<1>4. PICK m \in Methods :
        IF followsRoute(m) /\ route # NoNode
        THEN ForwardTo(r, m, route)
        ELSE Put(r, [request[r] EXCEPT !.method = m,
                                       !.at = IF m = "task" THEN "choose" ELSE "executed"])
  BY DEF Look
<1>5. CASE followsRoute(m) /\ route # NoNode
  <2>1. route \in Targets
    BY <1>1, <1>5 DEF ForwarderTypeOK
  <2>2. PICK q \in RequestType :
           /\ request' = [request EXCEPT ![r] = q]
           /\ q.method = m /\ q.target = route /\ Moved(r, q, route)
    BY <1>1, <1>4, <1>5, <2>1, Forwarding
  <2>3. q.at \notin {"new", "choose", "chosen"}
    BY <2>2 DEF Moved
  <2>4. request[r].node \in router /\ request[r].node # route
    BY <1>1, <1>2, <2>1, TargetFacts DEF RequestInv
  <2>5. OneWay'
    BY <1>1, <1>2, <2>1, <2>2, <2>4, ForwardKeepsWay
  <2> QED
    BY <1>3, <1>5, <2>2, <2>3, <2>5
<1>6. CASE ~(followsRoute(m) /\ route # NoNode)
  <2>1. PICK w, at : /\ w = request[r]
                     /\ at = IF m = "task" THEN "choose" ELSE "executed"
    OBVIOUS
  <2>2. PICK q : q = [w EXCEPT !.method = m, !.at = at]
    OBVIOUS
  <2>3. at \in {"choose", "executed"}
    BY <2>1
  <2>4. /\ q \in RequestType /\ q.method = m /\ q.at = at
        /\ q.target = w.target /\ q.node = w.node /\ q.hop = w.hop
    BY <1>2, <2>1, <2>2, <2>3 DEF RequestType
  <2>5. request' = [request EXCEPT ![r] = q]
    BY <1>4, <1>6, <2>1, <2>2 DEF Put
  <2>6. OneWay'
    BY <1>1, <1>2, <2>1, <2>4, <2>5, EndKeepsWay, TargetFacts
  <2> QED
    BY <1>2, <1>3, <1>6, <2>1, <2>3, <2>4, <2>5, <2>6 DEF followsRoute
<1> QED
  BY <1>5, <1>6

\* A step that only turns the round robin.
LEMMA OtherSelectsStep ==
    ASSUME ForwarderInv, OtherSelects PROVE ForwarderInv'
<1>1. /\ ForwarderTypeOK /\ RequestInv /\ RouteInv /\ OneWay
      /\ UNCHANGED <<router, nextHop, route, request, seen, calm>>
      /\ turn' = (turn + 1) % Len(Candidates)
  BY DEF ForwarderInv, OtherSelects, NextTurn, config
<1>2. turn' \in 0..(Len(Candidates) - 1)
  BY <1>1, SelectedTarget
<1>3. OneWay'
  BY <1>1, WayUnchanged DEF config
<1>4. ForwarderTypeOK'
  BY <1>1, <1>2 DEF ForwarderTypeOK, Targets
<1>5. Decided' = Decided /\ Choosing' = Choosing
  BY <1>1 DEF Decided, Choosing
<1>6. RequestInv' /\ RouteInv'
  BY <1>1, <1>5 DEF RequestInv, RouteInv
<1> QED
  BY <1>3, <1>4, <1>6 DEF ForwarderInv

LEMMA SelectTargetStep ==
    ASSUME ForwarderInv, NEW r \in Request, SelectTarget(r)
    PROVE  ForwarderInv'
<1>1. /\ ForwarderTypeOK /\ RequestInv /\ RouteInv /\ OneWay
      /\ UNCHANGED <<config, route, seen, calm>>
  BY DEF ForwarderInv, SelectTarget
<1>2. PICK w : w = request[r]
  OBVIOUS
<1>3. /\ w.at = "choose" /\ w.target = NoNode /\ w.node = Ingress /\ w.hop = 0
      /\ w \in RequestType /\ r \in Choosing /\ r \notin Decided
  BY <1>1, <1>2 DEF SelectTarget, RequestInv, Decided, Choosing, ForwarderTypeOK, RequestType
<1>4. turn' \in 0..(Len(Candidates) - 1)
  BY <1>1, SelectedTarget DEF SelectTarget, NextTurn, ForwarderTypeOK
\* Either way, what matters of the request that the choice leaves.
<1>5. ASSUME NEW q \in RequestType, request' = [request EXCEPT ![r] = q], OneWay',
             q.method = w.method, q.node = Ingress, q.hop = 0,
             \/ q.at = "executed" /\ q.target = NoNode
             \/ q.at = "chosen" /\ q.target # NoNode
      PROVE  ForwarderInv'
  <2>1. \A s \in Request : request'[s] = IF s = r THEN q ELSE request[s]
    BY <1>1, <1>5 DEF ForwarderTypeOK
  <2>2. Decided' = Decided /\ Choosing' \subseteq Choosing
    BY <1>3, <1>5, <2>1 DEF Decided, Choosing
  <2>3. ForwarderTypeOK'
    <3>1. request' \in [Request -> RequestType]
      BY <1>1, <1>5 DEF ForwarderTypeOK, RequestType
    <3> QED
      BY <1>1, <1>4, <3>1 DEF ForwarderTypeOK, RequestType, config, Targets
  <2>4. RequestInv'
    BY <1>1, <1>5, <2>1, <2>2 DEF RequestInv, config
  <2>5. RouteInv'
    <3> SUFFICES ASSUME calm = TRUE PROVE RouteInv'
      BY <1>1 DEF RouteInv, ForwarderTypeOK
    <3>1. route = NoNode /\ Choosing = {r}
      BY <1>1, <1>3 DEF RouteInv
    <3>2. Decided = {}
      BY <1>1, <3>1 DEF RouteInv, Decided
    <3>3. \A s \in Request : seen'[s] = {}
      BY <1>1, <3>2 DEF RequestInv
    <3>4. \A s \in Choosing' : Choosing' = {s}
      BY <2>2, <3>1
    <3>5. Decided' = {} /\ route' = NoNode
      BY <1>1, <2>2, <3>1, <3>2
    <3> QED
      BY <3>3, <3>4, <3>5 DEF RouteInv
  <2> QED
    BY <2>3, <2>4, <2>5, <1>5 DEF ForwarderInv
<1>6. CASE Execute(r)
  <2>1. PICK q : q = [w EXCEPT !.at = "executed"]
    OBVIOUS
  <2>2. /\ q \in RequestType /\ q.method = w.method /\ q.at = "executed"
        /\ q.target = w.target /\ q.node = w.node /\ q.hop = w.hop
    BY <1>3, <2>1 DEF RequestType
  <2>3. request' = [request EXCEPT ![r] = q]
    BY <1>2, <1>6, <2>1 DEF Execute, Put
  <2>4. OneWay'
    BY <1>1, <1>2, <1>3, <2>2, <2>3, EndKeepsWay, TargetFacts
  <2> QED
    BY <1>3, <1>5, <2>2, <2>3, <2>4
<1>7. CASE Put(r, [request[r] EXCEPT !.at = "chosen", !.target = Selected])
  <2>1. PICK t \in Targets : t = Selected
    BY <1>1, SelectedTarget
  <2>2. PICK q : q = [w EXCEPT !.at = "chosen", !.target = t]
    OBVIOUS
  <2>3. /\ q \in RequestType /\ q.method = w.method /\ q.at = "chosen"
        /\ q.target = t /\ q.node = w.node /\ q.hop = w.hop
    BY <1>3, <2>1, <2>2 DEF RequestType
  <2>4. request' = [request EXCEPT ![r] = q]
    BY <1>2, <1>7, <2>1, <2>2 DEF Put
  <2>5. OneWay'
    BY <1>1, <1>3, <2>3, <2>4, StartKeepsWay
  <2>6. t # NoNode
    BY <2>1, TargetFacts
  <2> QED
    BY <1>3, <1>5, <2>3, <2>4, <2>5, <2>6
<1> QED
  BY <1>6, <1>7 DEF SelectTarget

LEMMA StoreRouteStep ==
    ASSUME ForwarderInv, NEW r \in Request, StoreRoute(r)
    PROVE  ForwarderInv'
<1>0. PICK t : t = request[r].target
  OBVIOUS
<1>1. /\ ForwarderTypeOK /\ RequestInv /\ RouteInv /\ OneWay
      /\ UNCHANGED <<config, turn, seen, calm>>
      /\ route' = t /\ ForwardTo(r, "task", t)
  BY <1>0 DEF ForwarderInv, StoreRoute, Stored
<1>2. /\ request[r].at = "chosen" /\ t \in Targets
      /\ request[r].node = Ingress /\ request[r].hop = 0
      /\ r \in Choosing /\ r \notin Decided
  BY <1>0, <1>1 DEF StoreRoute, RequestInv, Decided, Choosing, ForwarderTypeOK
<1>4. PICK q \in RequestType :
        /\ request' = [request EXCEPT ![r] = q]
        /\ q.method = "task" /\ q.target = t /\ Moved(r, q, t)
  BY <1>1, <1>2, Forwarding DEF Methods
<1>5. \A s \in Request : request'[s] = IF s = r THEN q ELSE request[s]
  BY <1>1, <1>4 DEF ForwarderTypeOK
<1>6. q.at \notin {"new", "choose", "chosen"}
  BY <1>4 DEF Moved
<1>7. Decided' = Decided \cup {r}
  BY <1>2, <1>4, <1>5, <1>6, TargetFacts DEF Decided
<1>8. ForwarderTypeOK'
  <2>1. request' \in [Request -> RequestType]
    BY <1>1, <1>4 DEF ForwarderTypeOK, RequestType
  <2>2. route' \in Targets \cup {NoNode}
    BY <1>1, <1>2
  <2>3. UNCHANGED <<router, nextHop, turn, seen, calm>>
    BY <1>1 DEF config
  <2> QED
    BY <1>1, <2>1, <2>2, <2>3 DEF ForwarderTypeOK, RequestType, Targets
<1>9. RequestInv'
  BY <1>1, <1>2, <1>4, <1>5, <1>6, <1>7, TargetFacts DEF RequestInv, config
<1>10. RouteInv'
  <2> SUFFICES ASSUME calm = TRUE PROVE RouteInv'
    BY <1>1 DEF RouteInv, ForwarderTypeOK
  <2>1. route = NoNode /\ Choosing = {r}
    BY <1>1, <1>2 DEF RouteInv
  <2>2. Decided = {}
    BY <1>1, <2>1 DEF RouteInv, Decided
  <2>3. \A s \in Request : seen'[s] = {}
    BY <1>1, <2>2 DEF RequestInv
  <2>4. Choosing' = {}
    BY <1>5, <1>6, <2>1 DEF Choosing
  <2>5. \A s \in Decided' : request'[s].target = route'
    BY <1>1, <1>4, <1>5, <1>7, <2>2
  <2> QED
    BY <2>3, <2>4, <2>5 DEF RouteInv
<1>11. OneWay'
  <2>1. request[r].node \in router /\ request[r].node # t
    BY <1>1, <1>2, TargetFacts DEF RequestInv
  <2> QED
    BY <1>0, <1>1, <1>2, <1>4, <2>1, ForwardKeepsWay
<1> QED
  BY <1>8, <1>9, <1>10, <1>11 DEF ForwarderInv

LEMMA ArriveStep ==
    ASSUME ForwarderInv, NEW r \in Request, Arrive(r)
    PROVE  ForwarderInv'
<1>1. /\ ForwarderTypeOK /\ RequestInv /\ RouteInv /\ OneWay
      /\ UNCHANGED <<config, turn, route, seen, calm>>
  BY DEF ForwarderInv, Arrive
<1>2. PICK w : w = request[r]
  OBVIOUS
<1>3. /\ w.at = "arrived" /\ w.target # NoNode /\ w \in RequestType
      /\ w.target \in Targets
  BY <1>1, <1>2 DEF Arrive, RequestInv, ForwarderTypeOK, RequestType
\* A request on its way keeps its method and its target.
<1>4. ASSUME NEW q \in RequestType, request' = [request EXCEPT ![r] = q],
             q.at \notin {"new", "choose", "chosen"}, q.method = w.method, q.target = w.target, OneWay'
      PROVE  ForwarderInv'
  <2>1. \A s \in Request : request'[s] = IF s = r THEN q ELSE request[s]
    BY <1>1, <1>4 DEF ForwarderTypeOK
  <2>2. Decided' = Decided /\ Choosing' = Choosing
    BY <1>2, <1>3, <1>4, <2>1 DEF Decided, Choosing
  <2>3. ForwarderTypeOK'
    <3>1. request' \in [Request -> RequestType]
      BY <1>1, <1>4 DEF ForwarderTypeOK, RequestType
    <3> QED
      BY <1>1, <3>1 DEF ForwarderTypeOK, RequestType, config, Targets
  <2>4. RequestInv'
    BY <1>1, <1>3, <1>4, <2>1, <2>2 DEF RequestInv, config
  <2>5. RouteInv'
    <3>1. \A s \in Request : /\ request'[s].target = request[s].target
                             /\ request'[s].method = request[s].method
      BY <1>2, <1>4, <2>1
    <3> QED
      BY <1>1, <2>2, <3>1 DEF RouteInv, Decided
  <2> QED
    BY <1>4, <2>3, <2>4, <2>5 DEF ForwarderInv
<1>5. CASE w.node \in router /\ w.target # w.node
  <2>1. ForwardTo(r, w.method, w.target)
    BY <1>2, <1>5 DEF Arrive
  <2>2. w.method \in Methods
    BY <1>3 DEF RequestType
  <2>3. PICK q \in RequestType :
           /\ request' = [request EXCEPT ![r] = q]
           /\ q.method = w.method /\ q.target = w.target /\ Moved(r, q, w.target)
    BY <1>1, <1>3, <2>1, <2>2, Forwarding
  <2>4. q.at \notin {"new", "choose", "chosen"}
    BY <2>3 DEF Moved
  <2>5. OneWay'
    BY <1>1, <1>2, <1>3, <1>5, <2>3, ForwardKeepsWay
  <2> QED
    BY <1>4, <2>3, <2>4, <2>5
<1>6. CASE ~(w.node \in router /\ w.target # w.node)
  <2>1. PICK q : q = [w EXCEPT !.at = "executed"]
    OBVIOUS
  <2>2. /\ q \in RequestType /\ q.method = w.method /\ q.at = "executed"
        /\ q.target = w.target /\ q.node = w.node /\ q.hop = w.hop
    BY <1>3, <2>1 DEF RequestType
  <2>3. request' = [request EXCEPT ![r] = q]
    BY <1>2, <1>6, <2>1 DEF Arrive, Execute, Put
  <2>4. Stops(q.node, q.target)
    BY <1>6, <2>2 DEF Stops
  <2>5. OneWay'
    BY <1>1, <1>2, <2>2, <2>3, <2>4, EndKeepsWay
  <2> QED
    BY <1>4, <2>2, <2>3, <2>5
<1> QED
  BY <1>5, <1>6

LEMMA ForwarderInvStep == ForwarderInv /\ [ForwarderNext]_forwarderVars => ForwarderInv'
<1> SUFFICES ASSUME ForwarderInv, [ForwarderNext]_forwarderVars PROVE ForwarderInv'
  OBVIOUS
<1>1. CASE UNCHANGED forwarderVars
  <2>1. OneWay'
    BY <1>1, WayUnchanged DEF forwarderVars, config, ForwarderInv
  <2>2. UNCHANGED <<router, nextHop, turn, route, request, seen, calm>>
    BY <1>1 DEF forwarderVars
  <2>3. ForwarderTypeOK'
    BY <2>2 DEF ForwarderInv, ForwarderTypeOK, Targets
  <2>4. Decided' = Decided /\ Choosing' = Choosing
    BY <2>2 DEF Decided, Choosing
  <2>5. RequestInv' /\ RouteInv'
    BY <2>2, <2>4 DEF ForwarderInv, RequestInv, RouteInv
  <2> QED
    BY <2>1, <2>3, <2>5 DEF ForwarderInv
<1>2. CASE RouteExpires
  <2>1. OneWay'
    BY <1>2, WayUnchanged DEF RouteExpires, ForwarderInv
  <2>2. UNCHANGED <<router, nextHop, turn, request, seen>> /\ route' = NoNode /\ calm' = FALSE
    BY <1>2 DEF RouteExpires, config
  <2> QED
    BY <2>1, <2>2 DEF ForwarderInv, ForwarderTypeOK, RequestInv, RouteInv, Decided, Targets
<1> QED
  BY <1>1, <1>2, LookStep, SelectTargetStep, StoreRouteStep, OtherSelectsStep, ArriveStep
     DEF ForwarderNext, Handle

\* Hop counters, routes and the round robin stay in their ranges.
THEOREM ForwarderTypes == ForwarderSpec => []ForwarderTypeOK
<1>1. ForwarderInv => ForwarderTypeOK
  BY DEF ForwarderInv
<1> QED
  BY <1>1, ForwarderInvInit, ForwarderInvStep, PTL DEF ForwarderSpec

\* A session stays on its node, whatever the tables of next hops: the requests for
\* one target share one way, and a way has one end.
THEOREM SessionsStay == ForwarderSpec => []SessionStaysOnItsNode
<1>1. ForwarderInv => SessionStaysOnItsNode
  <2> SUFFICES ASSUME ForwarderInv, calm, NEW r \in Request, NEW s \in seen[r],
                      request[r].method \in {"task", "followUp"},
                      request[r].at = "executed", request[s].at = "executed"
               PROVE  request[r].node = request[s].node
    BY DEF SessionStaysOnItsNode
  <2>1. ForwarderTypeOK /\ RequestInv /\ RouteInv /\ OneWay
    BY DEF ForwarderInv
  <2>2. s \in Decided /\ s \in Request
    BY <2>1 DEF RequestInv, Decided
  <2>3. request[r].target = route /\ request[s].target = route /\ route \in Targets
    BY <2>1, <2>2 DEF RouteInv, followsRoute, ForwarderTypeOK
  <2>4. PICK way \in [0..HopLimit -> Node] : OnTheWay(route, way)
    BY <2>1, <2>3 DEF OneWay
  <2>5. PICK h, k : h = request[r].hop /\ k = request[s].hop
    OBVIOUS
  <2>6. h \in Nat /\ k \in Nat
    BY <2>1, <2>2, <2>5, ForwarderAssumption DEF ForwarderTypeOK
  <2>7. /\ request[r].node = way[h] /\ Stops(way[h], route)
        /\ request[s].node = way[k] /\ Stops(way[k], route)
        /\ \A i \in 0..(h - 1) : ~Stops(way[i], route)
        /\ \A i \in 0..(k - 1) : ~Stops(way[i], route)
    BY <2>2, <2>3, <2>4, <2>5 DEF OnTheWay, Along
  <2>8. h = k
    <3>1. h \notin 0..(k - 1) /\ k \notin 0..(h - 1)
      BY <2>7
    <3> QED
      BY <2>6, <3>1
  <2> QED
    BY <2>7, <2>8
<1> QED
  BY <1>1, ForwarderInvInit, ForwarderInvStep, PTL DEF ForwarderSpec

-----------------------------------------------------------------------------
(* StreamFrontEnd *)

\* The goroutine at the write itself is the one that holds the mutex.
MutexIsWriter ==
    /\ mutex \in Goroutine \cup {"none"}
    /\ writer \in [Goroutine -> [at : {"idle", "check", "lock", "write"}, event : Event \cup {"none"}]]
    /\ \A g \in Goroutine : mutex = g <=> writer[g].at = "write"

\* Only a request that asked for a stream has writers, a ticker and failures.
OnlyStreams ==
    /\ \A g \in Goroutine : Writing(g) => Streaming
    /\ ticker \in {"on", "stopping"} => Streaming
    /\ failed > 0 => Streaming

\* A handler that returned from a stream closed it, in no write of its own.
ReturnedIsClosed ==
    step = "returned" => ~Writing("handler") /\ (Streaming => stream = "closed")

\* Before the return no write is stray; after one the mutex is never taken again.
StrayIsLast ==
    /\ stray \in Nat
    /\ failed \in Nat
    /\ step # "returned" => stray = 0
    /\ stray > 0 => stray = 1 /\ mutex = "none" /\ stream = "closed"

\* A failed write closed the stream and released the mutex.
TornIsClosed == failed > 0 => stream = "closed" /\ mutex = "none"

\* What each step of the handler knows of the request.
StepsAgree ==
    /\ {"accept", "id"} \subseteq DOMAIN rpc
    /\ step = "new" => /\ ~Streaming /\ ticker = "off" /\ failed = 0 /\ out = <<>>
                       /\ \A g \in Goroutine : ~Writing(g)
    /\ step \in {"answering", "finishing"} => Streaming
    /\ step = "closing" => ~Streaming /\ ~Writing("handler")

StreamInv ==
    MutexIsWriter /\ OnlyStreams /\ ReturnedIsClosed /\ StrayIsLast /\ TornIsClosed /\ StepsAgree

\* A stream starts open, unlocked and without writers.
LEMMA StreamInitial == StreamInit => StreamInv
<1> SUFFICES ASSUME StreamInit PROVE StreamInv
  OBVIOUS
<1> USE DEF StreamInit, Goroutine, Event, Notification, Idle, Writing, Streaming
<1>1. MutexIsWriter
  BY DEF MutexIsWriter
<1>2. OnlyStreams
  BY DEF OnlyStreams, NoRequest
<1>3. ReturnedIsClosed
  BY DEF ReturnedIsClosed, NoRequest
<1>4. StrayIsLast
  BY DEF StrayIsLast
<1>5. TornIsClosed
  BY DEF TornIsClosed
<1>6. StepsAgree
  BY DEF StepsAgree, NoRequest
<1> QED
  BY <1>1, <1>2, <1>3, <1>4, <1>5, <1>6 DEF StreamInv

\* Every step of the handler, of the ticker, of a session and of the client keeps
\* the invariant of the stream.
LEMMA StreamStep == StreamInv /\ [StreamNext]_streamVars => StreamInv'
<1> SUFFICES ASSUME StreamInv, [StreamNext]_streamVars PROVE StreamInv'
  OBVIOUS
<1> USE DEF StreamInv, MutexIsWriter, OnlyStreams, ReturnedIsClosed, StrayIsLast, TornIsClosed,
            StepsAgree, Goroutine, Event, Notification, Idle, Writing, Streaming
<1>1. CASE RefuseRequest
  BY <1>1 DEF RefuseRequest
<1>2. CASE AcceptRequest
  BY <1>2 DEF AcceptRequest, BeginWrite
<1>3. CASE StartKeepalive
  BY <1>3 DEF StartKeepalive
<1>4. CASE Keepalive
  BY <1>4 DEF Keepalive, BeginWrite
<1>5. CASE HandlerReturns
  <2>1. rpc'.accept = rpc.accept /\ {"accept", "id"} \subseteq DOMAIN rpc'
    BY <1>5 DEF HandlerReturns
  <2>2. CASE Streaming
    BY <1>5, <2>1, <2>2 DEF HandlerReturns, BeginWrite
  <2>3. CASE ~Streaming
    BY <1>5, <2>1, <2>3 DEF HandlerReturns
  <2> QED
    BY <2>2, <2>3
<1>6. CASE WriteDone
  BY <1>6 DEF WriteDone, BeginWrite
<1>7. CASE CloseStream
  BY <1>7 DEF CloseStream
<1>8. CASE ClientGone
  BY <1>8 DEF ClientGone
<1>9. ASSUME NEW g \in Goroutine, CheckStream(g) PROVE StreamInv'
  BY <1>9 DEF CheckStream, Refused, EndWrite
<1>10. ASSUME NEW g \in Goroutine, LockStream(g) PROVE StreamInv'
  BY <1>10 DEF LockStream, Refused, EndWrite
<1>11. ASSUME NEW g \in Goroutine, WriteStream(g) PROVE StreamInv'
  BY <1>11 DEF WriteStream, Refused, EndWrite
<1>12. ASSUME NEW g \in Goroutine, NEW n \in Notification, WriteNotification(g, n)
       PROVE  StreamInv'
  BY <1>12 DEF WriteNotification, BeginWrite, Dropped
<1>13. CASE UNCHANGED streamVars
  BY <1>13 DEF streamVars
<1> QED
  BY <1>1, <1>2, <1>3, <1>4, <1>5, <1>6, <1>7, <1>8, <1>9, <1>10, <1>11, <1>12, <1>13 DEF StreamNext

\* The answer before [DONE].

HasAnswer == \E i \in DOMAIN out : out[i] = "answer"
Wanted == rpc.id = "given"

\* Answer and [DONE] are written by the handler at their steps, and where the
\* step of the answer is over without an answer the stream is closed.
AnswerInv ==
    /\ out \in Seq(Event)
    /\ \A g \in Goroutine :
          /\ writer[g].event = "answer" => g = "handler" /\ step = "answering"
          /\ writer[g].event = "done" => g = "handler" /\ step = "finishing"
          /\ Writing(g) <=> writer[g].event # "none"
    /\ step = "answering" /\ ~Writing("handler") => HasAnswer \/ stream = "closed"
    /\ step = "answering" /\ Writing("handler") => writer["handler"].event = "answer"
    /\ step = "finishing" /\ Wanted => HasAnswer \/ stream = "closed"
    /\ writer["handler"].at = "write" /\ writer["handler"].event = "done" /\ Wanted => HasAnswer
    /\ DoneFollowsAnswer

\* Nothing has been written when a request arrives.
LEMMA AnswerInitial == StreamInit => AnswerInv
  BY DEF StreamInit, AnswerInv, HasAnswer, Wanted, DoneFollowsAnswer, Goroutine, Idle, Writing,
         NoRequest, Event

\* Appending an event keeps the answer, and keeps it before every [DONE] when the
\* event is not [DONE] or the answer is already there.
LEMMA AppendKeepsOrder ==
  ASSUME out \in Seq(Event), NEW e \in Event, out' = Append(out, e),
         DoneFollowsAnswer, Wanted' <=> Wanted, e = "done" /\ Wanted => HasAnswer
  PROVE  /\ out' \in Seq(Event) /\ DoneFollowsAnswer'
         /\ HasAnswer => HasAnswer'
         /\ e = "answer" => HasAnswer'
<1>1. /\ out' \in Seq(Event)
      /\ DOMAIN out = 1..Len(out) /\ Len(out) \in Nat
      /\ DOMAIN out' = 1..(Len(out) + 1)
      /\ \A i \in DOMAIN out : out'[i] = out[i]
      /\ out'[Len(out) + 1] = e
  OBVIOUS
<1>2. (HasAnswer => HasAnswer') /\ (e = "answer" => HasAnswer')
  BY <1>1 DEF HasAnswer
<1>3. DoneFollowsAnswer'
  <2> SUFFICES ASSUME NEW i \in DOMAIN out', out'[i] = "done", Wanted'
               PROVE  \E j \in 1..(i - 1) : out'[j] = "answer"
    BY DEF DoneFollowsAnswer, Wanted
  <2>1. CASE i \in DOMAIN out
    <3>1. PICK j \in 1..(i - 1) : out[j] = "answer"
      BY <1>1, <2>1 DEF DoneFollowsAnswer, Wanted
    <3> QED
      BY <1>1, <2>1, <3>1
  <2>2. CASE i = Len(out) + 1
    <3>1. PICK j \in DOMAIN out : out[j] = "answer"
      BY <1>1, <2>2 DEF HasAnswer
    <3> QED
      BY <1>1, <2>2, <3>1
  <2> QED
    BY <1>1, <2>1, <2>2
<1> QED
  BY <1>1, <1>2, <1>3

\* Every step keeps answer and [DONE] in their order.
LEMMA AnswerStep == StreamInv /\ AnswerInv /\ [StreamNext]_streamVars => AnswerInv'
<1> SUFFICES ASSUME StreamInv, AnswerInv, [StreamNext]_streamVars PROVE AnswerInv'
  OBVIOUS
<1> USE DEF StreamInv, MutexIsWriter, StepsAgree, AnswerInv, Goroutine, Event, Notification, Idle,
            Writing, Streaming
<1>0. ASSUME UNCHANGED <<rpc, out>>
      PROVE  (Wanted' <=> Wanted) /\ (HasAnswer' <=> HasAnswer) /\ (DoneFollowsAnswer' <=> DoneFollowsAnswer)
  BY <1>0 DEF Wanted, HasAnswer, DoneFollowsAnswer
<1>1. CASE RefuseRequest
  BY <1>0, <1>1 DEF RefuseRequest
<1>2. CASE AcceptRequest
  BY <1>2 DEF AcceptRequest, BeginWrite, HasAnswer, DoneFollowsAnswer
<1>3. CASE StartKeepalive
  BY <1>0, <1>3 DEF StartKeepalive
<1>4. CASE Keepalive
  BY <1>0, <1>4 DEF Keepalive, BeginWrite
<1>5. CASE HandlerReturns
  <2>1. Wanted' <=> Wanted
    BY <1>5 DEF HandlerReturns, Wanted
  <2>2. CASE Streaming
    BY <1>5, <2>1, <2>2 DEF HandlerReturns, BeginWrite, Wanted, HasAnswer, DoneFollowsAnswer
  <2>3. CASE ~Streaming /\ Wanted
    <3>1. out' = Append(out, "answer")
      BY <1>5, <2>3 DEF HandlerReturns, Wanted
    <3>2. out' \in Seq(Event) /\ DoneFollowsAnswer'
      BY <2>1, <3>1, AppendKeepsOrder
    <3> QED
      BY <1>5, <2>3, <3>2 DEF HandlerReturns, OnlyStreams
  <2>4. CASE ~Streaming /\ ~Wanted
    BY <1>5, <2>1, <2>4 DEF HandlerReturns, OnlyStreams, Wanted, DoneFollowsAnswer
  <2> QED
    BY <2>2, <2>3, <2>4
<1>6. CASE WriteDone
  BY <1>0, <1>6 DEF WriteDone, BeginWrite
<1>7. CASE CloseStream
  BY <1>0, <1>7 DEF CloseStream
<1>8. CASE ClientGone
  BY <1>0, <1>8 DEF ClientGone
<1>9. ASSUME NEW g \in Goroutine, CheckStream(g) PROVE AnswerInv'
  BY <1>0, <1>9 DEF CheckStream, Refused, EndWrite
<1>10. ASSUME NEW g \in Goroutine, LockStream(g) PROVE AnswerInv'
  BY <1>0, <1>10 DEF LockStream, Refused, EndWrite
<1>11. ASSUME NEW g \in Goroutine, WriteStream(g) PROVE AnswerInv'
  <2>1. CASE UNCHANGED out /\ stream' = "closed"
    BY <1>0, <1>11, <2>1 DEF WriteStream, Refused, EndWrite
  <2>2. CASE out' = Append(out, writer[g].event) /\ EndWrite(g)
    <3>1. writer[g].event \in Event
      BY <1>11 DEF WriteStream
    <3>2. writer[g].event = "done" /\ Wanted => HasAnswer
      BY <1>11 DEF WriteStream
    <3>3. Wanted' <=> Wanted
      BY <1>11 DEF WriteStream, Wanted
    <3>4. /\ out' \in Seq(Event) /\ DoneFollowsAnswer'
          /\ HasAnswer => HasAnswer'
          /\ writer[g].event = "answer" => HasAnswer'
      BY <2>2, <3>1, <3>2, <3>3, AppendKeepsOrder
    <3> QED
      BY <1>11, <2>2, <3>3, <3>4 DEF WriteStream, EndWrite
  <2> QED
    BY <1>11, <2>1, <2>2 DEF WriteStream
<1>12. ASSUME NEW g \in Goroutine, NEW n \in Notification, WriteNotification(g, n)
       PROVE  AnswerInv'
  BY <1>0, <1>12 DEF WriteNotification, BeginWrite, Dropped
<1>13. CASE UNCHANGED streamVars
  BY <1>0, <1>13 DEF streamVars
<1> QED
  BY <1>1, <1>2, <1>3, <1>4, <1>5, <1>6, <1>7, <1>8, <1>9, <1>10, <1>11, <1>12, <1>13 DEF StreamNext

\* After the handler returned at most one more write touches the ResponseWriter,
\* whatever keepalives and sessions write and however long they wait.
THEOREM StrayWritesAreBounded == StreamSpec => []OneStrayWrite
<1>1. StreamInv => OneStrayWrite
  BY DEF StreamInv, StrayIsLast, OneStrayWrite
<1> QED
  BY StreamInitial, StreamStep, <1>1, PTL DEF StreamSpec

\* A client that reads [DONE] on a stream has read the answer before it.
THEOREM AnswerPrecedesDone == StreamSpec => []DoneFollowsAnswer
<1>1. AnswerInv => DoneFollowsAnswer
  BY DEF AnswerInv
<1> QED
  BY StreamInitial, StreamStep, AnswerInitial, AnswerStep, <1>1, PTL DEF StreamSpec

\* After a failed write no goroutine writes to the stream again.
THEOREM FailureIsLast == StreamSpec => NothingAfterFailure
<1>1. StreamInv /\ [StreamNext]_streamVars => [failed > 0 => out' = out]_streamVars
  <2> SUFFICES ASSUME StreamInv, StreamNext, failed > 0 PROVE out' = out
    BY DEF streamVars
  <2> USE DEF StreamInv, OnlyStreams, TornIsClosed, MutexIsWriter
  <2>1. CASE HandlerReturns
    BY <2>1 DEF HandlerReturns
  <2>2. ASSUME NEW g \in Goroutine, WriteStream(g) PROVE out' = out
    BY <2>2 DEF WriteStream, Goroutine
  <2>3. CASE ~HandlerReturns /\ ~\E g \in Goroutine : WriteStream(g)
    BY <2>3 DEF StreamNext, RefuseRequest, AcceptRequest, StartKeepalive, Keepalive, WriteDone,
                CloseStream, ClientGone, CheckStream, LockStream, WriteNotification
  <2> QED
    BY <2>1, <2>2, <2>3
<1> QED
  BY StreamInitial, StreamStep, <1>1, PTL DEF StreamSpec, NothingAfterFailure

\* The steps of handler and ticker and the two flags of the stream.
StepTypes ==
    /\ step \in {"new", "accepted", "handling", "answering", "finishing", "closing", "returned"}
    /\ stream \in {"open", "closed"} /\ reqCtx \in {"live", "done"}
    /\ ticker \in {"off", "on", "stopping", "ended"}

\* Every step leaves the handler, the ticker and the flags at one of their values.
LEMMA StepTypesKept == StepTypes /\ [StreamNext]_streamVars => StepTypes'
<1> SUFFICES ASSUME StepTypes, [StreamNext]_streamVars PROVE StepTypes'
  OBVIOUS
<1> USE DEF StepTypes
<1>1. CASE RefuseRequest \/ AcceptRequest \/ StartKeepalive
  BY <1>1 DEF RefuseRequest, AcceptRequest, StartKeepalive
<1>2. CASE Keepalive \/ HandlerReturns
  BY <1>2 DEF Keepalive, HandlerReturns
<1>3. CASE WriteDone \/ CloseStream \/ ClientGone
  BY <1>3 DEF WriteDone, CloseStream, ClientGone
<1>4. ASSUME NEW g \in Goroutine, CheckStream(g) \/ LockStream(g) \/ WriteStream(g)
      PROVE  StepTypes'
  BY <1>4 DEF CheckStream, LockStream, WriteStream, Refused
<1>5. ASSUME NEW g \in Goroutine, NEW n \in Notification, WriteNotification(g, n)
      PROVE  StepTypes'
  BY <1>5 DEF WriteNotification
<1>6. CASE UNCHANGED streamVars
  BY <1>6 DEF streamVars
<1> QED
  BY <1>1, <1>2, <1>3, <1>4, <1>5, <1>6 DEF StreamNext

\* Handler, ticker, writers and output of a request are well typed, and exactly the
\* goroutine at the write holds the mutex of the stream.
THEOREM StreamTypes == StreamSpec => []StreamTypeOK
<1>1. StreamInit => StepTypes
  BY DEF StreamInit, StepTypes
<1>2. StreamInv /\ AnswerInv /\ StepTypes => StreamTypeOK
  <2> SUFFICES ASSUME StreamInv, AnswerInv, StepTypes PROVE StreamTypeOK
    OBVIOUS
  <2>1. \A g \in Goroutine : /\ writer[g].at \in {"idle", "check", "lock", "write"}
                             /\ mutex = g <=> writer[g].at = "write"
    BY DEF StreamInv, MutexIsWriter
  <2> QED
    BY <2>1 DEF StreamInv, MutexIsWriter, StrayIsLast, AnswerInv, StepTypes, StreamTypeOK
<1> QED
  BY <1>1, <1>2, StreamInitial, StreamStep, AnswerInitial, AnswerStep, StepTypesKept, PTL
     DEF StreamSpec

\* What the endpoint makes of a request's params.
LEMMA ForcedParams ==
    ASSUME NEW n, NEW p \in ParamsWith(n)
    PROVE  /\ forceOpenClawGatewayRequest(p)["routing.explicitExecutionTarget"] = "gateway"
           /\ forceOpenClawGatewayRequest(p)["routing.preferredGatewayProviderId"] = "openclaw"
<1>1. DOMAIN p = Key
  <2> DEFINE Given(K) ==
               {[k \in Key |-> IF k \in K THEN f[k] ELSE ""] :
                  f \in {g \in [K -> UNION {Values(k) : k \in K}] : \A k \in K : g[k] \in Values(k)}}
  <2>1. p \in UNION {Given(K) : K \in {K \in SUBSET Key : Cardinality(K) <= n}}
    BY Zenon DEF ParamsWith
  <2>2. ASSUME NEW K, p \in Given(K) PROVE DOMAIN p = Key
    <3>1. PICK f : p = [k \in Key |-> IF k \in K THEN f[k] ELSE ""]
      BY <2>2, Zenon
    <3> QED
      BY <3>1, Zenon
  <2> HIDE DEF Given
  <2>3. \E K : p \in Given(K)
    BY <2>1, Zenon
  <2> QED
    BY <2>2, <2>3
<1>2. /\ "routing.explicitExecutionTarget" \in DOMAIN p
      /\ "routing.preferredGatewayProviderId" \in DOMAIN p
  BY <1>1 DEF Key, RoutingKey, RoutingGatewayKey
<1> QED
  BY <1>2 DEF forceOpenClawGatewayRequest

\* The resolver sends a request with this target and this preference to OpenClaw, or
\* refuses it for its role.
LEMMA ForcedRoute ==
    ASSUME NEW q, NEW w,
           q["routing.explicitExecutionTarget"] = "gateway",
           q["routing.preferredGatewayProviderId"] = "openclaw"
    PROVE  \/ Resolve(q, w).status = "unavailable" /\ Resolve(q, w).target = ""
           \/ Resolve(q, w).target = "gateway" /\ Resolve(q, w).gateway = "openclaw"
<1>1. \A b : FirstSet("gateway", b) = "gateway" /\ FirstSet("openclaw", b) = "openclaw"
  BY Zenon DEF FirstSet
<1>2. CASE q["routing.role"] # ""
  <2>1. Resolve(q, w) = Unresolved("unavailable")
    BY <1>2, Zenon DEF Resolve
  <2>2. PICK e : e = ""
    OBVIOUS
  <2>3. Resolve(q, w) = [status |-> "unavailable", target |-> e, provider |-> e, gateway |-> e]
    BY <2>1, <2>2, Zenon DEF Unresolved
  <2>4. Resolve(q, w).status = "unavailable" /\ Resolve(q, w).target = e
    BY <2>3
  <2> QED
    BY <2>2, <2>4, Zenon
<1>3. CASE q["routing.role"] = ""
  <2>1. Resolve(q, w) =
          ResolveRequest("gateway", "openclaw", q["routing.explicitProviderId"], w)
    BY <1>1, <1>3, Zenon DEF Resolve
  <2>2. resolveExecution("gateway", w) = "gateway"
    BY Zenon DEF resolveExecution, mapExplicitTarget
  <2>3. resolveGatewayProvider("openclaw", w) = "openclaw"
    BY Zenon DEF resolveGatewayProvider, normalizeGatewayProvider
  <2>4. PICK outcome, provider :
           Resolve(q, w) = [status |-> outcome, target |-> "gateway", provider |-> provider,
                            gateway |-> "openclaw"]
    BY <2>1, <2>2, <2>3, Zenon DEF ResolveRequest
  <2>5. Resolve(q, w).target = "gateway" /\ Resolve(q, w).gateway = "openclaw"
    BY <2>4
  <2> QED
    BY <2>5, Zenon
<1> QED
  BY <1>2, <1>3

\* A request to /gateway/openclaw runs on OpenClaw, whatever keys it carries, what the
\* prompt looks like and what the environment and the memory prefer.
THEOREM OpenClawEndpointHolds == StreamSpec => []EndpointRunsOnOpenClaw
<1>1. StreamInit => EndpointRunsOnOpenClaw
  BY DEF StreamInit, NoRequest, EndpointRunsOnOpenClaw
<1>2. EndpointRunsOnOpenClaw /\ [StreamNext]_streamVars => EndpointRunsOnOpenClaw'
  <2> SUFFICES ASSUME EndpointRunsOnOpenClaw, [StreamNext]_streamVars
               PROVE  EndpointRunsOnOpenClaw'
    OBVIOUS
  <2>1. CASE AcceptRequest
    <3> SUFFICES ASSUME rpc'.endpoint = "/gateway/openclaw"
                 PROVE  \/ rpc'.route.status = "unavailable" /\ rpc'.route.target = ""
                        \/ rpc'.route.target = "gateway" /\ rpc'.route.gateway = "openclaw"
      BY DEF EndpointRunsOnOpenClaw
    <3> DEFINE Sent(p, endpoint) ==
                 IF endpoint = "/gateway/openclaw" THEN forceOpenClawGatewayRequest(p) ELSE p
               Routes(p, endpoint, method) ==
                 IF method = "session.start" THEN {Resolve(Sent(p, endpoint), w) : w \in World}
                 ELSE {Unresolved("none")}
               Task(p, endpoint) ==
                 IF requestUsesOpenClawGatewaySubmit(Sent(p, endpoint)) THEN "openclaw" ELSE "other"
    <3>0. PICK p \in ParamsWith(MaxKeys), method \in RPCMethods, id \in {"none", "given"},
               endpoint \in {"/acp/rpc", "/gateway/openclaw"}, accept \in {"json", "events"} :
             /\ endpoint = "/gateway/openclaw" =>
                   method = "session.start" /\ ~ConflictsWithOpenClaw(p)
             /\ \E answer \in Routes(p, endpoint, method) :
                   rpc' = [endpoint |-> endpoint, method |-> method, id |-> id, accept |-> accept,
                           task |-> Task(p, endpoint), route |-> answer]
             /\ IF accept = "events" /\ Task(p, endpoint) = "openclaw"
                THEN BeginWrite("handler", "accepted") ELSE UNCHANGED writer
      BY <2>1, Zenon DEF AcceptRequest
    <3>a. PICK task, answer :
             /\ answer \in Routes(p, endpoint, method)
             /\ rpc' = [endpoint |-> endpoint, method |-> method, id |-> id,
                        accept |-> accept, task |-> task, route |-> answer]
      <4>1. PICK task : task = Task(p, endpoint)
        OBVIOUS
      <4> QED
        BY <3>0, <4>1, Zenon
    <3>1. /\ endpoint = "/gateway/openclaw" =>
                \E w \in World : answer = Resolve(forceOpenClawGatewayRequest(p), w)
          /\ p \in ParamsWith(MaxKeys)
          /\ rpc' = [endpoint |-> endpoint, method |-> method, id |-> id,
                     accept |-> accept, task |-> task, route |-> answer]
      BY <3>0, <3>a, Zenon
    <3>2. rpc'.endpoint = endpoint /\ rpc'.route = answer
      <4>1. PICK r : r = rpc'
        OBVIOUS
      <4>2. r.endpoint = endpoint /\ r.route = answer
        BY <3>1, <4>1
      <4> QED
        BY <4>1, <4>2
    <3>3. PICK w \in World : answer = Resolve(forceOpenClawGatewayRequest(p), w)
      BY <3>1, <3>2
    <3> QED
      BY <3>1, <3>2, <3>3, ForcedParams, ForcedRoute, Zenon
  <2>2. CASE UNCHANGED rpc /\ (step' = step \/ step' \notin {"accepted", "handling"}
                               \/ step = "accepted")
    BY <2>2, Zenon DEF EndpointRunsOnOpenClaw
  <2>3. CASE HandlerReturns
    <3>1. step' \notin {"accepted", "handling"}
      BY <2>3 DEF HandlerReturns
    <3> QED
      BY <3>1 DEF EndpointRunsOnOpenClaw
  <2>4. \/ AcceptRequest \/ HandlerReturns
        \/ UNCHANGED rpc /\ (step' = step \/ step' \notin {"accepted", "handling"}
                             \/ step = "accepted")
    BY DEF StreamNext, RefuseRequest, StartKeepalive, Keepalive, WriteDone, CloseStream,
           ClientGone, CheckStream, LockStream, WriteStream, WriteNotification, streamVars
  <2> QED
    BY <2>1, <2>2, <2>3, <2>4
<1> QED
  BY <1>1, <1>2, PTL DEF StreamSpec

-----------------------------------------------------------------------------
(* JobManager: for any set of jobs and any limits of the gate *)

\* A step of the jobs is a step of the gate or leaves the gate alone.
LEMMA JobsStepTheGate == [JobsNext]_jobsVars => [GateNext]_gateVars
<1> SUFFICES ASSUME [JobsNext]_jobsVars PROVE [GateNext]_gateVars
  OBVIOUS
<1>1. ASSUME NEW j \in Turn, PassGate(j) PROVE GateNext
  BY <1>1 DEF PassGate, GateNext
<1>2. ASSUME NEW j \in Turn,
             Submit(j) \/ Enter(j) \/ TimePasses(j) \/ SetRunning(j) \/ RunEnds(j)
      PROVE  UNCHANGED gateVars
  BY <1>2 DEF Submit, Enter, TimePasses, SetRunning, RunEnds
<1>3. ASSUME NEW j \in Turn, SendCallbacks(j) PROVE UNCHANGED gateVars
  BY <1>3 DEF SendCallbacks, Encode, Post
<1>4. ASSUME ReadTable PROVE UNCHANGED gateVars
  BY <1>4 DEF ReadTable
<1>5. ASSUME UNCHANGED jobsVars PROVE UNCHANGED gateVars
  BY <1>5 DEF jobsVars
<1> QED
  BY <1>1, <1>2, <1>3, <1>4, <1>5 DEF JobsNext, Run

\* Jobs that are routed to the gateway implement the gate, although the sweep
\* fails them while they wait and nobody tells their goroutines.
THEOREM JobsImplementGate == JobsSpec => GateSpec
<1>1. JobsInit => GateInit
  BY DEF JobsInit
<1> QED
  BY <1>1, JobsStepTheGate, PTL DEF JobsSpec, GateSpec

\* A job that is failed by the sweep, revived or refused gives its slot back all
\* the same: the slots are those of the jobs between admission and release.
THEOREM JobsKeepSlots == JobsSpec => []SlotsMatchHolders
  BY JobsImplementGate, SlotsAreExact, PTL

\* The queue counts the waiting jobs, whatever became of them in the table.
THEOREM JobsKeepQueue == JobsSpec => []QueueMatchesWaiters
  BY JobsImplementGate, QueueIsExact, PTL

---------------------------------------------------------------------------
\* Only the goroutine of a job completes it, as its last step; until a job is
\* submitted it has no goroutine.
CompletedHasEnded ==
    /\ status \in [Turn -> Unfinished \cup Ended \cup {NoStatus}]
    /\ runner \in [Turn -> {"none", "submitting", "spawned", "agent", "gateway", "ended"}]
    /\ \A j \in Turn : /\ status[j] = "completed" => runner[j] = "ended"
                       /\ runner[j] \in {"none", "submitting"} => status[j] = NoStatus

\* What a client saw completed stays so: the sweep passes over it, and its
\* goroutine, which could write the status again, has ended.
THEOREM CompletedStays == JobsSpec => CompletedIsFinal
<1> USE DEF CompletedHasEnded, Unfinished, Ended
<1>1. JobsInit => CompletedHasEnded
  BY JobsAssumption DEF JobsInit
<1>2. CompletedHasEnded /\ [JobsNext]_jobsVars =>
        /\ CompletedHasEnded'
        /\ [\A j \in Turn : status[j] = "completed" => status'[j] = "completed"]_jobsVars
  <2> SUFFICES ASSUME CompletedHasEnded, [JobsNext]_jobsVars
               PROVE  /\ CompletedHasEnded'
                      /\ \A j \in Turn : status[j] = "completed" => status'[j] = "completed"
    OBVIOUS
  <2>1. \A j \in Turn : failStuck(status)[j] \in {status[j], "failed"}
                        /\ (status[j] \in {"completed", NoStatus} => failStuck(status)[j] = status[j])
    BY JobsAssumption DEF failStuck, Stuck
  <2>2. ASSUME NEW j \in Turn, Submit(j) \/ Enter(j)
        PROVE  CompletedHasEnded' /\ \A i \in Turn : status[i] = "completed" => status'[i] = "completed"
    <3>1. CASE Submit(j)
      <4>1. /\ status' = failStuck(status) /\ runner[j] = "none"
            /\ runner' = [runner EXCEPT ![j] = "submitting"]
            /\ status' \in [Turn -> Unfinished \cup Ended \cup {NoStatus}]
        BY <3>1 DEF Submit, failStuck
      <4> QED
        BY <2>1, <4>1, JobsAssumption
    <3>2. CASE Enter(j)
      BY <3>2, JobsAssumption DEF Enter
    <3> QED
      BY <2>2, <3>1, <3>2
  <2>3. CASE ReadTable
    <3>1. /\ status' = failStuck(status) /\ UNCHANGED runner
          /\ status' \in [Turn -> Unfinished \cup Ended \cup {NoStatus}]
      BY <2>3 DEF ReadTable, failStuck
    <3> QED
      BY <2>1, <3>1, JobsAssumption
  <2>4. ASSUME NEW j \in Turn, TimePasses(j) \/ PassGate(j) \/ SendCallbacks(j)
        PROVE  UNCHANGED <<status, runner>>
    BY <2>4 DEF TimePasses, PassGate, SendCallbacks, Encode, Post, jobVars
  <2>5. ASSUME NEW j \in Turn, SetRunning(j)
        PROVE  CompletedHasEnded' /\ \A i \in Turn : status[i] = "completed" => status'[i] = "completed"
    BY <2>5 DEF SetRunning
  <2>6. ASSUME NEW j \in Turn, RunEnds(j)
        PROVE  CompletedHasEnded' /\ \A i \in Turn : status[i] = "completed" => status'[i] = "completed"
    <3>1. PICK outcome \in ProcessReturns(j) : status' = [status EXCEPT ![j] = outcome]
      BY <2>6 DEF RunEnds, EndedAs
    <3>2. outcome \in Ended /\ runner[j] \in {"agent", "gateway"}
      BY <3>1 DEF ProcessReturns
    <3> QED
      BY <2>6, <3>1, <3>2 DEF RunEnds
  <2>7. CASE UNCHANGED jobsVars
    BY <2>7 DEF jobsVars, jobVars
  <2> QED
    BY <2>2, <2>3, <2>4, <2>5, <2>6, <2>7 DEF JobsNext, Run
<1> QED
  BY <1>1, <1>2, PTL DEF JobsSpec, CompletedIsFinal

---------------------------------------------------------------------------
(***************************************************************************)
(* Reports.  A callback is encoded when its goroutine comes to run, not    *)
(* when it is started, so what matters is the callbacks still to encode.   *)
(***************************************************************************)

\* The table is typed; a job whose goroutine has ended has an outcome.
TableOK ==
    /\ status \in [Turn -> Unfinished \cup Ended \cup {NoStatus}]
    /\ runner \in [Turn -> {"none", "submitting", "spawned", "agent", "gateway", "ended"}]
    /\ overdue \in [Turn -> BOOLEAN]
    /\ callbacks \in [Turn -> Seq(Callback)]
    /\ \A j \in Turn : runner[j] = "ended" => status[j] \in Ended
    /\ \A j \in Turn : runner[j] \in {"none", "submitting"} <=> status[j] = NoStatus

\* A callback that will carry, or has carried, the status of the table.
Reports(j, i) == callbacks[j][i].at = "spawned" \/ callbacks[j][i].payload = status[j]

EndIsReported ==
    \A j \in Watched : runner[j] = "ended" =>
        \E i \in DOMAIN callbacks[j] : Reports(j, i)

\* How often a job can have been reported: by the sweep while it was pending,
\* by the sweep after setRunning, and at the end of run.
ReportsSoFar(j) ==
    CASE runner[j] \in {"none", "submitting"} -> 0
      [] runner[j] = "spawned" -> IF status[j] = "pending" THEN 0 ELSE 1
      [] runner[j] \in {"agent", "gateway"} -> IF status[j] = "running" THEN 1 ELSE 2
      [] OTHER -> 3

ReportsBounded ==
    \A j \in Turn :
        /\ Len(callbacks[j]) <= ReportsSoFar(j)
        /\ runner[j] = "spawned" => status[j] \in {"pending", "failed"}
        /\ runner[j] \in {"agent", "gateway"} => status[j] \in {"running", "failed"}

ReportInv == TableOK /\ EndIsReported /\ ReportsBounded

\* Starting a callback appends one that is yet to be encoded.
LEMMA SpawnEffect ==
    ASSUME TableOK, NEW jobs, Spawn(jobs)
    PROVE  /\ callbacks' \in [Turn -> Seq(Callback)]
           /\ \A j \in Turn :
                 /\ Len(callbacks'[j]) = IF j \in jobs \cap Watched
                                         THEN Len(callbacks[j]) + 1 ELSE Len(callbacks[j])
                 /\ \A i \in DOMAIN callbacks[j] :
                       i \in DOMAIN callbacks'[j] /\ callbacks'[j][i] = callbacks[j][i]
                 /\ j \in jobs \cap Watched =>
                       \E i \in DOMAIN callbacks'[j] : callbacks'[j][i].at = "spawned"
<1>1. NewCallback \in Callback /\ NewCallback.at = "spawned"
  BY DEF NewCallback, Callback
<1>2. ASSUME NEW j \in Turn PROVE callbacks[j] \in Seq(Callback)
  BY DEF TableOK
<1>3. ASSUME NEW q \in Seq(Callback)
      PROVE  /\ Append(q, NewCallback) \in Seq(Callback)
             /\ Len(Append(q, NewCallback)) = Len(q) + 1
             /\ \A i \in DOMAIN q : /\ i \in DOMAIN Append(q, NewCallback)
                                    /\ Append(q, NewCallback)[i] = q[i]
             /\ \E i \in DOMAIN Append(q, NewCallback) :
                   Append(q, NewCallback)[i].at = "spawned"
  <2>1. Len(q) \in Nat /\ DOMAIN q = 1..Len(q)
    OBVIOUS
  <2>2. /\ Append(q, NewCallback) \in Seq(Callback)
        /\ Len(Append(q, NewCallback)) = Len(q) + 1
        /\ DOMAIN Append(q, NewCallback) = 1..Len(q) + 1
        /\ \A i \in 1..Len(q) : Append(q, NewCallback)[i] = q[i]
        /\ Append(q, NewCallback)[Len(q) + 1] = NewCallback
    BY <1>1
  <2> QED
    BY <1>1, <2>1, <2>2
<1>4. \A j \in Turn : callbacks'[j] = IF j \in jobs \cap Watched
                                      THEN Append(callbacks[j], NewCallback)
                                      ELSE callbacks[j]
  BY DEF Spawn
<1>5. callbacks' \in [Turn -> Seq(Callback)]
  BY <1>2, <1>3 DEF Spawn
<1>6. ASSUME NEW j \in Turn, j \in jobs \cap Watched
      PROVE  /\ Len(callbacks'[j]) = Len(callbacks[j]) + 1
             /\ \A i \in DOMAIN callbacks[j] :
                   i \in DOMAIN callbacks'[j] /\ callbacks'[j][i] = callbacks[j][i]
             /\ \E i \in DOMAIN callbacks'[j] : callbacks'[j][i].at = "spawned"
  <2>1. callbacks'[j] = Append(callbacks[j], NewCallback)
    BY <1>4, <1>6
  <2> QED
    BY <1>2, <1>3, <2>1
<1>7. ASSUME NEW j \in Turn, j \notin jobs \cap Watched
      PROVE  callbacks'[j] = callbacks[j]
  BY <1>4, <1>7
<1> QED
  BY <1>5, <1>6, <1>7

\* The sweep of a reader, or of submit, whose own job is about to be entered.
Sweeps ==
    /\ status' = failStuck(status) /\ Spawn(Stuck) /\ UNCHANGED overdue
    /\ runner' \in [Turn -> {"none", "submitting", "spawned", "agent", "gateway", "ended"}]
    /\ \A o \in Turn : \/ runner'[o] = runner[o]
                       \/ runner[o] = "none" /\ runner'[o] = "submitting"

\* The sweep fails unfinished jobs, and reports each of them once.
LEMMA SweepReports == ASSUME ReportInv, Sweeps PROVE ReportInv'
<1> USE JobsAssumption DEF ReportInv, Sweeps, Unfinished, Ended
<1>1. callbacks' \in [Turn -> Seq(Callback)]
  BY SpawnEffect
<1>2. \A j \in Turn : /\ j \in Stuck => status[j] \in Unfinished /\ status'[j] = "failed"
                      /\ j \notin Stuck => status'[j] = status[j]
  BY DEF failStuck, Stuck
<1>3. TableOK'
  BY <1>1, <1>2 DEF TableOK, failStuck
<1>4. EndIsReported'
  <2> SUFFICES ASSUME NEW j \in Watched, runner'[j] = "ended"
               PROVE  \E i \in DOMAIN callbacks'[j] : Reports(j, i)'
    BY DEF EndIsReported
  <2>1. j \in Turn /\ j \notin Stuck /\ runner[j] = "ended"
    BY DEF TableOK, Stuck
  <2>2. PICK i \in DOMAIN callbacks[j] : Reports(j, i)
    BY <2>1 DEF EndIsReported
  <2>3. i \in DOMAIN callbacks'[j] /\ callbacks'[j][i] = callbacks[j][i]
    BY <2>1, <2>2, SpawnEffect
  <2> QED
    BY <1>2, <2>1, <2>2, <2>3 DEF Reports
<1>5. ReportsBounded'
  <2> SUFFICES ASSUME NEW j \in Turn
               PROVE  /\ Len(callbacks'[j]) <= ReportsSoFar(j)'
                      /\ runner'[j] = "spawned" => status'[j] \in {"pending", "failed"}
                      /\ runner'[j] \in {"agent", "gateway"} =>
                            status'[j] \in {"running", "failed"}
    BY DEF ReportsBounded
  <2>1. Len(callbacks[j]) \in Nat
    BY DEF TableOK
  <2>2. CASE j \notin Stuck
    <3>1. Len(callbacks'[j]) = Len(callbacks[j]) /\ status'[j] = status[j]
      BY <1>2, <2>2, SpawnEffect
    <3> QED
      BY <3>1 DEF ReportsBounded, ReportsSoFar
  <2>3. CASE j \in Stuck
    <3>1. Len(callbacks'[j]) <= Len(callbacks[j]) + 1
      BY <2>1, SpawnEffect
    <3>2. status[j] \in Unfinished /\ status'[j] = "failed"
      BY <1>2, <2>3
    <3>3. runner[j] \in {"spawned", "agent", "gateway"}
      BY <3>2 DEF TableOK
    <3> QED
      BY <2>1, <3>1, <3>2, <3>3 DEF ReportsBounded, ReportsSoFar
  <2> QED
    BY <2>2, <2>3
<1> QED
  BY <1>3, <1>4, <1>5

\* submit sweeps like a reader of the table; its job has no status yet.
LEMMA SubmitReports ==
    ASSUME ReportInv, NEW j \in Turn, Submit(j) PROVE ReportInv'
<1>1. Sweeps
  BY DEF Submit, Sweeps, ReportInv, TableOK
<1> QED
  BY <1>1, SweepReports

\* The job that is entered had neither status nor callback.
LEMMA EnterReports ==
    ASSUME ReportInv, NEW j \in Turn, Enter(j) PROVE ReportInv'
<1> USE JobsAssumption DEF ReportInv, Unfinished, Ended
<1>1. /\ runner[j] = "submitting" /\ status' = [status EXCEPT ![j] = "pending"]
      /\ runner' = [runner EXCEPT ![j] = "spawned"] /\ UNCHANGED <<overdue, callbacks>>
  BY DEF Enter
<1>2. TableOK'
  BY <1>1 DEF TableOK
<1>3. EndIsReported'
  BY <1>1 DEF EndIsReported, Reports, TableOK
<1>4. ReportsBounded'
  BY <1>1 DEF ReportsBounded, ReportsSoFar, TableOK
<1> QED
  BY <1>2, <1>3, <1>4

\* setRunning touches neither callbacks nor ended jobs; the first report of the
\* sweep stays counted.
LEMMA SetRunningReports ==
    ASSUME ReportInv, NEW j \in Turn, SetRunning(j) PROVE ReportInv'
<1> USE JobsAssumption DEF ReportInv, Unfinished, Ended
<1>1. PICK way \in {"agent", "gateway"} : runner' = [runner EXCEPT ![j] = way]
  BY DEF SetRunning
<1>2. /\ runner[j] = "spawned" /\ status' = [status EXCEPT ![j] = "running"]
      /\ UNCHANGED <<overdue, callbacks>>
  BY DEF SetRunning
<1>3. TableOK'
  BY <1>1, <1>2 DEF TableOK
<1>4. EndIsReported'
  BY <1>1, <1>2 DEF TableOK, EndIsReported, Reports
<1>5. ReportsBounded'
  BY <1>1, <1>2 DEF TableOK, ReportsBounded, ReportsSoFar
<1> QED
  BY <1>3, <1>4, <1>5

\* The end of run stores the outcome and starts the callback that will carry it.
LEMMA RunEndsReports ==
    ASSUME ReportInv, NEW j \in Turn, RunEnds(j) PROVE ReportInv'
<1> USE JobsAssumption DEF ReportInv, Unfinished, Ended
<1>1. PICK outcome \in ProcessReturns(j) : status' = [status EXCEPT ![j] = outcome]
  BY DEF RunEnds, EndedAs
<1>2. outcome \in Ended /\ runner[j] \in {"agent", "gateway"}
  BY <1>1 DEF ProcessReturns
<1>3. /\ runner' = [runner EXCEPT ![j] = "ended"] /\ UNCHANGED overdue
      /\ Spawn({j})
  BY DEF RunEnds, SpawnAtEnd
<1>4. callbacks' \in [Turn -> Seq(Callback)]
  BY <1>3, SpawnEffect
<1>5. TableOK'
  BY <1>1, <1>2, <1>3, <1>4 DEF TableOK
<1>6. EndIsReported'
  <2> SUFFICES ASSUME NEW o \in Watched, runner'[o] = "ended"
               PROVE  \E i \in DOMAIN callbacks'[o] : Reports(o, i)'
    BY DEF EndIsReported
  <2>1. o \in Turn
    OBVIOUS
  <2>2. CASE o = j
    BY <1>3, <2>1, <2>2, SpawnEffect DEF Reports
  <2>3. CASE o # j
    <3>1. runner[o] = "ended" /\ status'[o] = status[o]
      BY <1>1, <1>3, <2>1, <2>3 DEF TableOK
    <3>2. PICK i \in DOMAIN callbacks[o] : Reports(o, i)
      BY <3>1 DEF EndIsReported
    <3>3. i \in DOMAIN callbacks'[o] /\ callbacks'[o][i] = callbacks[o][i]
      BY <1>3, <2>1, <3>2, SpawnEffect
    <3> QED
      BY <3>1, <3>2, <3>3 DEF Reports
  <2> QED
    BY <2>2, <2>3
<1>7. ReportsBounded'
  <2> SUFFICES ASSUME NEW o \in Turn
               PROVE  /\ Len(callbacks'[o]) <= ReportsSoFar(o)'
                      /\ runner'[o] = "spawned" => status'[o] \in {"pending", "failed"}
                      /\ runner'[o] \in {"agent", "gateway"} =>
                            status'[o] \in {"running", "failed"}
    BY DEF ReportsBounded
  <2>1. Len(callbacks[o]) \in Nat
    BY DEF TableOK
  <2>2. CASE o # j
    <3>1. Len(callbacks'[o]) = Len(callbacks[o])
      BY <1>3, <2>2, SpawnEffect
    <3> QED
      BY <1>1, <1>3, <2>2, <3>1 DEF TableOK, ReportsBounded, ReportsSoFar
  <2>3. CASE o = j
    <3>1. Len(callbacks'[o]) <= Len(callbacks[o]) + 1
      BY <1>3, <2>1, SpawnEffect
    <3>2. Len(callbacks[o]) <= 2
      BY <1>2, <2>1, <2>3 DEF ReportsBounded, ReportsSoFar
    <3>3. runner'[o] = "ended"
      BY <1>3, <2>3 DEF TableOK
    <3>4. Len(callbacks'[o]) <= 3
      BY <2>1, <3>1, <3>2
    <3> QED
      BY <3>3, <3>4 DEF ReportsSoFar
  <2> QED
    BY <2>2, <2>3
<1> QED
  BY <1>5, <1>6, <1>7

\* A goroutine of sendCallbacks moves one callback on; what it encodes is the
\* status of that moment, and what it has encoded it keeps.
LEMMA SendCallbacksReports ==
    ASSUME ReportInv, NEW j \in Turn, SendCallbacks(j) PROVE ReportInv'
<1> USE JobsAssumption DEF ReportInv, Unfinished, Ended
<1>1. UNCHANGED <<status, runner, overdue>>
  BY DEF SendCallbacks, Encode, Post
<1>2. PICK i \in DOMAIN callbacks[j] : Encode(j, i) \/ Post(j, i)
  BY DEF SendCallbacks
<1>3. callbacks[j] \in Seq(Callback) /\ callbacks[j][i] \in Callback
  BY <1>2 DEF TableOK
<1>4. PICK c \in Callback :
         /\ callbacks' = [callbacks EXCEPT ![j] = [callbacks[j] EXCEPT ![i] = c]]
         /\ Reports(j, i) => c.payload = status[j]
  <2>1. CASE Encode(j, i)
    <3> DEFINE c == [callbacks[j][i] EXCEPT !.at = "posting", !.payload = status[j]]
    <3>1. c \in Callback /\ c.payload = status[j]
      BY <1>3 DEF Callback, TableOK
    <3>2. callbacks' = [callbacks EXCEPT ![j] = [callbacks[j] EXCEPT ![i] = c]]
      BY <2>1 DEF Encode, TableOK, Callback
    <3> QED
      BY <3>1, <3>2
  <2>2. CASE Post(j, i)
    <3>1. PICK end \in {"sent", "givenUp"} : callbacks' = [callbacks EXCEPT ![j][i].at = end]
      BY <2>2 DEF Post
    <3> DEFINE c == [callbacks[j][i] EXCEPT !.at = end]
    <3>2. c \in Callback /\ c.payload = callbacks[j][i].payload
      BY <1>3 DEF Callback
    <3>3. callbacks' = [callbacks EXCEPT ![j] = [callbacks[j] EXCEPT ![i] = c]]
      BY <3>1
    <3>4. callbacks[j][i].at # "spawned"
      BY <2>2 DEF Post
    <3> QED
      BY <3>2, <3>3, <3>4 DEF Reports
  <2> QED
    BY <1>2, <2>1, <2>2
<1>5. /\ [callbacks[j] EXCEPT ![i] = c] \in Seq(Callback)
      /\ Len([callbacks[j] EXCEPT ![i] = c]) = Len(callbacks[j])
      /\ DOMAIN [callbacks[j] EXCEPT ![i] = c] = DOMAIN callbacks[j]
  BY <1>2, <1>3, <1>4
<1>6. TableOK'
  BY <1>1, <1>4, <1>5 DEF TableOK
<1>7. EndIsReported'
  <2> SUFFICES ASSUME NEW o \in Watched, runner[o] = "ended"
               PROVE  \E k \in DOMAIN callbacks'[o] : Reports(o, k)'
    BY <1>1 DEF EndIsReported
  <2>1. PICK k \in DOMAIN callbacks[o] : Reports(o, k)
    BY DEF EndIsReported
  <2>2. o \in Turn /\ k \in DOMAIN callbacks'[o]
    BY <1>4, <1>5, <2>1 DEF TableOK
  <2>3. CASE o = j /\ k = i
    <3>1. callbacks'[o][k] = c
      BY <1>2, <1>3, <1>4, <2>3 DEF TableOK
    <3> QED
      BY <1>1, <1>4, <2>1, <2>2, <2>3, <3>1 DEF Reports
  <2>4. CASE o # j \/ k # i
    <3>1. callbacks'[o][k] = callbacks[o][k]
      BY <1>2, <1>3, <1>4, <2>1, <2>2, <2>4 DEF TableOK
    <3> QED
      BY <1>1, <2>1, <2>2, <3>1 DEF Reports
  <2> QED
    BY <2>3, <2>4
<1>8. ReportsBounded'
  <2>1. \A o \in Turn : Len(callbacks'[o]) = Len(callbacks[o])
    BY <1>4, <1>5 DEF TableOK
  <2> QED
    BY <1>1, <2>1 DEF ReportsBounded, ReportsSoFar
<1> QED
  BY <1>6, <1>7, <1>8

\* The inductive invariant of the reports.
LEMMA ReportInvariant == JobsSpec => []ReportInv
<1>1. JobsInit => ReportInv
  BY JobsAssumption
     DEF JobsInit, ReportInv, TableOK, EndIsReported, ReportsBounded, ReportsSoFar
<1>2. ReportInv /\ [JobsNext]_jobsVars => ReportInv'
  <2> SUFFICES ASSUME ReportInv, [JobsNext]_jobsVars PROVE ReportInv'
    OBVIOUS
  <2>1. CASE ReadTable
    <3>1. Sweeps
      BY <2>1 DEF ReadTable, Sweeps, ReportInv, TableOK
    <3> QED
      BY <3>1, SweepReports
  <2>2. ASSUME NEW j \in Turn, TimePasses(j) PROVE ReportInv'
    <3>1. overdue' \in [Turn -> BOOLEAN] /\ UNCHANGED <<status, runner, callbacks>>
      BY <2>2 DEF TimePasses, ReportInv, TableOK
    <3> QED
      BY <3>1 DEF ReportInv, TableOK, EndIsReported, ReportsBounded, ReportsSoFar, Reports
  <2>3. CASE UNCHANGED jobVars
    BY <2>3 DEF jobVars, ReportInv, TableOK, EndIsReported, ReportsBounded,
                ReportsSoFar, Reports
  <2>4. ASSUME NEW j \in Turn, PassGate(j) PROVE ReportInv'
    BY <2>3, <2>4 DEF PassGate
  <2>5. CASE UNCHANGED jobsVars
    BY <2>3, <2>5 DEF jobsVars
  <2> QED
    BY <2>1, <2>2, <2>4, <2>5, SubmitReports, EnterReports, SetRunningReports, RunEndsReports,
       SendCallbacksReports DEF JobsNext, Run
<1> QED
  BY <1>1, <1>2, PTL DEF JobsSpec

\* Whatever the sweep reported before, when a job's goroutines are through one
\* callback carried the status the table shows.
THEOREM OutcomesAreReported == JobsSpec => []OutcomeIsReported
<1>1. ReportInv => OutcomeIsReported
  BY DEF ReportInv, EndIsReported, Reports, OutcomeIsReported
<1> QED
  BY <1>1, ReportInvariant, PTL

\* A job's table entry keeps its type, and a job is reported three times at most:
\* twice by the sweep, although setRunning revives what it failed, once by run.
THEOREM JobsTypes == JobsSpec => []JobsTypeOK
<1>1. ReportInv /\ GateInv => JobsTypeOK
  <2> SUFFICES ASSUME ReportInv, GateInv PROVE JobsTypeOK
    OBVIOUS
  <2>1. ASSUME NEW j \in Turn
        PROVE  /\ Len(callbacks[j]) <= 3
               /\ \A i \in DOMAIN callbacks[j] : callbacks[j][i] \in Callback
    <3>1. callbacks[j] \in Seq(Callback)
      BY DEF ReportInv, TableOK
    <3>2. Len(callbacks[j]) \in Nat /\ Len(callbacks[j]) <= ReportsSoFar(j)
      BY <3>1 DEF ReportInv, ReportsBounded
    <3>3. ReportsSoFar(j) \in 0..3
      BY DEF ReportsSoFar
    <3> QED
      BY <3>1, <3>2, <3>3
  <2> QED
    BY <2>1 DEF ReportInv, TableOK, JobsTypeOK, GateInv
<1>2. GateSpec => []GateInv
  BY GateInvInit, GateInvStep, PTL DEF GateSpec
<1> QED
  BY <1>1, <1>2, ReportInvariant, JobsImplementGate, PTL

=============================================================================
