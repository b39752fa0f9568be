------------------------ MODULE OpenClawTasksProofs ------------------------
(***************************************************************************)
(* For any number of turns, sessions and polls: the turns use the gate as  *)
(* AdmissionGate says, and the record of a session never files the result  *)
(* of one run under another.                                               *)
(***************************************************************************)
EXTENDS OpenClawTasks, AdmissionGateProofs

\* Every step of a turn is a step of the gate or leaves it alone.
LEMMA StepsOfTheGate == [TasksNext]_tasksVars => [GateNext]_gateVars
<1> SUFFICES ASSUME [TasksNext]_tasksVars PROVE [GateNext]_gateVars
  OBVIOUS
<1>1. ASSUME NEW t \in Turn, TurnStep(t) PROVE [GateNext]_gateVars
  <2>1. CASE PassGate(t)
    BY <2>1 DEF PassGate, GateNext
  <2>2. CASE Accept(t)
    BY <2>2 DEF Accept, GateNext
  <2>3. CASE FailTurn(t)
    BY <2>3 DEF FailTurn, ReleaseOnError, GateNext
  <2>4. CASE StartFails(t) \/ SendChat(t) \/ NormalizeResult(t)
    BY <2>4 DEF StartFails, SendChat, NormalizeResult
  <2> QED BY <1>1, <2>1, <2>2, <2>3, <2>4 DEF TurnStep
<1>2. ASSUME NEW q \in Poll, PollStep(q) PROVE UNCHANGED gateVars
  BY <1>2 DEF PollStep, PollCached, PollAsk, PollApply, PollFallback, PollEnd
<1>3. ASSUME NEW t \in Turn, \/ \E s \in Session : Begin(t, s)
                             \/ ChatAbort(t) \/ NativeStep(t) \/ DeadlinePasses(t)
      PROVE UNCHANGED gateVars
  BY <1>3 DEF Begin, ChatAbort, NativeStep, DeadlinePasses
<1>4. ASSUME NEW q \in Poll, NEW s \in Session, NEW run \in Turn \cup {None},
             PollStart(q, s, run)
      PROVE UNCHANGED gateVars
  BY <1>4 DEF PollStart
<1>5. ASSUME NEW s \in Session, CloseSession(s) \/ \E run \in Turn : CancelTask(s, run)
      PROVE UNCHANGED gateVars
  BY <1>5 DEF CloseSession, CancelTask
<1>6. GatewayGone => UNCHANGED gateVars
  BY DEF GatewayGone
<1>7. UNCHANGED tasksVars => UNCHANGED gateVars
  BY DEF tasksVars
<1> QED BY <1>1, <1>2, <1>3, <1>4, <1>5, <1>6, <1>7 DEF TasksNext

\* The turns of the orchestrator implement the gate: acquire and release are
\* called in the order AdmissionGate assumes, and a slot is released once.
THEOREM TurnsImplementGate == TasksSpec => GateSpec
<1>1. TasksInit => GateInit
  BY DEF TasksInit
<1> QED BY <1>1, StepsOfTheGate, PTL DEF TasksSpec, GateSpec

\* Errors, refusals and acceptance give every slot back: with the orchestrator's
\* use of it the channel still holds one token per admitted turn.
THEOREM TurnsKeepSlots == TasksSpec => []SlotsMatchHolders
BY TurnsImplementGate, SlotsAreExact, PTL

-----------------------------------------------------------------------------
\* The types of the records, turns, polls and of the gateway.
RecordTypes ==
    /\ sessions \in [Session -> Record \cup {None}]
    /\ task \in [Record -> [turn : Turn \cup {None}, run : Turn \cup {None},
                            state : TaskStates, terminal : BOOLEAN]]
    /\ openClaw \in [Record -> Turn \cup {None}]
    /\ lastResult \in [Record -> Result \cup {None}]
    /\ waitRun \in [Record -> Turn \cup {None}]

CallTypes ==
    /\ turn \in [Turn -> [step : TurnSteps, session : Session \cup {None},
                          held : Record \cup {None}]]
    /\ poll \in [Poll -> [at : PollSteps, session : Session \cup {None},
                          asked : Turn \cup {None}, answer : Result \cup {None}]]

OutsideTypes ==
    /\ aborting \in SUBSET Turn
    /\ late \in SUBSET Turn
    /\ native \in [Turn -> NativeStates]
    /\ up \in BOOLEAN

\* A call under way has its session, a turn its record, and a poll that got an
\* answer from the gateway has it: what the actions select from is there.
CallsAreBound ==
    /\ \A t \in Turn : turn[t].step # "idle" =>
                           turn[t].session \in Session /\ turn[t].held \in Record
    /\ \A q \in Poll :
          /\ poll[q].at # "idle" => poll[q].session \in Session
          /\ poll[q].at = "got" => poll[q].answer \in Result

\* Types, bound calls and agreement of the records: the inductive invariant.
\* RecordsAgree needs no more than the types, because a poll checks whose
\* result it holds under the same lock that files it.
TasksInv == RecordTypes /\ CallTypes /\ OutsideTypes /\ CallsAreBound /\ RecordsAgree

\* A new record for a turn is a record.
LEMMA NewRecords == \A t \in Turn : <<t, 1>> \in Record /\ <<t, 2>> \in Record
BY DEF Record

\* A task that is marked as ended is a task.
LEMMA EndedTask ==
    ASSUME RecordTypes, NEW o \in Record, NEW state \in TaskStates
    PROVE  [task EXCEPT ![o].state = state, ![o].terminal = TRUE] \in
              [Record -> [turn : Turn \cup {None}, run : Turn \cup {None},
                          state : TaskStates, terminal : BOOLEAN]]
<1> DEFINE Task == [turn : Turn \cup {None}, run : Turn \cup {None},
                    state : TaskStates, terminal : BOOLEAN]
           ended == [task[o] EXCEPT !.state = state, !.terminal = TRUE]
<1>1. task \in [Record -> Task] /\ task[o] \in Task
  BY DEF RecordTypes
<1>2. ended \in Task
  BY <1>1
<1>3. [task EXCEPT ![o].state = state, ![o].terminal = TRUE] = [task EXCEPT ![o] = ended]
  BY <1>1
<1> QED BY <1>1, <1>2, <1>3

\* What the gateway reports is a result.
LEMMA ReportedIsResult ==
    ASSUME RecordTypes, OutsideTypes, NEW o \in Record \cup {None}, NEW run \in Turn,
           NEW answer \in Reported(o, run)
    PROVE  answer \in Result
<1>1. CASE native[run] = "none"
  BY <1>1 DEF Reported
<1>2. CASE native[run] = "unknown"
  <2>1. StillActive(o) => openClaw[o] \in Turn
    BY DEF StillActive, RecordTypes
  <2> QED BY <1>2, <2>1 DEF Reported, Result, Statuses, Terminal
<1>3. CASE native[run] \notin {"none", "unknown"}
  <2>1. answer = [status |-> native[run], run |-> run]
    BY <1>3 DEF Reported
  <2>2. native[run] \in Statuses
    BY <1>3 DEF OutsideTypes, NativeStates, Statuses, Terminal
  <2> QED BY <2>1, <2>2 DEF Result
<1> QED BY <1>1, <1>2, <1>3

\* The start: no record is filed.
LEMMA TasksInvInit == TasksInit => TasksInv
<1> SUFFICES ASSUME TasksInit PROVE TasksInv
  OBVIOUS
<1>1. RecordTypes /\ RecordsAgree
  BY DEF TasksInit, NoTask, RecordTypes, RecordsAgree, TaskStates
<1>2. CallTypes /\ OutsideTypes /\ CallsAreBound
  BY DEF TasksInit, IdlePoll, CallTypes, OutsideTypes, CallsAreBound, TurnSteps, PollSteps,
         NativeStates
<1> QED BY <1>1, <1>2 DEF TasksInv

\* Steps of turns.
LEMMA TurnStepKeeps ==
    ASSUME TasksInv, NEW t \in Turn, TurnStep(t) \/ \E s \in Session : Begin(t, s)
    PROVE  TasksInv'
<1> USE DEF TasksInv
<1>1. ASSUME NEW s \in Session, Begin(t, s) PROVE TasksInv'
  <2> DEFINE o == getOrCreateSession(s, <<t, 1>>)
  <2>1. o \in Record
    BY NewRecords DEF getOrCreateSession, RecordTypes
  <2> HIDE DEF o
  <2>2. /\ sessions' = [sessions EXCEPT ![s] = o]
        /\ task' = [task EXCEPT ![o] = [turn |-> t, run |-> None, state |-> "running",
                                        terminal |-> FALSE]]
        /\ turn' = [turn EXCEPT ![t] = [step |-> "admission", session |-> s, held |-> o]]
        /\ UNCHANGED <<openClaw, lastResult, waitRun, poll, aborting, late, native, up>>
    BY <1>1 DEF Begin, o
  <2>3. RecordTypes'
    BY <2>1, <2>2 DEF RecordTypes, TaskStates
  <2>4. CallTypes' /\ OutsideTypes' /\ CallsAreBound'
    BY <2>1, <2>2 DEF CallTypes, OutsideTypes, CallsAreBound, TurnSteps
  <2>5. RecordsAgree'
    BY <2>1, <2>2 DEF RecordsAgree, RecordTypes
  <2> QED BY <2>3, <2>4, <2>5
<1>2. ASSUME UNCHANGED <<records, poll, aborting, late, up>>,
             native' \in [Turn -> NativeStates],
             \/ UNCHANGED turn
             \/ \E step \in TurnSteps : turn[t].step # "idle" /\ GoTo(t, step)
      PROVE TasksInv'
  <2>1. RecordTypes' /\ RecordsAgree'
    BY <1>2 DEF records, RecordTypes, RecordsAgree
  <2>2. CallTypes' /\ OutsideTypes' /\ CallsAreBound'
    BY <1>2 DEF CallTypes, OutsideTypes, CallsAreBound, GoTo
  <2> QED BY <2>1, <2>2
<1>3. CASE PassGate(t)
  BY <1>2, <1>3 DEF PassGate, OutsideTypes
<1>4. CASE StartFails(t)
  BY <1>2, <1>4 DEF StartFails, OutsideTypes, TurnSteps
<1>5. CASE SendChat(t)
  <2>1. native' \in [Turn -> NativeStates]
    BY <1>5 DEF SendChat, OutsideTypes, NativeStates
  <2> QED BY <1>2, <1>5, <2>1 DEF SendChat, TurnSteps
<1>6. CASE Accept(t)
  <2> DEFINE s == turn[t].session
             o == getOrCreateSession(s, <<t, 2>>)
  <2>0. s \in Session /\ turn[t].step = "sent"
    BY <1>6 DEF Accept, CallsAreBound
  <2>1. o \in Record
    BY <2>0, NewRecords DEF getOrCreateSession, RecordTypes
  <2>2. /\ sessions' = [sessions EXCEPT ![s] = o]
        /\ task' = [task EXCEPT ![o] = AcceptedTask(o, t)]
        /\ openClaw' = [openClaw EXCEPT ![o] = t]
        /\ lastResult' = [lastResult EXCEPT ![o] = [status |-> "running", run |-> t]]
        /\ GoTo(t, "normalizing")
        /\ UNCHANGED <<waitRun, poll, aborting, late, native, up>>
    BY <1>6 DEF Accept
  <2> HIDE DEF o, s
  <2>3. /\ AcceptedTask(o, t) \in [turn : Turn \cup {None}, run : Turn \cup {None},
                                   state : TaskStates, terminal : BOOLEAN]
        /\ AcceptedTask(o, t).run = t /\ AcceptedTask(o, t).terminal = FALSE
    BY <2>1 DEF AcceptedTask, RecordTypes, TaskStates
  <2>4. RecordTypes'
    BY <2>0, <2>1, <2>2, <2>3 DEF RecordTypes, Result, Statuses
  <2>5. CallTypes' /\ OutsideTypes' /\ CallsAreBound'
    BY <2>0, <2>2 DEF CallTypes, OutsideTypes, CallsAreBound, GoTo, TurnSteps
  <2>6. RecordsAgree'
    BY <2>1, <2>2, <2>3 DEF RecordsAgree, RecordTypes
  <2> QED BY <2>4, <2>5, <2>6
<1>7. CASE NormalizeResult(t)
  <2> DEFINE o == turn[t].held
  <2>1. o \in Record /\ turn[t].step = "normalizing"
    BY <1>7 DEF NormalizeResult, CallsAreBound
  <2>2. /\ task' = [task EXCEPT ![o].state = "running"]
        /\ lastResult' = [lastResult EXCEPT ![o] = [status |-> "running", run |-> t]]
        /\ GoTo(t, "done")
        /\ UNCHANGED <<sessions, openClaw, waitRun, poll, aborting, late, native, up>>
    BY <1>7 DEF NormalizeResult
  <2> HIDE DEF o
  <2>3. RecordTypes'
    BY <2>1, <2>2 DEF RecordTypes, Result, Statuses, TaskStates
  <2>4. CallTypes' /\ OutsideTypes' /\ CallsAreBound'
    BY <2>1, <2>2 DEF CallTypes, OutsideTypes, CallsAreBound, GoTo, TurnSteps
  <2>5. RecordsAgree'
    BY <2>1, <2>2 DEF RecordsAgree, RecordTypes, Terminal
  <2> QED BY <2>3, <2>4, <2>5
<1>8. CASE FailTurn(t)
  <2> DEFINE o == turn[t].held
  <2>1. o \in Record /\ turn[t].step = "failing"
    BY <1>8 DEF FailTurn, CallsAreBound
  <2>2. /\ task' = [task EXCEPT ![o].state = "failed"]
        /\ lastResult' = [lastResult EXCEPT ![o] = [status |-> "failed", run |-> None]]
        /\ GoTo(t, "failed")
        /\ UNCHANGED <<sessions, openClaw, waitRun, poll, aborting, late, native, up>>
    BY <1>8 DEF FailTurn
  <2> HIDE DEF o
  <2>3. RecordTypes'
    BY <2>1, <2>2 DEF RecordTypes, Result, Statuses, Terminal, TaskStates
  <2>4. CallTypes' /\ OutsideTypes' /\ CallsAreBound'
    BY <2>1, <2>2 DEF CallTypes, OutsideTypes, CallsAreBound, GoTo, TurnSteps
  <2>5. RecordsAgree'
    BY <2>1, <2>2 DEF RecordsAgree, RecordTypes
  <2> QED BY <2>3, <2>4, <2>5
<1> QED BY <1>1, <1>3, <1>4, <1>5, <1>6, <1>7, <1>8 DEF TurnStep

\* Steps of tasks.get.
LEMMA PollStepKeeps ==
    ASSUME TasksInv, NEW q \in Poll,
           \/ PollStep(q)
           \/ \E s \in Session, run \in Turn \cup {None} : PollStart(q, s, run)
    PROVE  TasksInv'
<1> USE DEF TasksInv
\* A step that only moves the poll.
<1>1. ASSUME UNCHANGED <<records, turn, aborting, late, native, up>>,
             NEW next \in [at : PollSteps, session : Session \cup {None},
                           asked : Turn \cup {None}, answer : Result \cup {None}],
             next.at # "idle" => next.session \in Session,
             next.at = "got" => next.answer \in Result,
             poll' = [poll EXCEPT ![q] = next]
      PROVE TasksInv'
  <2>1. RecordTypes' /\ RecordsAgree' /\ OutsideTypes'
    BY <1>1 DEF records, RecordTypes, RecordsAgree, OutsideTypes
  <2>2. CallTypes' /\ CallsAreBound'
    BY <1>1 DEF CallTypes, CallsAreBound
  <2> QED BY <2>1, <2>2
<1>2. ASSUME NEW s \in Session, NEW run \in Turn \cup {None}, PollStart(q, s, run)
      PROVE TasksInv'
  <2> DEFINE next == [at |-> "scoped", session |-> s, answer |-> None,
                      asked |-> IF run = None /\ sessions[s] # None
                                THEN task[sessions[s]].run ELSE run]
  <2>1. next \in [at : PollSteps, session : Session \cup {None},
                  asked : Turn \cup {None}, answer : Result \cup {None}]
    BY DEF PollSteps, RecordTypes
  <2> QED BY <1>1, <1>2, <2>1 DEF PollStart
<1>3. CASE PollCached(q)
  <2> DEFINE o == sessions[poll[q].session]
             next == IF cachedTerminalForRun(o, poll[q].asked)
                     THEN [poll[q] EXCEPT !.at = "cached", !.answer = lastResult[o]]
                     ELSE [poll[q] EXCEPT !.at = "asking"]
  <2>1. poll[q].session \in Session /\ o \in Record \cup {None}
    BY <1>3 DEF PollCached, CallsAreBound, RecordTypes
  <2>2. cachedTerminalForRun(o, poll[q].asked) => lastResult[o] \in Result
    BY <2>1 DEF cachedTerminalForRun, RecordTypes
  <2>3. poll' = [poll EXCEPT ![q] = next]
    BY <1>3 DEF PollCached, CallTypes
  <2>4. /\ next \in [at : PollSteps, session : Session \cup {None},
                     asked : Turn \cup {None}, answer : Result \cup {None}]
        /\ next.session \in Session /\ next.at \in {"cached", "asking"}
    BY <2>1, <2>2 DEF CallTypes, PollSteps
  <2>5. UNCHANGED <<records, turn, aborting, late, native, up>>
    BY <1>3 DEF PollCached
  <2> HIDE DEF next
  <2> QED BY <1>1, <2>3, <2>4, <2>5
<1>4. CASE PollAsk(q)
  <2> DEFINE s == poll[q].session
  <2>1. s \in Session /\ sessions[s] \in Record \cup {None}
    BY <1>4 DEF PollAsk, CallsAreBound, RecordTypes
  <2>2. UNCHANGED <<records, turn, aborting, late, native, up>>
    BY <1>4 DEF PollAsk
  <2>3. CASE poll' = [poll EXCEPT ![q].at = "lost"]
    <3>1. poll' = [poll EXCEPT ![q] = [poll[q] EXCEPT !.at = "lost"]]
      BY <2>3 DEF CallTypes
    <3>2. [poll[q] EXCEPT !.at = "lost"] \in
             [at : PollSteps, session : Session \cup {None},
              asked : Turn \cup {None}, answer : Result \cup {None}]
      BY DEF CallTypes, PollSteps
    <3> QED BY <1>1, <2>1, <2>2, <3>1, <3>2 DEF CallTypes
  <2>4. CASE \E run \in LookedUp(s, poll[q].asked) :
                \E answer \in Reported(sessions[s], run) :
                   poll' = [poll EXCEPT ![q].at = "got", ![q].answer = answer]
    <3>0. PICK run \in LookedUp(s, poll[q].asked) :
             \E answer \in Reported(sessions[s], run) :
                poll' = [poll EXCEPT ![q].at = "got", ![q].answer = answer]
      BY <2>4
    <3>1. PICK answer \in Reported(sessions[s], run) :
             poll' = [poll EXCEPT ![q].at = "got", ![q].answer = answer]
      BY <3>0
    <3>2. run \in Turn
      BY DEF LookedUp, CallTypes
    <3>3. answer \in Result
      BY <2>1, <3>2, ReportedIsResult
    <3>4. poll' = [poll EXCEPT ![q] = [poll[q] EXCEPT !.at = "got", !.answer = answer]]
      BY <3>1 DEF CallTypes
    <3>5. [poll[q] EXCEPT !.at = "got", !.answer = answer] \in
             [at : PollSteps, session : Session \cup {None},
              asked : Turn \cup {None}, answer : Result \cup {None}]
      BY <3>3 DEF CallTypes, PollSteps
    <3> QED BY <1>1, <2>1, <2>2, <3>3, <3>4, <3>5 DEF CallTypes
  <2> QED BY <1>4, <2>3, <2>4 DEF PollAsk
<1>5. CASE PollApply(q)
  <2> DEFINE o == sessions[poll[q].session]
             result == poll[q].answer
             asked == poll[q].asked
  <2>1. poll[q].session \in Session /\ o \in Record \cup {None} /\ result \in Result
    BY <1>5 DEF PollApply, CallsAreBound, RecordTypes
  <2>2. /\ poll' = [poll EXCEPT ![q].at = "answered"]
        /\ UNCHANGED <<sessions, openClaw, turn, aborting, late, native, up>>
    BY <1>5 DEF PollApply
  <2>3. CallTypes' /\ OutsideTypes' /\ CallsAreBound'
    BY <2>1, <2>2 DEF CallTypes, OutsideTypes, CallsAreBound, PollSteps
  <2>4. CASE UNCHANGED <<task, lastResult, waitRun>>
    <3>1. RecordTypes' /\ RecordsAgree'
      BY <2>2, <2>4 DEF RecordTypes, RecordsAgree
    <3> QED BY <2>3, <3>1
  <2>5. CASE /\ o # None /\ ~ForeignResult(o, asked, result)
             /\ waitRun' = [waitRun EXCEPT ![o] =
                              IF result.status = "syncing" THEN result.run ELSE None]
             /\ IF result.status \in Terminal
                THEN /\ task' = [task EXCEPT ![o].state = StateOf(result.status),
                                             ![o].terminal = TRUE]
                     /\ lastResult' = [lastResult EXCEPT ![o] = result]
                ELSE UNCHANGED <<task, lastResult>>
    <3> HIDE DEF o, result, asked
    <3>1. o \in Record /\ (result.run # None => result.run = task[o].run)
      BY <2>1, <2>5 DEF ForeignResult
    <3>2. StateOf(result.status) \in TaskStates
      BY DEF StateOf, TaskStates
    <3>3. RecordTypes'
      <4>1. result.status \in Terminal => task' \in
               [Record -> [turn : Turn \cup {None}, run : Turn \cup {None},
                           state : TaskStates, terminal : BOOLEAN]]
        <5>1. [task EXCEPT ![o].state = StateOf(result.status), ![o].terminal = TRUE] \in
                 [Record -> [turn : Turn \cup {None}, run : Turn \cup {None},
                             state : TaskStates, terminal : BOOLEAN]]
          BY <3>1, <3>2, EndedTask
        <5> QED BY <2>5, <5>1
      <4> QED BY <2>1, <2>2, <2>5, <3>1, <4>1 DEF RecordTypes, Result
    <3>4. RecordsAgree'
      BY <2>1, <2>2, <2>5, <3>1 DEF RecordsAgree, RecordTypes
    <3> QED BY <2>3, <3>3, <3>4
  <2> QED BY <1>5, <2>4, <2>5 DEF PollApply
<1>6. CASE PollFallback(q)
  <2> DEFINE o == sessions[poll[q].session]
  <2>1. poll[q].session \in Session /\ o \in Record \cup {None} /\ poll[q].at = "lost"
    BY <1>6 DEF PollFallback, CallsAreBound, RecordTypes
  <2>2. UNCHANGED <<sessions, openClaw, waitRun, turn, aborting, late, native, up>>
    BY <1>6 DEF PollFallback
  <2>3. ASSUME NEW result \in Result,
               poll' = [poll EXCEPT ![q].at = "answered", ![q].answer = result]
        PROVE CallTypes' /\ OutsideTypes' /\ CallsAreBound'
    BY <2>1, <2>2, <2>3 DEF CallTypes, OutsideTypes, CallsAreBound, PollSteps
  <2>4. CASE /\ UNCHANGED <<task, lastResult>>
             /\ \/ /\ cachedTerminalForRun(o, poll[q].asked)
                   /\ poll' = [poll EXCEPT ![q].at = "answered", ![q].answer = lastResult[o]]
                \/ poll' = [poll EXCEPT ![q].at = "answered", ![q].answer =
                               [status |-> "not_found", run |-> None]]
    <3>1. cachedTerminalForRun(o, poll[q].asked) => lastResult[o] \in Result
      BY <2>1 DEF cachedTerminalForRun, RecordTypes
    <3>2. [status |-> "not_found", run |-> None] \in Result
      BY DEF Result, Statuses
    <3>3. CallTypes' /\ OutsideTypes' /\ CallsAreBound'
      BY <2>3, <2>4, <3>1, <3>2
    <3>4. RecordTypes' /\ RecordsAgree'
      BY <2>2, <2>4 DEF RecordTypes, RecordsAgree
    <3> QED BY <3>3, <3>4
  <2>5. CASE /\ HasRun(o)
             /\ LET result == [status |-> IF PastDeadline(o) THEN "interrupted" ELSE "running",
                               run |-> openClaw[o]]
                IN /\ task' = IF PastDeadline(o)
                              THEN [task EXCEPT ![o].state = "failed", ![o].terminal = TRUE]
                              ELSE task
                   /\ lastResult' = [lastResult EXCEPT ![o] = result]
                   /\ poll' = [poll EXCEPT ![q].at = "answered", ![q].answer = result]
    <3> DEFINE result == [status |-> IF PastDeadline(o) THEN "interrupted" ELSE "running",
                          run |-> openClaw[o]]
    <3>1. o \in Record
      BY <2>1, <2>5 DEF HasRun
    <3>2. result \in Result
      BY <3>1 DEF Result, Statuses, Terminal, RecordTypes
    <3>3. CallTypes' /\ OutsideTypes' /\ CallsAreBound'
      BY <2>3, <2>5, <3>2
    <3>4. RecordTypes'
      <4>1. PastDeadline(o) => task' \in
               [Record -> [turn : Turn \cup {None}, run : Turn \cup {None},
                           state : TaskStates, terminal : BOOLEAN]]
        BY <2>5, <3>1, EndedTask DEF TaskStates
      <4> QED BY <2>2, <2>5, <3>1, <3>2, <4>1 DEF RecordTypes
    <3>5. RecordsAgree'
      \* The run that is interrupted is the task's: a deadline is set only with a run.
      <4>1. PastDeadline(o) => openClaw[o] = task[o].run
        BY <3>1 DEF PastDeadline, RecordsAgree
      <4>2. ~PastDeadline(o) => result.status \notin Terminal
        BY DEF Terminal
      <4> HIDE DEF o
      <4> QED BY <2>2, <2>5, <3>1, <4>1, <4>2 DEF RecordsAgree, RecordTypes
    <3> QED BY <3>3, <3>4, <3>5
  <2> QED BY <1>6, <2>4, <2>5 DEF PollFallback
<1>7. CASE PollEnd(q)
  <2>1. IdlePoll \in [at : PollSteps, session : Session \cup {None},
                      asked : Turn \cup {None}, answer : Result \cup {None}]
    BY DEF IdlePoll, PollSteps
  <2> QED BY <1>1, <1>7, <2>1 DEF PollEnd, IdlePoll
<1> QED BY <1>2, <1>3, <1>4, <1>5, <1>6, <1>7 DEF PollStep

\* Cancels, closes, the gateway and the clock.
LEMMA OtherStepKeeps ==
    ASSUME TasksInv,
           \/ \E t \in Turn : ChatAbort(t) \/ NativeStep(t) \/ DeadlinePasses(t)
           \/ \E s \in Session : CloseSession(s) \/ \E run \in Turn : CancelTask(s, run)
           \/ GatewayGone
    PROVE  TasksInv'
<1> USE DEF TasksInv
<1>1. ASSUME UNCHANGED <<records, turn, poll>>, OutsideTypes' PROVE TasksInv'
  BY <1>1 DEF records, RecordTypes, RecordsAgree, CallTypes, CallsAreBound
<1>2. ASSUME NEW t \in Turn, ChatAbort(t) \/ NativeStep(t) \/ DeadlinePasses(t)
      PROVE TasksInv'
  <2>1. CASE ChatAbort(t)
    BY <1>1, <2>1 DEF ChatAbort, OutsideTypes, NativeStates
  <2>2. CASE NativeStep(t)
    <3>1. \A move \in RunMoves : move[2] \in NativeStates
      BY DEF RunMoves, NativeStates
    <3>2. OutsideTypes'
      BY <2>2, <3>1 DEF NativeStep, OutsideTypes
    <3> QED BY <1>1, <2>2, <3>2 DEF NativeStep
  <2>3. CASE DeadlinePasses(t)
    BY <1>1, <2>3 DEF DeadlinePasses, OutsideTypes
  <2> QED BY <1>2, <2>1, <2>2, <2>3
<1>3. CASE GatewayGone
  BY <1>1, <1>3 DEF GatewayGone, OutsideTypes
<1>4. ASSUME NEW s \in Session, CloseSession(s) PROVE TasksInv'
  <2>1. RecordTypes' /\ RecordsAgree'
    BY <1>4 DEF CloseSession, RecordTypes, RecordsAgree
  <2> QED BY <1>4, <2>1 DEF CloseSession, CallTypes, OutsideTypes, CallsAreBound
<1>5. ASSUME NEW s \in Session, NEW run \in Turn, CancelTask(s, run) PROVE TasksInv'
  <2> DEFINE o == sessions[s]
  <2>1. o \in Record /\ run = task[o].run
    BY <1>5 DEF CancelTask, RecordTypes
  <2>2. CallTypes' /\ OutsideTypes' /\ CallsAreBound'
    BY <1>5 DEF CancelTask, CallTypes, OutsideTypes, CallsAreBound
  <2>3. CASE UNCHANGED <<task, lastResult>>
    BY <1>5, <2>2, <2>3 DEF CancelTask, RecordTypes, RecordsAgree
  <2>4. CASE /\ task' = [task EXCEPT ![o].state = "cancelled", ![o].terminal = TRUE]
             /\ lastResult' = [lastResult EXCEPT ![o] =
                                 [status |-> "wait_cancelled", run |-> run]]
    <3>1. UNCHANGED <<sessions, openClaw, waitRun>>
      BY <1>5 DEF CancelTask
    <3> HIDE DEF o
    <3>2. RecordTypes'
      <4>1. task' \in [Record -> [turn : Turn \cup {None}, run : Turn \cup {None},
                                  state : TaskStates, terminal : BOOLEAN]]
        BY <2>1, <2>4, EndedTask DEF TaskStates
      <4> QED BY <2>1, <2>4, <3>1, <4>1 DEF RecordTypes, Result, Statuses, Terminal
    <3>3. RecordsAgree'
      BY <2>1, <2>4, <3>1 DEF RecordTypes, RecordsAgree
    <3> QED BY <2>2, <3>2, <3>3
  <2> QED BY <1>5, <2>3, <2>4 DEF CancelTask
<1> QED BY <1>2, <1>3, <1>4, <1>5

\* Every step keeps the invariant.
LEMMA TasksInvStep == TasksInv /\ [TasksNext]_tasksVars => TasksInv'
<1> SUFFICES ASSUME TasksInv, [TasksNext]_tasksVars PROVE TasksInv'
  OBVIOUS
<1>1. CASE UNCHANGED tasksVars
  BY <1>1 DEF tasksVars, records, TasksInv, RecordTypes, CallTypes, OutsideTypes,
              CallsAreBound, RecordsAgree
<1>2. CASE TasksNext
  BY <1>2, TurnStepKeeps, PollStepKeeps, OtherStepKeeps DEF TasksNext
<1> QED BY <1>1, <1>2

\* The state of the gate, of the records and of the calls is well typed in every
\* behaviour of the orchestrator and its pollers.
THEOREM TasksTypeCorrect == TasksSpec => []TasksTypeOK
<1>1. GateInv /\ TasksInv => TasksTypeOK
  BY DEF GateInv, TasksInv, RecordTypes, CallTypes, OutsideTypes, TasksTypeOK
<1>2. TasksInit => GateInv
  BY GateInvInit DEF TasksInit
<1> QED BY <1>1, <1>2, StepsOfTheGate, GateInvStep, TasksInvInit, TasksInvStep, PTL
     DEF TasksSpec

\* However turns, polls, cancels and closes interleave, a kept terminal result
\* that names a run names the run of its record's task, and that run is the one
\* the record accepted last.
THEOREM RecordsNeverMix == TasksSpec => []RecordsAgree
<1>1. TasksInv => RecordsAgree
  BY DEF TasksInv
<1> QED BY <1>1, TasksInvInit, TasksInvStep, PTL DEF TasksSpec

-----------------------------------------------------------------------------
(* The truth of answers *)

\* The states of a run that has ended but for its artifacts.
ArtifactsLeft == {"syncing", "completed", "unknown"}

\* What a result says of the run it names is true of the gateway and the clock.
Evident(result) ==
    result # None /\ result.run # None =>
        /\ result.status \in {"completed", "failed", "cancelled"} =>
              native[result.run] \in {result.status, "unknown"}
        /\ result.status = "interrupted" => result.run \in late
        /\ result.status \in {"syncing", "wait_cancelled"} =>
              native[result.run] \in ArtifactsLeft

\* The gateway knows a run only once its turn has sent it.
SentBeforeKnown ==
    \A t \in Turn : turn[t].step \in {"idle", "admission"} => native[t] = "none"

\* Whatever is kept has evidence, so that it can be handed out at any time: the
\* results of the records, the runs whose artifacts are waited for, and the answers
\* of polls that are on their way.
EvidenceInv ==
    /\ SentBeforeKnown
    /\ \A o \in Record : Evident(lastResult[o])
    /\ \A o \in Record : waitRun[o] # None => native[waitRun[o]] \in ArtifactsLeft
    /\ \A q \in Poll : /\ Evident(poll[q].answer)
                       /\ poll[q].at \in {"cached", "answered"} => poll[q].answer \in Result

\* The steps that change what the gateway knows, and the clock.
LEMMA OutsideMoves ==
    ASSUME TasksNext
    PROVE  /\ \/ UNCHANGED native
              \/ \E t \in Turn : turn[t].step = "admission"
                                 /\ native' = [native EXCEPT ![t] = "running"]
              \/ \E t \in Turn : native[t] = "running"
                                 /\ native' = [native EXCEPT ![t] = "cancelled"]
              \/ \E t \in Turn, move \in RunMoves :
                    native[t] = move[1] /\ native' = [native EXCEPT ![t] = move[2]]
           /\ late \subseteq late'
<1>1. ASSUME NEW t \in Turn, TurnStep(t) \/ \E s \in Session : Begin(t, s)
      PROVE  /\ \/ UNCHANGED native
                \/ turn[t].step = "admission" /\ native' = [native EXCEPT ![t] = "running"]
             /\ UNCHANGED late
  BY <1>1 DEF TurnStep, Begin, PassGate, StartFails, SendChat, Accept, NormalizeResult,
              FailTurn
<1>2. ASSUME NEW q \in Poll,
             PollStep(q) \/ \E s \in Session, run \in Turn \cup {None} : PollStart(q, s, run)
      PROVE  UNCHANGED <<native, late>>
  BY <1>2 DEF PollStep, PollStart, PollCached, PollAsk, PollApply, PollFallback, PollEnd
<1>3. ASSUME NEW s \in Session, CloseSession(s) \/ \E run \in Turn : CancelTask(s, run)
      PROVE  UNCHANGED <<native, late>>
  BY <1>3 DEF CloseSession, CancelTask
<1>4. ASSUME NEW t \in Turn, ChatAbort(t)
      PROVE  /\ \/ UNCHANGED native
                \/ native[t] = "running" /\ native' = [native EXCEPT ![t] = "cancelled"]
             /\ UNCHANGED late
  BY <1>4 DEF ChatAbort
<1>5. ASSUME NEW t \in Turn, NativeStep(t)
      PROVE  /\ \E move \in RunMoves :
                   native[t] = move[1] /\ native' = [native EXCEPT ![t] = move[2]]
             /\ UNCHANGED late
  BY <1>5 DEF NativeStep
<1>6. ASSUME NEW t \in Turn, DeadlinePasses(t)
      PROVE  UNCHANGED native /\ late \subseteq late'
  BY <1>6 DEF DeadlinePasses
<1>7. GatewayGone => UNCHANGED <<native, late>>
  BY DEF GatewayGone
<1> QED
  BY <1>1, <1>2, <1>3, <1>4, <1>5, <1>6, <1>7 DEF TasksNext

\* A run that has ended has ended for good, or is forgotten.
LEMMA EndsAreFinal ==
    ASSUME TasksInv, SentBeforeKnown, TasksNext, NEW run \in Turn
    PROVE  /\ native[run] \in ArtifactsLeft => native'[run] \in ArtifactsLeft
           /\ \A status \in {"completed", "failed", "cancelled"} :
                 native[run] \in {status, "unknown"} => native'[run] \in {status, "unknown"}
           /\ late \subseteq late'
<1>1. native \in [Turn -> NativeStates]
  BY DEF TasksInv, OutsideTypes
<1>2. \/ native'[run] = native[run]
      \/ native[run] \in {"none", "running"}
      \/ \E move \in RunMoves : native[run] = move[1] /\ native'[run] = move[2]
  BY <1>1, OutsideMoves DEF SentBeforeKnown
<1>3. \A move \in RunMoves :
         /\ move[1] \in ArtifactsLeft => move[2] \in ArtifactsLeft
         /\ move[1] \in {"completed", "failed", "cancelled"} => move[2] = "unknown"
         /\ move[1] # "unknown"
  BY DEF RunMoves, ArtifactsLeft
<1>4. native[run] \in ArtifactsLeft => native'[run] \in ArtifactsLeft
  BY <1>2, <1>3 DEF ArtifactsLeft
<1>5. \A status \in {"completed", "failed", "cancelled"} :
         native[run] \in {status, "unknown"} => native'[run] \in {status, "unknown"}
  BY <1>2, <1>3
<1> QED
  BY <1>4, <1>5, OutsideMoves

\* So a true result stays true.
LEMMA EvidenceStays ==
    ASSUME TasksInv, SentBeforeKnown, TasksNext,
           NEW result \in Result \cup {None}, Evident(result)
    PROVE  Evident(result)'
<1>1. CASE result = None \/ result.run = None
  BY <1>1 DEF Evident
<1>2. CASE result # None /\ result.run # None
  <2>1. result.run \in Turn
    BY <1>2 DEF Result
  <2> QED
    BY <1>2, <2>1, EndsAreFinal DEF Evident
<1> QED
  BY <1>1, <1>2

\* A turn is admitted before its run is known.
LEMMA SentStep ==
    ASSUME TasksInv, SentBeforeKnown, TasksNext PROVE SentBeforeKnown'
<1> SUFFICES ASSUME NEW t \in Turn, turn'[t].step \in {"idle", "admission"}
             PROVE  native'[t] = "none"
  BY DEF SentBeforeKnown
<1> USE DEF TasksInv, CallTypes, OutsideTypes
<1>1. ASSUME NEW u \in Turn, TurnStep(u) \/ \E s \in Session : Begin(u, s)
      PROVE  native'[t] = "none"
  <2>1. CASE u # t
    <3>1. turn'[t] = turn[t] /\ native'[t] = native[t]
      BY <1>1, <2>1 DEF TurnStep, Begin, PassGate, StartFails, SendChat, Accept,
                        NormalizeResult, FailTurn, GoTo
    <3> QED
      BY <3>1 DEF SentBeforeKnown
  <2>2. CASE u = t
    <3>1. turn[t].step \in {"idle", "admission"} /\ UNCHANGED native
      BY <1>1, <2>2 DEF TurnStep, Begin, PassGate, StartFails, SendChat, Accept,
                        NormalizeResult, FailTurn, GoTo
    <3> QED
      BY <3>1 DEF SentBeforeKnown
  <2> QED
    BY <2>1, <2>2
<1>2. ASSUME UNCHANGED turn, \A u \in Turn : native[u] = "none" => native'[u] = "none"
      PROVE  native'[t] = "none"
  BY <1>2 DEF SentBeforeKnown
<1>3. ASSUME NEW q \in Poll,
             PollStep(q) \/ \E s \in Session, run \in Turn \cup {None} : PollStart(q, s, run)
      PROVE  UNCHANGED <<turn, native>>
  BY <1>3 DEF PollStep, PollStart, PollCached, PollAsk, PollApply, PollFallback, PollEnd
<1>4. ASSUME NEW s \in Session, CloseSession(s) \/ \E run \in Turn : CancelTask(s, run)
      PROVE  UNCHANGED <<turn, native>>
  BY <1>4 DEF CloseSession, CancelTask
<1>5. ASSUME NEW u \in Turn, ChatAbort(u) \/ NativeStep(u) \/ DeadlinePasses(u)
      PROVE  UNCHANGED turn /\ \A v \in Turn : native[v] = "none" => native'[v] = "none"
  <2>1. \A move \in RunMoves : move[1] # "none"
    BY DEF RunMoves
  <2> QED
    BY <1>5, <2>1 DEF ChatAbort, NativeStep, DeadlinePasses
<1>6. GatewayGone => UNCHANGED <<turn, native>>
  BY DEF GatewayGone
<1> QED
  BY <1>1, <1>2, <1>3, <1>4, <1>5, <1>6 DEF TasksNext

\* What the gateway reports has evidence.
LEMMA ReportedIsEvident ==
    ASSUME TasksInv, NEW o \in Record \cup {None}, NEW run \in Turn,
           NEW answer \in Reported(o, run)
    PROVE  Evident(answer)
<1>1. native[run] # "none"
  BY DEF Reported
<1>2. CASE native[run] = "unknown"
  <2>1. \/ answer = [status |-> "unknown", run |-> run]
        \/ answer = [status |-> "running", run |-> openClaw[o]]
        \/ \E st \in {"completed", "failed"} : answer = [status |-> st, run |-> run]
    BY <1>2 DEF Reported
  <2> QED
    BY <1>2, <2>1 DEF Evident
<1>3. CASE native[run] # "unknown"
  <2>1. answer = [status |-> native[run], run |-> run]
    BY <1>1, <1>3 DEF Reported
  <2>2. native[run] \in NativeStates
    BY DEF TasksInv, OutsideTypes
  <2> QED
    BY <2>1, <2>2 DEF Evident, ArtifactsLeft, NativeStates
<1> QED
  BY <1>2, <1>3

\* What a step files in a record is true when it is filed.
LEMMA FiledIsEvident ==
    ASSUME TasksInv, EvidenceInv, TasksNext, NEW o \in Record
    PROVE  /\ Evident(lastResult'[o])
           /\ waitRun'[o] # None => native[waitRun'[o]] \in ArtifactsLeft
<1>a. /\ lastResult \in [Record -> Result \cup {None}]
      /\ waitRun \in [Record -> Turn \cup {None}]
      /\ Evident(lastResult[o])
      /\ waitRun[o] # None => native[waitRun[o]] \in ArtifactsLeft
  BY DEF TasksInv, RecordTypes, EvidenceInv
\* A step that keeps the two, or files one true result.
<1>1. CASE UNCHANGED <<lastResult, waitRun>>
  BY <1>1, <1>a
<1>2. ASSUME NEW r, NEW result, Evident(result),
             lastResult' = [lastResult EXCEPT ![r] = result]
      PROVE  Evident(lastResult'[o])
  <2>1. lastResult'[o] \in {lastResult[o], result}
    BY <1>2, <1>a
  <2> QED
    BY <1>2, <1>a, <2>1
<1>3. ASSUME NEW t \in Turn, TurnStep(t) \/ \E s \in Session : Begin(t, s)
      PROVE  /\ Evident(lastResult'[o])
             /\ waitRun'[o] # None => native[waitRun'[o]] \in ArtifactsLeft
  <2>1. UNCHANGED waitRun
    BY <1>3 DEF TurnStep, Begin, PassGate, StartFails, SendChat, Accept, NormalizeResult,
                FailTurn, records
  <2>2. \/ UNCHANGED lastResult
        \/ \E r : lastResult' = [lastResult EXCEPT ![r] = [status |-> "running", run |-> t]]
        \/ \E r : lastResult' = [lastResult EXCEPT ![r] = [status |-> "failed", run |-> None]]
    BY <1>3 DEF TurnStep, Begin, PassGate, StartFails, SendChat, Accept, NormalizeResult,
                FailTurn, records
  <2>3. Evident([status |-> "running", run |-> t]) /\ Evident([status |-> "failed", run |-> None])
    BY DEF Evident
  <2>4. Evident(lastResult'[o])
    BY <1>a, <1>2, <2>2, <2>3
  <2> QED
    BY <1>a, <2>1, <2>4
<1>4. ASSUME NEW q \in Poll, PollApply(q)
      PROVE  /\ Evident(lastResult'[o])
             /\ waitRun'[o] # None => native[waitRun'[o]] \in ArtifactsLeft
  <2>1. PICK r, result : r = sessions[poll[q].session] /\ result = poll[q].answer
    OBVIOUS
  <2>2. Evident(result) /\ result \in Result /\ result # None
    BY <1>4, <2>1, TasksAssumption DEF EvidenceInv, PollApply, TasksInv, CallsAreBound, Result
  <2>3. UNCHANGED lastResult \/ lastResult' = [lastResult EXCEPT ![r] = result]
    BY <1>4, <2>1 DEF PollApply
  <2>4. \/ UNCHANGED waitRun
        \/ waitRun' = [waitRun EXCEPT ![r] =
                         IF result.status = "syncing" THEN result.run ELSE None]
    BY <1>4, <2>1 DEF PollApply
  <2>5. Evident(lastResult'[o])
    BY <1>a, <1>2, <2>2, <2>3
  <2>6. waitRun'[o] # None => native[waitRun'[o]] \in ArtifactsLeft
    BY <1>a, <2>2, <2>4 DEF Evident
  <2> QED
    BY <2>5, <2>6
<1>5. ASSUME NEW q \in Poll, PollFallback(q)
      PROVE  /\ Evident(lastResult'[o])
             /\ waitRun'[o] # None => native[waitRun'[o]] \in ArtifactsLeft
  <2>1. PICK r : r = sessions[poll[q].session]
    OBVIOUS
  <2>2. /\ poll[q].session \in Session /\ r \in Record \cup {None}
    BY <1>5, <2>1 DEF PollFallback, TasksInv, CallsAreBound, RecordTypes
  <2>3. UNCHANGED waitRun
    BY <1>5 DEF PollFallback
  <2>4. CASE UNCHANGED lastResult
    BY <1>1, <2>3, <2>4
  <2>5. CASE /\ HasRun(r)
             /\ lastResult' = [lastResult EXCEPT ![r] =
                  [status |-> IF PastDeadline(r) THEN "interrupted" ELSE "running",
                   run |-> openClaw[r]]]
    \* The run whose budget is used up is the one the record accepted last.
    <3>1. PastDeadline(r) => openClaw[r] \in late
      BY <2>2, <2>5 DEF PastDeadline, HasRun, TasksInv, RecordsAgree
    <3>2. Evident([status |-> IF PastDeadline(r) THEN "interrupted" ELSE "running",
                   run |-> openClaw[r]])
      BY <3>1 DEF Evident
    <3>3. Evident(lastResult'[o])
      BY <1>2, <2>5, <3>2
    <3> QED
      BY <1>a, <2>3, <3>3
  <2> QED
    BY <1>5, <2>1, <2>4, <2>5 DEF PollFallback
<1>6. ASSUME NEW q \in Poll,
             \/ PollCached(q) \/ PollAsk(q) \/ PollEnd(q)
             \/ \E s \in Session, run \in Turn \cup {None} : PollStart(q, s, run)
      PROVE  UNCHANGED <<lastResult, waitRun>>
  BY <1>6 DEF PollCached, PollAsk, PollEnd, PollStart, records
<1>7. ASSUME NEW s \in Session, NEW run \in Turn, CancelTask(s, run)
      PROVE  /\ Evident(lastResult'[o])
             /\ waitRun'[o] # None => native[waitRun'[o]] \in ArtifactsLeft
  <2>1. sessions[s] \in Record /\ UNCHANGED waitRun
    BY <1>7 DEF CancelTask, TasksInv, RecordTypes
  <2>2. \/ UNCHANGED lastResult
        \/ /\ waitRun[sessions[s]] = run
           /\ lastResult' = [lastResult EXCEPT ![sessions[s]] =
                               [status |-> "wait_cancelled", run |-> run]]
    BY <1>7 DEF CancelTask, WaitsForArtifacts
  <2>3. waitRun[sessions[s]] = run => native[run] \in ArtifactsLeft
    BY <2>1, TasksAssumption DEF EvidenceInv
  <2>4. waitRun[sessions[s]] = run => Evident([status |-> "wait_cancelled", run |-> run])
    BY <2>3 DEF Evident
  <2>5. Evident(lastResult'[o])
    BY <1>a, <1>2, <2>2, <2>4
  <2> QED
    BY <1>a, <2>1, <2>5
<1>8. ASSUME \/ \E t \in Turn : ChatAbort(t) \/ NativeStep(t) \/ DeadlinePasses(t)
             \/ \E s \in Session : CloseSession(s)
             \/ GatewayGone
      PROVE  UNCHANGED <<lastResult, waitRun>>
  BY <1>8 DEF ChatAbort, NativeStep, DeadlinePasses, CloseSession, GatewayGone, records
<1> QED
  BY <1>1, <1>3, <1>4, <1>5, <1>6, <1>7, <1>8 DEF TasksNext, PollStep

\* What a poll takes along is true when it takes it.
LEMMA AnswersAreEvident ==
    ASSUME TasksInv, EvidenceInv, TasksNext, NEW q \in Poll
    PROVE  /\ Evident(poll'[q].answer)
           /\ poll'[q].at \in {"cached", "answered"} => poll'[q].answer \in Result
<1> DEFINE Polls == [at : PollSteps, session : Session \cup {None},
                     asked : Turn \cup {None}, answer : Result \cup {None}]
<1>a. /\ poll \in [Poll -> Polls]
      /\ Evident(poll[q].answer)
      /\ poll[q].at \in {"cached", "answered"} => poll[q].answer \in Result
  BY DEF TasksInv, CallTypes, EvidenceInv
<1>b. Evident(None)
  BY DEF Evident
<1>1. CASE UNCHANGED poll
  BY <1>1, <1>a
<1>2. ASSUME NEW p \in Poll,
             PollStep(p) \/ \E s \in Session, run \in Turn \cup {None} : PollStart(p, s, run)
      PROVE  /\ Evident(poll'[q].answer)
             /\ poll'[q].at \in {"cached", "answered"} => poll'[q].answer \in Result
  <2>1. CASE p # q
    <3>1. poll'[q] = poll[q]
      BY <1>2, <1>a, <2>1 DEF PollStep, PollStart, PollCached, PollAsk, PollApply,
                              PollFallback, PollEnd
    <3> QED
      BY <1>a, <3>1
  <2>2. CASE p = q
    <3>1. PICK o : o = sessions[poll[q].session]
      OBVIOUS
    <3>2. poll[q].at # "idle" => poll[q].session \in Session /\ o \in Record \cup {None}
      BY <3>1 DEF TasksInv, CallsAreBound, RecordTypes
    <3>3. /\ cachedTerminalForRun(o, poll[q].asked) /\ o \in Record \cup {None}
                => lastResult[o] \in Result /\ Evident(lastResult[o])
      BY DEF cachedTerminalForRun, TasksInv, RecordTypes, EvidenceInv
    <3>4. CASE \E s \in Session, run \in Turn \cup {None} : PollStart(q, s, run)
      <4>1. poll'[q].at = "scoped" /\ poll'[q].answer = None
        BY <3>4, <1>a DEF PollStart
      <4> QED
        BY <1>b, <4>1
    <3>5. CASE PollCached(q)
      <4>1. \/ poll' = [poll EXCEPT ![q].at = "asking"]
            \/ /\ cachedTerminalForRun(o, poll[q].asked)
               /\ poll' = [poll EXCEPT ![q].at = "cached", ![q].answer = lastResult[o]]
        BY <3>5, <3>1 DEF PollCached
      <4>2. poll[q].at = "scoped"
        BY <3>5 DEF PollCached
      <4>3. \/ poll'[q].at = "asking" /\ poll'[q].answer = poll[q].answer
            \/ /\ cachedTerminalForRun(o, poll[q].asked)
               /\ poll'[q].answer = lastResult[o]
        BY <1>a, <4>1
      <4> QED
        BY <1>a, <3>2, <3>3, <4>2, <4>3
    <3>6. CASE PollAsk(q)
      <4>1. poll[q].at = "asking"
        BY <3>6 DEF PollAsk
      <4>2. CASE poll' = [poll EXCEPT ![q].at = "lost"]
        BY <1>a, <4>2
      <4>3. ASSUME NEW run \in LookedUp(poll[q].session, poll[q].asked),
                   NEW answer \in Reported(o, run),
                   poll' = [poll EXCEPT ![q].at = "got", ![q].answer = answer]
            PROVE  Evident(poll'[q].answer) /\ poll'[q].at = "got"
        <5>1. run \in Turn
          BY <1>a DEF LookedUp
        <5>2. Evident(answer)
          BY <3>2, <4>1, <5>1, ReportedIsEvident
        <5>3. poll'[q].answer = answer /\ poll'[q].at = "got"
          BY <1>a, <4>3
        <5> QED
          BY <5>2, <5>3
      <4> QED
        BY <3>1, <3>6, <4>2, <4>3 DEF PollAsk
    <3>7. CASE PollApply(q)
      <4>1. poll'[q].answer = poll[q].answer /\ poll[q].at = "got"
        BY <1>a, <3>7 DEF PollApply
      <4>2. poll[q].answer \in Result
        BY <4>1 DEF TasksInv, CallsAreBound
      <4> QED
        BY <1>a, <4>1, <4>2
    <3>8. CASE PollFallback(q)
      <4>1. poll[q].at = "lost" /\ o \in Record \cup {None}
        BY <3>2, <3>8 DEF PollFallback
      <4>2. ASSUME NEW result \in Result, Evident(result),
                   poll' = [poll EXCEPT ![q].at = "answered", ![q].answer = result]
            PROVE  Evident(poll'[q].answer) /\ poll'[q].answer \in Result
        <5>1. poll'[q].answer = result
          BY <1>a, <4>2
        <5> QED
          BY <4>2, <5>1
      <4>3. CASE /\ cachedTerminalForRun(o, poll[q].asked)
                 /\ poll' = [poll EXCEPT ![q].at = "answered", ![q].answer = lastResult[o]]
        BY <3>3, <4>1, <4>2, <4>3
      <4>4. CASE poll' = [poll EXCEPT ![q].at = "answered", ![q].answer =
                             [status |-> "not_found", run |-> None]]
        <5>1. /\ [status |-> "not_found", run |-> None] \in Result
              /\ Evident([status |-> "not_found", run |-> None])
          BY DEF Result, Statuses, Evident
        <5> QED
          BY <4>2, <4>4, <5>1
      <4>5. CASE /\ HasRun(o)
                 /\ poll' = [poll EXCEPT ![q].at = "answered", ![q].answer =
                      [status |-> IF PastDeadline(o) THEN "interrupted" ELSE "running",
                       run |-> openClaw[o]]]
        <5>1. o \in Record /\ openClaw[o] \in Turn
          BY <4>1, <4>5 DEF HasRun, TasksInv, RecordTypes
        <5>2. PastDeadline(o) => openClaw[o] \in late
          BY <5>1 DEF PastDeadline, TasksInv, RecordsAgree
        <5>3. /\ [status |-> IF PastDeadline(o) THEN "interrupted" ELSE "running",
                  run |-> openClaw[o]] \in Result
              /\ Evident([status |-> IF PastDeadline(o) THEN "interrupted" ELSE "running",
                          run |-> openClaw[o]])
          BY <5>1, <5>2 DEF Result, Statuses, Terminal, Evident
        <5> QED
          BY <4>2, <4>5, <5>3
      <4> QED
        BY <3>1, <3>8, <4>3, <4>4, <4>5 DEF PollFallback
    <3>9. CASE PollEnd(q)
      <4>1. poll'[q].at = "idle" /\ poll'[q].answer = None
        BY <1>a, <3>9 DEF PollEnd, IdlePoll
      <4> QED
        BY <1>b, <4>1
    <3> QED
      BY <1>2, <2>2, <3>4, <3>5, <3>6, <3>7, <3>8, <3>9 DEF PollStep
  <2> QED
    BY <2>1, <2>2
<1>3. ASSUME \/ \E t \in Turn : \/ \E s \in Session : Begin(t, s)
                                \/ TurnStep(t) \/ ChatAbort(t) \/ NativeStep(t)
                                \/ DeadlinePasses(t)
             \/ \E s \in Session : CloseSession(s) \/ \E run \in Turn : CancelTask(s, run)
             \/ GatewayGone
      PROVE  UNCHANGED poll
  BY <1>3 DEF Begin, TurnStep, PassGate, StartFails, SendChat, Accept, NormalizeResult,
              FailTurn, ChatAbort, NativeStep, DeadlinePasses, CloseSession, CancelTask,
              GatewayGone
<1> QED
  BY <1>1, <1>2, <1>3 DEF TasksNext

\* Every step keeps the evidence.
LEMMA EvidenceStep ==
    ASSUME TasksInv, TasksInv', EvidenceInv, [TasksNext]_tasksVars PROVE EvidenceInv'
<1>1. CASE UNCHANGED tasksVars
  BY <1>1 DEF tasksVars, records, EvidenceInv, SentBeforeKnown, Evident
<1>2. CASE TasksNext
  <2>1. SentBeforeKnown'
    BY <1>2, SentStep DEF EvidenceInv
  <2>2. ASSUME NEW o \in Record
        PROVE  /\ Evident(lastResult[o])'
               /\ waitRun'[o] # None => native'[waitRun'[o]] \in ArtifactsLeft
    <3>1. PICK result : result = lastResult'[o]
      OBVIOUS
    <3>2. result \in Result \cup {None} /\ waitRun'[o] \in Turn \cup {None}
      BY <3>1 DEF TasksInv, RecordTypes
    <3>3. Evident(result)'
      BY <1>2, <3>1, <3>2, EvidenceStays, FiledIsEvident DEF EvidenceInv
    <3>4. PICK run : run = waitRun'[o]
      OBVIOUS
    <3>5. run # None => native'[run] \in ArtifactsLeft
      BY <1>2, <3>2, <3>4, EndsAreFinal, FiledIsEvident DEF EvidenceInv
    <3> QED
      BY <3>1, <3>3, <3>4, <3>5 DEF Evident
  <2>3. ASSUME NEW q \in Poll
        PROVE  /\ Evident(poll[q].answer)'
               /\ poll'[q].at \in {"cached", "answered"} => poll'[q].answer \in Result
    <3>1. PICK result : result = poll'[q].answer
      OBVIOUS
    <3>2. result \in Result \cup {None}
      BY <3>1 DEF TasksInv, CallTypes
    <3>3. Evident(result)'
      BY <1>2, <3>1, <3>2, EvidenceStays, AnswersAreEvident DEF EvidenceInv
    <3> QED
      BY <1>2, <3>1, <3>3, AnswersAreEvident DEF Evident
  <2> QED
    BY <2>1, <2>2, <2>3 DEF EvidenceInv
<1> QED
  BY <1>1, <1>2

\* A poll that is told the end of a run, by name, is told the truth, however stale
\* the result it is answered from.
THEOREM AnswersAreTrue == TasksSpec => []AnswersHaveEvidence
<1>1. TasksInit => EvidenceInv
  BY DEF TasksInit, EvidenceInv, SentBeforeKnown, Evident, IdlePoll
<1>2. EvidenceInv => AnswersHaveEvidence
  <2> SUFFICES ASSUME EvidenceInv, NEW q \in Poll,
                      poll[q].at \in {"cached", "answered"}, poll[q].answer.run # None
               PROVE  LET run == poll[q].answer.run
                          status == poll[q].answer.status
                      IN /\ status \in {"completed", "failed", "cancelled"} =>
                                native[run] \in {status, "unknown"}
                         /\ status = "interrupted" => run \in late
                         /\ status = "wait_cancelled" =>
                                native[run] \in {"syncing", "completed", "unknown"}
    BY DEF AnswersHaveEvidence
  <2>1. poll[q].answer \in Result /\ Evident(poll[q].answer)
    BY DEF EvidenceInv
  <2>2. poll[q].answer # None
    BY <2>1, TasksAssumption
  <2> QED
    BY <2>1, <2>2 DEF Evident, ArtifactsLeft
<1> QED
  BY <1>1, <1>2, TasksInvInit, TasksInvStep, EvidenceStep, PTL DEF TasksSpec
=============================================================================
