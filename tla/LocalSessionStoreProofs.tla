----------------------- MODULE LocalSessionStoreProofs -----------------------
(***************************************************************************)
(* Proofs about LocalSessionStore, for every number of processes,          *)
(* sessions, runs and requests.                                            *)
(***************************************************************************)
EXTENDS LocalSessionStore, FiniteSetTheorems, TLAPS

-----------------------------------------------------------------------------
(* Type correctness *)

\* Appending the events of one run keeps a journal a sequence of events.
LEMMA AppendedJournal ==
    ASSUME NEW journal \in Seq(Event), NEW r \in Run,
           NEW types \in Seq(EventTypes)
    PROVE  journal \o [i \in 1..Len(types) |-> [run |-> r, type |-> types[i]]]
              \in Seq(Event)
<1> DEFINE entries == [i \in 1..Len(types) |-> [run |-> r, type |-> types[i]]]
<1>1. Len(types) \in Nat /\ \A i \in 1..Len(types) : types[i] \in EventTypes
  OBVIOUS
<1>2. \A i \in 1..Len(types) : [run |-> r, type |-> types[i]] \in Event
  BY <1>1 DEF Event
<1>3. entries \in [1..Len(types) -> Event]
  BY <1>2
<1>4. entries \in Seq(Event)
  BY <1>1, <1>3
<1> HIDE DEF entries
<1>5. journal \o entries \in Seq(Event)
  BY <1>4
<1> QED
  BY <1>5 DEF entries

\* appendEvents keeps the type of the journals.
LEMMA AppendEventsType ==
    ASSUME TypeOK, NEW s, NEW r \in Run,
           NEW types \in Seq(EventTypes), appendEvents(s, r, types)
    PROVE  log' \in [Session -> Seq(Event)]
<1>1. ASSUME s \in Session
      PROVE  log[s] \o [i \in 1..Len(types) |-> [run |-> r, type |-> types[i]]]
                \in Seq(Event)
  <2>1. log[s] \in Seq(Event)
    BY <1>1 DEF TypeOK
  <2> QED
    BY <2>1, AppendedJournal
<1> QED
  BY <1>1 DEF TypeOK, appendEvents

DbTypes ==
    /\ runReq \in [Run -> Request \cup {None}]
    /\ runState \in [Run -> RunStates]
    /\ sessionState \in [Session -> {"idle"} \cup ActiveStates \cup TerminalStates]
    /\ log \in [Session -> Seq(Event)]
    /\ cancels \in [Session -> [CancelKey -> Run \cup {None}]]

\* The transaction of finish keeps the types of the tables.
LEMMA FinishTxType ==
    ASSUME TypeOK, NEW r \in Run, NEW state \in TerminalStates,
           NEW restart \in BOOLEAN, finishTx(r, state, restart)
    PROVE  DbTypes'
<1>1. CASE ~IsActive(r)
  BY <1>1 DEF finishTx, DbTypes, TypeOK, db
<1>2. CASE IsActive(r)
  <2> DEFINE final == FinalState(r, state, restart)
             types == IF final = "completed"
                      THEN <<"assistant.message.created", "run.completed">>
                      ELSE <<IF final = "failed" THEN "run.failed"
                             ELSE "run.cancelled">>
  <2>1. final \in TerminalStates
    BY DEF FinalState, TerminalStates
  <2>2. types \in Seq(EventTypes)
    <3>1. /\ <<"assistant.message.created", "run.completed">> \in Seq(EventTypes)
          /\ <<"run.failed">> \in Seq(EventTypes)
          /\ <<"run.cancelled">> \in Seq(EventTypes)
      BY DEF EventTypes
    <3> QED
      BY <3>1
  <2>3. /\ SetRun(r, final)
        /\ appendEvents(runReq[r].session, r, types)
        /\ UNCHANGED <<runReq, cancels>>
    BY <1>2 DEF finishTx
  <2>4. log' \in [Session -> Seq(Event)]
    BY <2>2, <2>3, AppendEventsType
  <2> HIDE DEF final, types
  <2>5. runState' \in [Run -> RunStates]
    BY <2>1, <2>3 DEF SetRun, TypeOK, RunStates
  <2>6. sessionState' \in [Session -> {"idle"} \cup ActiveStates \cup TerminalStates]
    BY <2>1, <2>3 DEF SetRun, TypeOK
  <2> QED
    BY <2>3, <2>4, <2>5, <2>6 DEF DbTypes, TypeOK
<1> QED
  BY <1>1, <1>2

\* The transaction of transition keeps the types of the tables.
LEMMA TransitionTxType ==
    ASSUME TypeOK, NEW r \in Run, transitionTx(r)
    PROVE  DbTypes' /\ hazards' \in [Run -> Process \cup {Legacy, None}]
<1>1. log' \in [Session -> Seq(Event)]
  <2>1. <<"run.running", "run.progressed">> \in Seq(EventTypes)
    BY DEF EventTypes
  <2> QED
    BY <2>1, AppendEventsType DEF transitionTx
<1>2. runState' \in [Run -> RunStates]
  BY DEF transitionTx, SetRun, TypeOK, RunStates, ActiveStates
<1>3. sessionState' \in [Session -> {"idle"} \cup ActiveStates \cup TerminalStates]
  BY DEF transitionTx, SetRun, TypeOK, ActiveStates
<1>4. hazards' \in [Run -> Process \cup {Legacy, None}]
  BY DEF transitionTx, TypeOK
<1> QED
  BY <1>1, <1>2, <1>3, <1>4 DEF DbTypes, transitionTx, TypeOK

\* Inserting a run keeps the types of the tables.
LEMMA InsertRunType ==
    ASSUME TypeOK, NEW r \in Run, NEW req \in Request, insertRun(r, req)
    PROVE  DbTypes'
<1>1. log' \in [Session -> Seq(Event)]
  <2>1. <<"message.created", "run.queued">> \in Seq(EventTypes)
    BY DEF EventTypes
  <2> QED
    BY <2>1, AppendEventsType DEF insertRun
<1>2. runState' \in [Run -> RunStates]
  BY DEF insertRun, TypeOK, RunStates, ActiveStates
<1>3. sessionState' \in [Session -> {"idle"} \cup ActiveStates \cup TerminalStates]
  BY DEF insertRun, TypeOK, ActiveStates
<1> QED
  BY <1>1, <1>2, <1>3 DEF DbTypes, insertRun, TypeOK

\* CancelRun keeps the types of the tables.
LEMMA CancelRunType ==
    ASSUME TypeOK, NEW p \in Process, NEW r \in Run, NEW k \in CancelKey,
           CancelRun(p, r, k)
    PROVE  DbTypes'
<1>1. log' \in [Session -> Seq(Event)]
  <2>1. <<"run.cancel_requested">> \in Seq(EventTypes)
    BY DEF EventTypes
  <2>2. CASE Cancellable(r)
    BY <2>1, <2>2, AppendEventsType DEF CancelRun
  <2>3. CASE ~Cancellable(r)
    BY <2>3 DEF CancelRun, TypeOK
  <2> QED
    BY <2>2, <2>3
<1>2. runState' \in [Run -> RunStates]
  BY DEF CancelRun, SetRun, TypeOK, RunStates, ActiveStates
<1>3. sessionState' \in [Session -> {"idle"} \cup ActiveStates \cup TerminalStates]
  BY DEF CancelRun, SetRun, TypeOK, ActiveStates
<1>4. cancels' \in [Session -> [CancelKey -> Run \cup {None}]]
  BY DEF CancelRun, TypeOK
<1> QED
  BY <1>1, <1>2, <1>3, <1>4 DEF DbTypes, CancelRun, TypeOK

\* The in-memory part of the types is kept by losing ownership.
LEMMA LoseOwnershipType ==
    ASSUME TypeOK, NEW p \in Process, loseOwnershipLocked(p)
    PROVE  /\ lost' \in [Process -> BOOLEAN]
           /\ ctx' \in [Run -> {"live", "cancelled", "expired"}]
BY DEF TypeOK, loseOwnershipLocked, CancelAll

\* Every step of an opening store keeps the types.
LEMMA OpeningType ==
    ASSUME TypeOK, NEW p \in Process, Opening(p) PROVE TypeOK'
<1>1. CASE Open(p)
  BY <1>1 DEF TypeOK, Open, Phases, db, world
<1>2. CASE FenceActiveRuns(p)
  BY <1>2 DEF TypeOK, FenceActiveRuns, Phases, db, world
<1>3. CASE ListActiveRuns(p)
  BY <1>3 DEF TypeOK, ListActiveRuns, AbandonedRuns, Phases, db, world
<1>4. ASSUME NEW r \in Run, ReconcileRun(p, r) PROVE TypeOK'
  <2>1. DbTypes'
    BY <1>4, FinishTxType DEF ReconcileRun, TerminalStates
  <2> QED
    BY <1>4, <2>1 DEF TypeOK, ReconcileRun, DbTypes, world
<1>5. CASE FinishOpen(p)
  BY <1>5 DEF TypeOK, FinishOpen, Phases, db, world
<1>6. CASE AbortOpen(p)
  BY <1>6, ConstantsAssumption
     DEF TypeOK, AbortOpen, Release, StorageFault, Phases, db, world
<1> QED
  BY <1>1, <1>2, <1>3, <1>4, <1>5, <1>6 DEF Opening

\* Every step of acceptLocalMessage keeps the types.
LEMMA AcceptingType ==
    ASSUME TypeOK, NEW p \in Process, Accepting(p) PROVE TypeOK'
<1>1. CASE AcceptReplay(p)
  BY <1>1 DEF TypeOK, AcceptReplay, SameKey, db
<1>2. CASE AcceptReject(p)
  BY <1>2 DEF TypeOK, AcceptReject, db, world
<1>3. ASSUME NEW r \in Run, AcceptCommit(p, r) PROVE TypeOK'
  <2>1. accepting[p] \in Request
    BY <1>3 DEF AcceptCommit, TypeOK
  <2>2. DbTypes'
    BY <1>3, <2>1, InsertRunType DEF AcceptCommit
  <2>3. receipts' \in SUBSET [request : Request, run : Run]
    BY <1>3, <2>1 DEF AcceptCommit, TypeOK
  <2>4. /\ pc' \in [Run -> PcStates]
        /\ home' \in [Run -> Process \cup {None}]
        /\ accepting' \in [Process -> Request \cup {None}]
    BY <1>3 DEF AcceptCommit, TypeOK, GoTo, PcStates
  <2> QED
    BY <1>3, <2>2, <2>3, <2>4 DEF TypeOK, AcceptCommit, DbTypes
<1>4. ASSUME NEW r \in Run, AcceptUnconfirmed(p, r) PROVE TypeOK'
  <2>1. accepting[p] \in Request
    BY <1>4 DEF AcceptUnconfirmed, TypeOK
  <2>2. DbTypes'
    BY <1>4, <2>1, InsertRunType DEF AcceptUnconfirmed
  <2> QED
    BY <1>4, <2>2, ConstantsAssumption
       DEF TypeOK, AcceptUnconfirmed, StorageFault, DbTypes, world
<1> QED
  BY <1>1, <1>2, <1>3, <1>4 DEF Accepting

\* Every step of executeLocal keeps the types.
LEMMA ExecutingType ==
    ASSUME TypeOK, NEW r \in Run, Executing(r) PROVE TypeOK'
<1> DEFINE p == home[r]
<1>1. CASE TransitionCheck(r)
  <2>1. pc' \in [Run -> PcStates]
    BY <1>1 DEF TypeOK, TransitionCheck, AbortExecution, GoTo, PcStates
  <2>2. faults' \in 0..MaxFaults
    BY <1>1, ConstantsAssumption DEF TypeOK, TransitionCheck, ProbeFails, StorageFault
  <2>3. /\ lost' \in [Process -> BOOLEAN]
        /\ ctx' \in [Run -> {"live", "cancelled", "expired"}]
    BY <1>1 DEF TypeOK, TransitionCheck, loseOwnershipLocked, CancelAll
  <2> QED
    BY <1>1, <2>1, <2>2, <2>3 DEF TypeOK, TransitionCheck, db, world
<1>2. CASE TransitionCommit(r)
  <2>1. DbTypes' /\ hazards' \in [Run -> Process \cup {Legacy, None}]
    BY <1>2, TransitionTxType DEF TransitionCommit
  <2> QED
    BY <1>2, <2>1 DEF TypeOK, TransitionCommit, GoTo, PcStates, DbTypes, world
<1>3. CASE TransitionError(r)
  <2>1. DbTypes' /\ hazards' \in [Run -> Process \cup {Legacy, None}]
    BY <1>3, TransitionTxType DEF TransitionError, TypeOK, DbTypes, db
  <2>2. faults' \in 0..MaxFaults
    BY <1>3, ConstantsAssumption DEF TypeOK, TransitionError, StorageFault
  <2> QED
    BY <1>3, <2>1, <2>2
       DEF TypeOK, TransitionError, AbortExecution, GoTo, PcStates, DbTypes, world
<1>4. CASE Dispatch(r)
  BY <1>4 DEF TypeOK, Dispatch, GoTo, PcStates, db
<1>5. CASE SkipDispatch(r)
  BY <1>5 DEF TypeOK, SkipDispatch, Outcome, TerminalStates, GoTo, PcStates, db, world
<1>6. ASSUME NEW result \in {"completed", "failed"}, ProcessReturn(r, result)
      PROVE  TypeOK'
  BY <1>6 DEF TypeOK, ProcessReturn, Outcome, TerminalStates, GoTo, PcStates, db
<1>7. CASE Finish(r)
  <2>1. DbTypes'
    BY <1>7, FinishTxType DEF Finish, TypeOK
  <2>2. outcome' \in [Run -> TerminalStates]
    BY <1>7 DEF TypeOK, Finish, TerminalStates
  <2> QED
    BY <1>7, <2>1, <2>2 DEF TypeOK, Finish, GoTo, PcStates, DbTypes, world
<1>8. CASE FinishError(r)
  <2>1. DbTypes'
    BY <1>8, FinishTxType DEF FinishError, TypeOK, DbTypes, db
  <2>2. outcome' \in [Run -> TerminalStates] /\ faults' \in 0..MaxFaults
    BY <1>8, ConstantsAssumption DEF TypeOK, FinishError, TerminalStates, StorageFault
  <2> QED
    BY <1>8, <2>1, <2>2
       DEF TypeOK, FinishError, AfterFinishError, GoTo, PcStates, DbTypes, world
<1>9. CASE ClearHazard(r)
  <2>1. pc' \in [Run -> PcStates]
    BY <1>9 DEF TypeOK, ClearHazard, GoTo, PcStates
  <2>2. faults' \in 0..MaxFaults
    BY <1>9, ConstantsAssumption DEF TypeOK, ClearHazard, ProbeFails, StorageFault
  <2>3. /\ lost' \in [Process -> BOOLEAN]
        /\ ctx' \in [Run -> {"live", "cancelled", "expired"}]
    BY <1>9 DEF TypeOK, ClearHazard, loseOwnershipLocked, CancelAll
  <2>4. hazards' \in [Run -> Process \cup {Legacy, None}]
    BY <1>9 DEF TypeOK, ClearHazard
  <2> QED
    BY <1>9, <2>1, <2>2, <2>3, <2>4 DEF TypeOK, ClearHazard, db, world
<1>10. CASE ExecuteExit(r)
  BY <1>10 DEF TypeOK, ExecuteExit, GoTo, PcStates, db, world
<1> QED
  BY <1>1, <1>2, <1>3, <1>4, <1>5, <1>6, <1>7, <1>8, <1>9, <1>10 DEF Executing

\* The environment's steps keep the types.
LEMMA EnvironmentType ==
    ASSUME TypeOK, Environment PROVE TypeOK'
<1>1. ASSUME NEW p \in Process, LockConnectionDrops(p) PROVE TypeOK'
  BY <1>1 DEF TypeOK, LockConnectionDrops, db, memory, world
<1>2. ASSUME NEW p \in Process, Crash(p) PROVE TypeOK'
  BY <1>2 DEF TypeOK, Crash, Release, ActiveRuns, Phases, PcStates, db, world
<1>3. ASSUME NEW r \in Run, ExecutorStops(r) PROVE TypeOK'
  BY <1>3 DEF TypeOK, ExecutorStops, db, memory
<1>4. ASSUME NEW r \in Run, ContextExpires(r) PROVE TypeOK'
  BY <1>4 DEF TypeOK, ContextExpires, db, world
<1>5. ASSUME NEW r \in Run, Recover(r) PROVE TypeOK'
  BY <1>5 DEF TypeOK, Recover, db, memory, world
<1> QED
  BY <1>1, <1>2, <1>3, <1>4, <1>5 DEF Environment

\* The steps a process takes by itself outside the groups above keep the types.
LEMMA ProcessType ==
    ASSUME TypeOK, NEW p \in Process PROVE
      /\ WatchOwnership(p) => TypeOK'
      /\ Close(p) => TypeOK'
      /\ CloseDone(p) => TypeOK'
      /\ AcceptProbeClientGone(p) => TypeOK'
      /\ \A req \in Request : AcceptProbe(p, req) => TypeOK'
      /\ \A r \in Run, k \in CancelKey : CancelRun(p, r, k) => TypeOK'
<1>1. ASSUME WatchOwnership(p) PROVE TypeOK'
  <2>1. faults' \in 0..MaxFaults
    BY <1>1, ConstantsAssumption DEF TypeOK, WatchOwnership, ProbeFails, StorageFault
  <2> QED
    BY <1>1, <2>1, LoseOwnershipType DEF TypeOK, WatchOwnership, db, world
<1>2. ASSUME Close(p) PROVE TypeOK'
  BY <1>2 DEF TypeOK, Close, CancelAll, Phases, db, world
<1>3. ASSUME CloseDone(p) PROVE TypeOK'
  BY <1>3 DEF TypeOK, CloseDone, Release, Phases, db, world
<1>4. ASSUME AcceptProbeClientGone(p) PROVE TypeOK'
  BY <1>4, LoseOwnershipType DEF TypeOK, AcceptProbeClientGone, db, world
<1>5. ASSUME NEW req \in Request, AcceptProbe(p, req) PROVE TypeOK'
  <2>1. CASE lockOwner = p
    BY <1>5, <2>1 DEF TypeOK, AcceptProbe, db, world
  <2>2. CASE lockOwner # p
    BY <1>5, <2>2, LoseOwnershipType DEF TypeOK, AcceptProbe, db, world
  <2> QED
    BY <2>1, <2>2
<1>6. ASSUME NEW r \in Run, NEW k \in CancelKey, CancelRun(p, r, k) PROVE TypeOK'
  <2>1. DbTypes'
    BY <1>6, CancelRunType
  <2>2. faults' \in 0..MaxFaults
    BY <1>6, ConstantsAssumption DEF TypeOK, CancelRun, StorageFault
  <2>3. ctx' = ctx \/ ctx' = [ctx EXCEPT ![r] = "cancelled"]
    BY <1>6 DEF CancelRun
  <2>4. ctx' \in [Run -> {"live", "cancelled", "expired"}]
    BY <2>3 DEF TypeOK
  <2> QED
    BY <1>6, <2>1, <2>2, <2>4 DEF TypeOK, CancelRun, DbTypes, world
<1> QED
  BY <1>1, <1>2, <1>3, <1>4, <1>5, <1>6

\* Every variable of the store keeps its type: table rows, journal, hazard
\* owners, process memory and goroutine positions.
THEOREM TypeCorrect == Spec => []TypeOK
<1>1. Init => TypeOK
  BY ConstantsAssumption
     DEF Init, TypeOK, RunStates, Phases, PcStates, TerminalStates
<1>2. TypeOK /\ [Next]_vars => TypeOK'
  <2> SUFFICES ASSUME TypeOK, [Next]_vars PROVE TypeOK'
    OBVIOUS
  <2>1. CASE UNCHANGED vars
    BY <2>1 DEF TypeOK, vars, db, memory, world
  <2>2. CASE Next
    BY <2>2, OpeningType, AcceptingType, ExecutingType, EnvironmentType,
       ProcessType DEF Next
  <2> QED
    BY <2>1, <2>2
<1> QED
  BY <1>1, <1>2, PTL DEF Spec

-----------------------------------------------------------------------------
(***************************************************************************)
(* The fence.  The promise NoOverlappingExecutions is not inductive: it    *)
(* rests on who may still insert a hazard.  A run can fence itself when    *)
(* its goroutine has passed transition's check but not its transaction.    *)
(***************************************************************************)
CanFence(r) == pc[r] = "checked" /\ runState[r] = "queued" /\ hazards[r] = None

\* The goroutine would still pass the check of transition.
MayCheck(r) ==
    /\ pc[r] = "starting" /\ runState[r] = "queued" /\ hazards[r] = None
    /\ lockOwner = home[r]

SameSession(r1, r2) ==
    /\ runReq[r1] # None /\ runReq[r2] # None
    /\ runReq[r1].session = runReq[r2].session

\* A row has its request; hazards and goroutines belong to existing rows.
RowsComplete ==
    \A r \in Run :
        /\ runReq[r] = None <=> runState[r] = "absent"
        /\ hazards[r] # None \/ home[r] # None => runState[r] # "absent"
        /\ pc[r] = "none" <=> home[r] = None
        /\ r \in alive => home[r] # None

\* Goroutines run, and messages are accepted, only in an open store.
PhasesAgree ==
    /\ \A r \in Run, p \in Process : home[r] = p =>
          /\ phase[p] \notin {"new", "opening", "fenced", "reconciling"}
          /\ pc[r] # "done" => phase[p] \in {"open", "closing"}
    /\ \A p \in Process :
          /\ accepting[p] # None => phase[p] = "open"
          /\ lockOwner = p => phase[p] \in {"opening", "fenced", "reconciling",
                                           "open", "closing"}

OneActiveRun ==
    \A r1, r2 \in Run :
        IsActive(r1) /\ IsActive(r2) /\ SameSession(r1, r2) => r1 = r2

\* An execution that may be alive, or that may still be started, is covered by a
\* hazard of its own process; only a proven completion will clear it.
ExecutionsCovered ==
    \A r \in Run :
        /\ r \in alive \/ pc[r] \in {"ready", "processing"} => hazards[r] = home[r]
        /\ pc[r] = "clearing" => r \notin alive
        /\ outcome[r] = "completed" => r \notin alive /\ pc[r] \in {"returned", "done"}

\* A hazard keeps every other run of its session from being active, or fenced.
HazardsExclude ==
    \A r1, r2 \in Run :
        hazards[r1] # None /\ SameSession(r1, r2) /\ r1 # r2 =>
            ~IsActive(r2) /\ hazards[r2] = None

\* While a run can fence itself no other process has an open store that holds
\* the lock: its successor is yet to fence the active runs.
FenceBeforeTakeover ==
    \A r \in Run : CanFence(r) =>
        \/ lockOwner \in {home[r], None}
        \/ \E q \in Process : lockOwner = q /\ phase[q] = "opening"

OneFencer == \A r1, r2 \in Run : CanFence(r1) /\ CanFence(r2) => home[r1] = home[r2]

\* A run that can still fence itself coexists with hazards of its process only.
NoForeignHazard ==
    \A r, o \in Run : CanFence(r) \/ MayCheck(r) => hazards[o] \in {None, home[r]}

OneHazardOwner ==
    \A r1, r2 \in Run :
        hazards[r1] \in Process /\ hazards[r2] \in Process => hazards[r1] = hazards[r2]

FenceParts ==
    /\ RowsComplete /\ PhasesAgree /\ OneActiveRun
    /\ ExecutionsCovered /\ HazardsExclude
    /\ FenceBeforeTakeover /\ OneFencer /\ NoForeignHazard /\ OneHazardOwner

FenceInv == TypeOK /\ FenceParts

\* What finish changes of the runs: at most the state of r, to a terminal one,
\* and to completed only when asked to.
LEMMA FinishTxEffect ==
    ASSUME TypeOK, NEW r \in Run, NEW state \in TerminalStates, NEW restart,
           finishTx(r, state, restart)
    PROVE  /\ runReq' = runReq
           /\ \/ runState' = runState
              \/ /\ IsActive(r)
                 /\ \E final \in TerminalStates :
                       /\ runState' = [runState EXCEPT ![r] = final]
                       /\ final = "completed" => state = "completed"
<1>1. CASE ~IsActive(r)
  BY <1>1 DEF finishTx, db
<1>2. CASE IsActive(r)
  <2>1. /\ FinalState(r, state, restart) \in TerminalStates
        /\ FinalState(r, state, restart) = "completed" => state = "completed"
    BY DEF FinalState, TerminalStates
  <2> QED
    BY <1>2, <2>1 DEF finishTx, SetRun
<1> QED
  BY <1>1, <1>2

\* Taking the lock fences nobody out yet.
LEMMA OpenFence ==
    ASSUME FenceInv, NEW p \in Process, Open(p) PROVE FenceParts'
<1>1. /\ phase[p] = "new"
      /\ UNCHANGED <<runReq, runState, hazards, accepting, home, pc, outcome, alive>>
  BY DEF Open, db, world
<1>2. \/ /\ lockOwner = None /\ lockOwner' = p
         /\ phase' = [phase EXCEPT ![p] = "opening"]
      \/ lockOwner' = lockOwner /\ phase' = [phase EXCEPT ![p] = "stopped"]
  BY DEF Open
<1> USE ConstantsAssumption, RequestAssumption
    DEF FenceInv, FenceParts, RowsComplete, PhasesAgree, OneActiveRun,
        ExecutionsCovered, HazardsExclude, FenceBeforeTakeover, OneFencer,
        NoForeignHazard, OneHazardOwner, CanFence, MayCheck, SameSession,
        IsActive, TypeOK, ActiveStates, TerminalStates
<1>3. \A o \in Run : home[o] # p
  BY <1>1
<1>4. PhasesAgree'
  BY <1>1, <1>2, <1>3
<1>5. \A o \in Run : MayCheck(o)' => MayCheck(o)
  BY <1>1, <1>2, <1>3
<1>6. (FenceBeforeTakeover /\ OneFencer /\ NoForeignHazard /\ OneHazardOwner)'
  BY <1>1, <1>2, <1>5
<1>7. (RowsComplete /\ OneActiveRun /\ ExecutionsCovered /\ HazardsExclude)'
  BY <1>1
<1> QED
  BY <1>4, <1>6, <1>7

\* Settling a run, by a successor or by its own goroutine, leaves the fence.
LEMMA SettleFence ==
    ASSUME FenceInv, NEW r \in Run,
           /\ runReq' = runReq
           /\ \/ runState' = runState
              \/ /\ IsActive(r)
                 /\ \E final \in TerminalStates :
                       runState' = [runState EXCEPT ![r] = final],
           UNCHANGED <<hazards, lockOwner, phase, accepting, home, alive>>,
           /\ pc' = pc /\ outcome' = outcome
           \/ /\ pc[r] \in {"aborting", "returned", "retrying"}
              /\ outcome' = [outcome EXCEPT ![r] = "failed"]
              /\ \/ pc' = [pc EXCEPT ![r] = "exiting"]
                 \/ pc' = [pc EXCEPT ![r] = "retrying"]
                 \/ pc' = [pc EXCEPT ![r] = "clearing"] /\ outcome[r] = "completed"
    PROVE  FenceParts'
<1> USE ConstantsAssumption, RequestAssumption
    DEF FenceInv, FenceParts, RowsComplete, PhasesAgree, OneActiveRun,
        ExecutionsCovered, HazardsExclude, FenceBeforeTakeover, OneFencer,
        NoForeignHazard, OneHazardOwner, CanFence, MayCheck, SameSession,
        IsActive, TypeOK, ActiveStates, TerminalStates
<1>1. \A o \in Run :
         /\ IsActive(o)' => IsActive(o)
         /\ runState[o] = "absent" <=> runState'[o] = "absent"
         /\ runState'[o] = "queued" => runState[o] = "queued"
  OBVIOUS
<1>2. \A o \in Run :
         /\ pc'[o] \in {"none", "starting", "checked", "ready", "processing", "done"}
               => pc'[o] = pc[o]
         /\ pc'[o] = "none" <=> pc[o] = "none"
         /\ pc[o] = "done" => pc'[o] = "done"
  OBVIOUS
<1>3. (RowsComplete /\ PhasesAgree /\ OneActiveRun)'
  BY <1>1, <1>2
<1>4. \A o \in Run : (CanFence(o)' => CanFence(o)) /\ (MayCheck(o)' => MayCheck(o))
  BY <1>1, <1>2
<1>5. (FenceBeforeTakeover /\ OneFencer /\ NoForeignHazard /\ OneHazardOwner)'
  BY <1>4
<1>6. HazardsExclude'
  BY <1>1
<1>7. ExecutionsCovered'
  BY <1>2
<1> QED
  BY <1>3, <1>5, <1>6, <1>7

\* A goroutine passes the check only as a goroutine of the lock's owner, whose
\* store is open.
LEMMA TransitionCheckFence ==
    ASSUME FenceInv, NEW r \in Run, TransitionCheck(r) PROVE FenceParts'
<1>1. UNCHANGED <<runReq, runState, hazards, lockOwner, phase, accepting, home,
                  outcome, alive>>
  BY DEF TransitionCheck, db, world
<1>2. /\ pc[r] = "starting"
      /\ \/ pc' = [pc EXCEPT ![r] = "aborting"]
         \/ /\ pc' = [pc EXCEPT ![r] = "checked"]
            /\ lockOwner = home[r] /\ phase[home[r]] = "open"
  BY DEF TransitionCheck, AbortExecution, GoTo
<1> USE ConstantsAssumption, RequestAssumption
    DEF FenceInv, FenceParts, RowsComplete, PhasesAgree, OneActiveRun,
        ExecutionsCovered, HazardsExclude, FenceBeforeTakeover, OneFencer,
        NoForeignHazard, OneHazardOwner, CanFence, MayCheck, SameSession,
        IsActive, TypeOK, ActiveStates, TerminalStates
<1>3. \A o \in Run : CanFence(o)' =>
         \/ CanFence(o)
         \/ /\ o = r /\ MayCheck(r) /\ phase[home[r]] = "open"
            /\ home[r] \in Process
  BY <1>1, <1>2
<1>4. OneFencer' /\ FenceBeforeTakeover'
  <2>1. \A o \in Run : CanFence(o) /\ CanFence(r)' => home[o] = home[r]
    BY <1>1, <1>2, <1>3 DEF CanFence
  <2>2. OneFencer'
    BY <1>1, <1>3, <2>1
  <2>3. FenceBeforeTakeover'
    BY <1>1, <1>3
  <2> QED
    BY <2>2, <2>3
<1>5. \A o \in Run : MayCheck(o)' => MayCheck(o)
  BY <1>1, <1>2
<1>6. NoForeignHazard' /\ OneHazardOwner'
  BY <1>1, <1>3, <1>5
<1>7. (RowsComplete /\ PhasesAgree /\ OneActiveRun /\ HazardsExclude)'
  BY <1>1, <1>2
<1>8. ExecutionsCovered'
  BY <1>1, <1>2
<1> QED
  BY <1>4, <1>6, <1>7, <1>8

\* The hazard inserted by transition, whether the goroutine learns of the commit
\* or not, is the only owner's and the session's only one.
LEMMA TransitionTxFence ==
    ASSUME FenceInv, NEW r \in Run, pc[r] = "checked", transitionTx(r),
           pc' = [pc EXCEPT ![r] = "ready"] \/ pc' = [pc EXCEPT ![r] = "aborting"],
           UNCHANGED <<lockOwner, phase, accepting, home, outcome, alive>>
    PROVE  FenceParts'
<1>1. /\ runState[r] = "queued" /\ hazards[r] = None
      /\ hazards' = [hazards EXCEPT ![r] = home[r]]
      /\ runState' = [runState EXCEPT ![r] = "running"]
      /\ runReq' = runReq
  BY DEF transitionTx, SetRun
<1> USE ConstantsAssumption, RequestAssumption
    DEF FenceInv, FenceParts, RowsComplete, PhasesAgree, OneActiveRun,
        ExecutionsCovered, HazardsExclude, FenceBeforeTakeover, OneFencer,
        NoForeignHazard, OneHazardOwner, CanFence, MayCheck, SameSession,
        IsActive, TypeOK, ActiveStates, TerminalStates
<1>2. home[r] \in Process /\ CanFence(r)
  BY <1>1
<1>3. \A o \in Run : hazards[o] \in {None, home[r]}
  BY <1>2
<1>4. OneHazardOwner'
  BY <1>1, <1>3
<1>5. \A o \in Run : (CanFence(o)' => CanFence(o)) /\ (MayCheck(o)' => MayCheck(o))
  BY <1>1
<1>6. \A o \in Run : CanFence(o) \/ MayCheck(o) => home[o] = home[r]
  BY <1>2
<1>7. (FenceBeforeTakeover /\ OneFencer /\ NoForeignHazard)'
  BY <1>1, <1>3, <1>5, <1>6
<1>8. (RowsComplete /\ PhasesAgree /\ OneActiveRun)'
  BY <1>1
<1>9. HazardsExclude'
  BY <1>1
<1>10. ExecutionsCovered'
  BY <1>1
<1> QED
  BY <1>4, <1>7, <1>8, <1>9, <1>10

\* A hazard is cleared only by the goroutine that saw its execution complete.
LEMMA ClearHazardFence ==
    ASSUME FenceInv, NEW r \in Run, ClearHazard(r) PROVE FenceParts'
<1>1. UNCHANGED <<runReq, runState, lockOwner, phase, accepting, home, outcome,
                  alive>>
  BY DEF ClearHazard, db, world
<1>2. /\ pc[r] = "clearing"
      /\ pc' = [pc EXCEPT ![r] = "exiting"] \/ pc' = [pc EXCEPT ![r] = "retrying"]
  BY DEF ClearHazard, GoTo
<1>3. hazards' = hazards \/ hazards' = [hazards EXCEPT ![r] = None]
  BY DEF ClearHazard, FenceInv, TypeOK
<1>4. \A o \in Run : hazards'[o] = hazards[o] \/ (o = r /\ hazards'[o] = None)
  BY <1>3 DEF FenceInv, TypeOK
<1>5. \A o \in Run : pc'[o] = pc[o] \/
          (o = r /\ pc[o] = "clearing" /\ pc'[o] \in {"exiting", "retrying"})
  BY <1>2 DEF FenceInv, TypeOK
<1>6. ExecutionsCovered'
  BY <1>1, <1>2, <1>4, <1>5 DEF FenceInv, FenceParts, ExecutionsCovered
<1>7. \A o \in Run : (CanFence(o)' => CanFence(o)) /\ (MayCheck(o)' => MayCheck(o))
  BY <1>1, <1>2, <1>4, <1>5 DEF CanFence, MayCheck
<1>8. OneFencer' /\ FenceBeforeTakeover'
  BY <1>1, <1>7 DEF FenceInv, FenceParts, OneFencer, FenceBeforeTakeover
<1>9. NoForeignHazard'
  BY <1>1, <1>4, <1>7 DEF FenceInv, FenceParts, NoForeignHazard
<1>10. OneHazardOwner'
  BY <1>4, ConstantsAssumption DEF FenceInv, FenceParts, OneHazardOwner
<1>11. HazardsExclude'
  BY <1>1, <1>4
     DEF FenceInv, FenceParts, HazardsExclude, SameSession, IsActive
<1>12. RowsComplete' /\ OneActiveRun'
  BY <1>1, <1>4, <1>5
     DEF FenceInv, FenceParts, RowsComplete, OneActiveRun, SameSession, IsActive
<1>13. PhasesAgree'
  BY <1>1, <1>5 DEF FenceInv, FenceParts, PhasesAgree
<1> QED
  BY <1>6, <1>8, <1>9, <1>10, <1>11, <1>12, <1>13 DEF FenceParts

\* The three callers of finish: initializeRuns and the two results of executeLocal.
LEMMA ReconcileFence ==
    ASSUME FenceInv, NEW p \in Process, NEW r \in Run, ReconcileRun(p, r)
    PROVE  FenceParts'
<1>1. /\ finishTx(r, "failed", TRUE)
      /\ UNCHANGED <<hazards, lockOwner, phase, accepting, home, alive, pc, outcome>>
  BY DEF ReconcileRun, world
<1>2. "failed" \in TerminalStates /\ TypeOK
  BY DEF TerminalStates, FenceInv
<1>3. /\ runReq' = runReq
      /\ \/ runState' = runState
         \/ /\ IsActive(r)
            /\ \E final \in TerminalStates :
                  runState' = [runState EXCEPT ![r] = final]
  BY <1>1, <1>2, FinishTxEffect
<1> QED
  BY <1>1, <1>3, SettleFence

LEMMA FinishFence ==
    ASSUME FenceInv, NEW r \in Run, Finish(r)
    PROVE  FenceParts'
<1>1. /\ finishTx(r, outcome[r], FALSE)
      /\ pc[r] \in {"aborting", "returned", "retrying"}
      /\ outcome' = [outcome EXCEPT ![r] = "failed"]
      /\ UNCHANGED <<hazards, lockOwner, phase, accepting, home, alive>>
  BY DEF Finish, world
<1>2. TypeOK /\ outcome[r] \in TerminalStates
  BY DEF FenceInv, TypeOK
<1>3. /\ runReq' = runReq
      /\ \/ runState' = runState
         \/ /\ IsActive(r)
            /\ \E final \in TerminalStates :
                  /\ runState' = [runState EXCEPT ![r] = final]
                  /\ final = "completed" => outcome[r] = "completed"
  BY <1>1, <1>2, FinishTxEffect
<1>4. \/ pc' = [pc EXCEPT ![r] = "exiting"]
      \/ /\ pc' = [pc EXCEPT ![r] = "clearing"]
         /\ IsActive(r) /\ runState'[r] = "completed"
  BY DEF Finish, MayClear, GoTo
<1>5. pc' = [pc EXCEPT ![r] = "clearing"] /\ IsActive(r) /\ runState'[r] = "completed"
         => outcome[r] = "completed"
  BY <1>2, <1>3 DEF TypeOK, IsActive, ActiveStates
<1> QED
  BY <1>1, <1>3, <1>4, <1>5, SettleFence

LEMMA FinishErrorFence ==
    ASSUME FenceInv, NEW r \in Run, FinishError(r)
    PROVE  FenceParts'
<1>1. /\ UNCHANGED db \/ finishTx(r, outcome[r], FALSE)
      /\ pc[r] \in {"aborting", "returned", "retrying"}
      /\ outcome' = [outcome EXCEPT ![r] = "failed"]
      /\ UNCHANGED <<hazards, lockOwner, phase, accepting, home, alive>>
  BY DEF FinishError, world
<1>2. TypeOK /\ outcome[r] \in TerminalStates
  BY DEF FenceInv, TypeOK
<1>3. /\ runReq' = runReq
      /\ \/ runState' = runState
         \/ /\ IsActive(r)
            /\ \E final \in TerminalStates :
                  runState' = [runState EXCEPT ![r] = final]
  <2>1. CASE UNCHANGED db
    BY <2>1 DEF db
  <2>2. CASE finishTx(r, outcome[r], FALSE)
    BY <2>2, <1>2, FinishTxEffect
  <2> QED
    BY <1>1, <2>1, <2>2
<1>4. pc' = [pc EXCEPT ![r] = "exiting"] \/ pc' = [pc EXCEPT ![r] = "retrying"]
  BY DEF FinishError, AfterFinishError, GoTo
<1> QED
  BY <1>1, <1>3, <1>4, SettleFence

\* A cancel request never makes a run startable again.
LEMMA CancelRunFence ==
    ASSUME FenceInv, NEW p \in Process, NEW r \in Run, NEW k \in CancelKey,
           CancelRun(p, r, k)
    PROVE  FenceParts'
<1>1. UNCHANGED <<runReq, hazards, lockOwner, phase, accepting, home, pc, outcome,
                  alive>>
  BY DEF CancelRun, world
<1>2. \/ runState' = runState
      \/ /\ runState[r] \in {"queued", "running"}
         /\ runState' = [runState EXCEPT ![r] = "cancel_requested"]
  BY DEF CancelRun, SetRun, Cancellable
<1> USE ConstantsAssumption, RequestAssumption
    DEF FenceInv, FenceParts, RowsComplete, PhasesAgree, OneActiveRun,
        ExecutionsCovered, HazardsExclude, FenceBeforeTakeover, OneFencer,
        NoForeignHazard, OneHazardOwner, CanFence, MayCheck, SameSession,
        IsActive, TypeOK, ActiveStates, TerminalStates
<1>3. \A o \in Run : (IsActive(o)' <=> IsActive(o)) /\
                       (runState[o] = "absent" <=> runState'[o] = "absent")
  BY <1>2
<1>4. \A o \in Run : (CanFence(o)' => CanFence(o)) /\ (MayCheck(o)' => MayCheck(o))
  BY <1>1, <1>2
<1>5. (RowsComplete /\ PhasesAgree /\ OneActiveRun /\ ExecutionsCovered)'
  BY <1>1, <1>3
<1>6. HazardsExclude'
  BY <1>1, <1>3
<1>7. (FenceBeforeTakeover /\ OneFencer /\ NoForeignHazard /\ OneHazardOwner)'
  BY <1>1, <1>4
<1> QED
  BY <1>5, <1>6, <1>7

\* An opening store fences the active runs before it can accept any.
LEMMA OpeningFence ==
    ASSUME FenceInv, TypeOK', NEW p \in Process, Opening(p)
    PROVE  FenceParts'
<1> USE ConstantsAssumption, RequestAssumption
    DEF FenceInv, FenceParts, RowsComplete, PhasesAgree, OneActiveRun,
        ExecutionsCovered, HazardsExclude, FenceBeforeTakeover, OneFencer,
        NoForeignHazard, OneHazardOwner, CanFence, MayCheck, SameSession,
        IsActive, TypeOK, ActiveStates, TerminalStates
<1>1. CASE Open(p)
  BY <1>1, OpenFence
<1>2. CASE FenceActiveRuns(p)
  BY <1>2 DEF FenceActiveRuns, db, world
<1>3. CASE ListActiveRuns(p)
  BY <1>3 DEF ListActiveRuns, db, world
<1>4. ASSUME NEW r \in Run, ReconcileRun(p, r) PROVE FenceParts'
  BY <1>4, ReconcileFence
<1>5. CASE FinishOpen(p)
  BY <1>5 DEF FinishOpen, db, world
<1>6. CASE AbortOpen(p)
  BY <1>6 DEF AbortOpen, Release, db, world
<1> QED
  BY <1>1, <1>2, <1>3, <1>4, <1>5, <1>6 DEF Opening

\* A message is accepted only where no hazard forbids it.
LEMMA AcceptingFence ==
    ASSUME FenceInv, TypeOK', NEW p \in Process, Accepting(p)
    PROVE  FenceParts'
<1> USE ConstantsAssumption, RequestAssumption
    DEF FenceInv, FenceParts, RowsComplete, PhasesAgree, OneActiveRun,
        ExecutionsCovered, HazardsExclude, FenceBeforeTakeover, OneFencer,
        NoForeignHazard, OneHazardOwner, CanFence, MayCheck, SameSession,
        IsActive, TypeOK, ActiveStates, TerminalStates
<1>1. CASE AcceptReplay(p)
  BY <1>1 DEF AcceptReplay, db
<1>2. CASE AcceptReject(p)
  BY <1>2 DEF AcceptReject, db, world
<1>3. ASSUME NEW r \in Run, AcceptCommit(p, r) PROVE FenceParts'
  BY <1>3 DEF AcceptCommit, Admissible, RecoveryRequired, Busy, InSession,
       insertRun, GoTo
<1>4. ASSUME NEW r \in Run, AcceptUnconfirmed(p, r) PROVE FenceParts'
  BY <1>4 DEF AcceptUnconfirmed, Admissible, RecoveryRequired, Busy, InSession,
       insertRun, GoTo, world
<1> QED
  BY <1>1, <1>2, <1>3, <1>4 DEF Accepting

\* A goroutine fences its run before it calls the executor, and clears the
\* hazard only after a proven completion.
LEMMA ExecutingFence ==
    ASSUME FenceInv, TypeOK', NEW r \in Run, Executing(r)
    PROVE  FenceParts'
<1> USE ConstantsAssumption, RequestAssumption
    DEF FenceInv, FenceParts, RowsComplete, PhasesAgree, OneActiveRun,
        ExecutionsCovered, HazardsExclude, FenceBeforeTakeover, OneFencer,
        NoForeignHazard, OneHazardOwner, CanFence, MayCheck, SameSession,
        IsActive, TypeOK, ActiveStates, TerminalStates
<1>1. CASE TransitionCheck(r)
  BY <1>1, TransitionCheckFence
<1>2. CASE TransitionCommit(r)
  BY <1>2, TransitionTxFence DEF TransitionCommit, GoTo, world
<1>3. CASE TransitionError(r)
  <2>1. CASE transitionTx(r)
    BY <1>3, <2>1, TransitionTxFence
       DEF TransitionError, AbortExecution, GoTo, world
  <2>2. CASE UNCHANGED <<db, hazards>>
    BY <1>3, <2>2 DEF TransitionError, AbortExecution, GoTo, db, world
  <2> QED
    BY <1>3, <2>1, <2>2 DEF TransitionError
<1>4. CASE Dispatch(r)
  BY <1>4 DEF Dispatch, Dispatchable, GoTo, db
<1>5. CASE SkipDispatch(r)
  BY <1>5 DEF SkipDispatch, Outcome, GoTo, db, world
<1>6. ASSUME NEW result \in {"completed", "failed"}, ProcessReturn(r, result) PROVE FenceParts'
  BY <1>6 DEF ProcessReturn, Outcome, GoTo, db
<1>7. CASE Finish(r)
  BY <1>7, FinishFence
<1>8. CASE FinishError(r)
  BY <1>8, FinishErrorFence
<1>9. CASE ClearHazard(r)
  BY <1>9, ClearHazardFence
<1>10. CASE ExecuteExit(r)
  BY <1>10 DEF ExecuteExit, GoTo, db, world
<1> QED
  BY <1>1, <1>2, <1>3, <1>4, <1>5, <1>6, <1>7, <1>8, <1>9, <1>10 DEF Executing

\* Lost locks, crashes and operator recovery do not open the fence.
LEMMA EnvironmentFence ==
    ASSUME FenceInv, TypeOK', Environment
    PROVE  FenceParts'
<1> USE ConstantsAssumption, RequestAssumption
    DEF FenceInv, FenceParts, RowsComplete, PhasesAgree, OneActiveRun,
        ExecutionsCovered, HazardsExclude, FenceBeforeTakeover, OneFencer,
        NoForeignHazard, OneHazardOwner, CanFence, MayCheck, SameSession,
        IsActive, TypeOK, ActiveStates, TerminalStates
<1>1. ASSUME NEW p \in Process, LockConnectionDrops(p) PROVE FenceParts'
  BY <1>1 DEF LockConnectionDrops, db, memory, world
<1>2. ASSUME NEW p \in Process, Crash(p) PROVE FenceParts'
  BY <1>2 DEF Crash, Release, ActiveRuns, db, world
<1>3. ASSUME NEW r \in Run, ExecutorStops(r) PROVE FenceParts'
  BY <1>3 DEF ExecutorStops, db, memory
<1>4. ASSUME NEW r \in Run, ContextExpires(r) PROVE FenceParts'
  BY <1>4 DEF ContextExpires, db, world
<1>5. ASSUME NEW r \in Run, Recover(r) PROVE FenceParts'
  BY <1>5 DEF Recover, db, memory, world
<1> QED
  BY <1>1, <1>2, <1>3, <1>4, <1>5 DEF Environment

\* Neither do the other steps of a process.
LEMMA ProcessFence ==
    ASSUME FenceInv, TypeOK', NEW p \in Process,
           \/ WatchOwnership(p) \/ Close(p) \/ CloseDone(p)
           \/ AcceptProbeClientGone(p)
           \/ \E req \in Request : AcceptProbe(p, req)
           \/ \E r \in Run, k \in CancelKey : CancelRun(p, r, k)
    PROVE  FenceParts'
<1> USE ConstantsAssumption, RequestAssumption
    DEF FenceInv, FenceParts, RowsComplete, PhasesAgree, OneActiveRun,
        ExecutionsCovered, HazardsExclude, FenceBeforeTakeover, OneFencer,
        NoForeignHazard, OneHazardOwner, CanFence, MayCheck, SameSession,
        IsActive, TypeOK, ActiveStates, TerminalStates
<1>1. CASE WatchOwnership(p)
  BY <1>1 DEF WatchOwnership, db, world
<1>2. CASE Close(p)
  <2>1. PhasesAgree'
    <3>1. /\ phase' = [phase EXCEPT ![p] = "closing"] /\ phase[p] = "open"
          /\ accepting[p] = None
          /\ UNCHANGED <<home, pc, accepting, lockOwner>>
      BY <1>2 DEF Close, MuFree
    <3> QED
      BY <3>1
  <2>2. (RowsComplete /\ OneActiveRun /\ ExecutionsCovered /\ HazardsExclude
         /\ FenceBeforeTakeover /\ OneFencer /\ NoForeignHazard /\ OneHazardOwner)'
    BY <1>2 DEF Close, db, world
  <2> QED
    BY <2>1, <2>2
<1>3. CASE CloseDone(p)
  BY <1>3 DEF CloseDone, Release, ActiveRuns, db, world
<1>4. CASE AcceptProbeClientGone(p)
  BY <1>4 DEF AcceptProbeClientGone, db, world
<1>5. ASSUME NEW req \in Request, AcceptProbe(p, req) PROVE FenceParts'
  BY <1>5 DEF AcceptProbe, db, world
<1>6. ASSUME NEW r \in Run, NEW k \in CancelKey, CancelRun(p, r, k) PROVE FenceParts'
  BY <1>6, CancelRunFence
<1> QED
  BY <1>1, <1>2, <1>3, <1>4, <1>5, <1>6

\* The inductive invariant of the fence.
LEMMA FenceInvariant == Spec => []FenceInv
<1>1. Init => FenceInv
  <2> SUFFICES ASSUME Init PROVE FenceInv
    OBVIOUS
  <2>1. TypeOK
    BY ConstantsAssumption
       DEF Init, TypeOK, RunStates, Phases, PcStates, TerminalStates
  <2>2. FenceParts
    BY ConstantsAssumption
       DEF Init, FenceParts, RowsComplete, PhasesAgree, OneActiveRun,
           ExecutionsCovered, HazardsExclude, FenceBeforeTakeover, OneFencer,
           NoForeignHazard, OneHazardOwner, CanFence, MayCheck, SameSession,
           IsActive, ActiveStates
  <2> QED
    BY <2>1, <2>2 DEF FenceInv
<1>2. FenceInv /\ TypeOK' /\ [Next]_vars => FenceInv'
  <2> SUFFICES ASSUME FenceInv, TypeOK', [Next]_vars PROVE FenceParts'
    BY DEF FenceInv
  <2>1. CASE UNCHANGED vars
    BY <2>1 DEF vars, db, memory, world, FenceInv, FenceParts, RowsComplete,
       PhasesAgree, OneActiveRun, ExecutionsCovered, HazardsExclude,
       FenceBeforeTakeover, OneFencer, NoForeignHazard, OneHazardOwner, CanFence,
       MayCheck, SameSession, IsActive
  <2>2. CASE Next
    BY <2>2, OpeningFence, AcceptingFence, ExecutingFence, EnvironmentFence,
       ProcessFence DEF Next
  <2> QED
    BY <2>1, <2>2
<1> QED
  BY <1>1, <1>2, TypeCorrect, PTL DEF Spec

\* No two executions that may still have effects were started by different
\* processes or for one session, for any number of processes, sessions and runs.
THEOREM ExecutionsNeverOverlap == Spec => []NoOverlappingExecutions
<1>1. FenceInv => NoOverlappingExecutions
  <2> SUFFICES ASSUME FenceInv, NEW r1 \in alive, NEW r2 \in alive
               PROVE  /\ home[r1] = home[r2]
                      /\ runReq[r1].session = runReq[r2].session => r1 = r2
    BY DEF NoOverlappingExecutions
  <2>1. r1 \in Run /\ r2 \in Run
    BY DEF FenceInv, TypeOK
  <2>2. /\ hazards[r1] = home[r1] /\ hazards[r2] = home[r2]
        /\ home[r1] \in Process /\ home[r2] \in Process
    BY <2>1 DEF FenceInv, FenceParts, ExecutionsCovered, RowsComplete, TypeOK
  <2>3. home[r1] = home[r2]
    BY <2>1, <2>2 DEF FenceInv, FenceParts, OneHazardOwner
  <2>4. runReq[r1] # None /\ runReq[r2] # None
    BY <2>1 DEF FenceInv, FenceParts, RowsComplete
  <2>5. runReq[r1].session = runReq[r2].session => r1 = r2
    BY <2>1, <2>2, <2>4, ConstantsAssumption
       DEF FenceInv, FenceParts, HazardsExclude, SameSession
  <2> QED
    BY <2>3, <2>5
<1> QED
  BY <1>1, FenceInvariant, PTL

\* The hazard of an execution that may still have effects is never missing.
THEOREM HazardsAreDurable == Spec => []HazardCoversExecution
<1>1. FenceInv => HazardCoversExecution
  BY DEF FenceInv, FenceParts, ExecutionsCovered, RowsComplete, TypeOK,
         HazardCoversExecution
<1> QED
  BY <1>1, FenceInvariant, PTL

-----------------------------------------------------------------------------
(***************************************************************************)
(* Idempotency, dispatch and the contract.  That a clientRequestId calls   *)
(* the executor once rests on three facts the fence does not give: no two  *)
(* rows share a key, a goroutine passes the executor call once, and what   *)
(* it has passed shows in the state of its row.                            *)
(***************************************************************************)

\* The unique constraint on (session, clientRequestId).
KeysUnique ==
    \A r1, r2 \in Run :
        SameSession(r1, r2) /\ runReq[r1].key = runReq[r2].key => r1 = r2

\* The executor was called at most once, and only for a goroutine that is past
\* the call; whoever shows the effects of a call was called.
DispatchedOnce ==
    \A r \in Run :
        /\ dispatched[r] <= 1
        /\ dispatched[r] > 0 =>
              pc[r] \notin {"none", "starting", "checked", "aborting", "ready"}
        /\ r \in alive \/ pc[r] = "processing" \/ outcome[r] = "completed" =>
              dispatched[r] > 0

\* A goroutine past transition has its start in the row; only a successor's
\* reconciliation or a cancel request can have changed the row since.
StartRecorded ==
    \A r \in Run :
        /\ pc[r] = "ready" => runState[r] \in {"running", "cancel_requested", "failed"}
        /\ pc[r] \in {"processing", "returned", "retrying", "clearing"} =>
              runState[r] # "queued"

\* A receipt names the row that holds its request.
ReceiptsHeld == \A c \in receipts : runReq[c.run] = c.request

DispatchParts == KeysUnique /\ DispatchedOnce /\ StartRecorded /\ ReceiptsHeld

DispatchInv == FenceInv /\ DispatchParts

\* A step that leaves requests, receipts, executions and dispatches alone, and
\* moves no goroutine towards the executor call, keeps the four parts.
LEMMA QuietDispatch ==
    ASSUME DispatchInv,
           UNCHANGED <<runReq, receipts, alive, dispatched, outcome>>,
           \A o \in Run : \/ pc'[o] = pc[o]
                          \/ pc'[o] \in {"exiting", "done"}
                          \/ pc[o] = "clearing" /\ pc'[o] = "retrying"
                          \/ pc[o] = "starting" /\ pc'[o] \in {"checked", "aborting"},
           \A o \in Run : \/ runState'[o] = runState[o]
                          \/ runState'[o] \in {"cancel_requested", "failed"}
    PROVE  DispatchParts'
<1> USE DEF DispatchInv, FenceInv, TypeOK
<1>1. KeysUnique' /\ ReceiptsHeld'
  BY DEF DispatchParts, KeysUnique, ReceiptsHeld, SameSession
<1>2. DispatchedOnce'
  BY DEF DispatchParts, DispatchedOnce
<1>3. StartRecorded'
  BY DEF DispatchParts, StartRecorded
<1> QED
  BY <1>1, <1>2, <1>3 DEF DispatchParts

\* The reconciliation of an opening store settles runs as failed, nothing else.
LEMMA ReconcileEffect ==
    ASSUME TypeOK, NEW r \in Run, finishTx(r, "failed", TRUE)
    PROVE  /\ runReq' = runReq
           /\ \/ runState' = runState
              \/ IsActive(r) /\ runState' = [runState EXCEPT ![r] = "failed"]
BY DEF finishTx, FinalState, SetRun, db

\* A new row takes a key nobody in its session has, for a goroutine that has
\* not started, or for none.
LEMMA InsertDispatch ==
    ASSUME DispatchInv, NEW r \in Run, NEW req \in Request,
           insertRun(r, req), SameKey(req) = {},
           UNCHANGED <<alive, dispatched, outcome>>,
           pc' = pc \/ pc' = [pc EXCEPT ![r] = "starting"],
           receipts' \in {receipts, receipts \cup {[request |-> req, run |-> r]}}
    PROVE  DispatchParts'
<1> USE RequestAssumption DEF DispatchInv, FenceInv, TypeOK
<1>1. /\ runState[r] = "absent" /\ runReq[r] = None
      /\ runReq' = [runReq EXCEPT ![r] = req]
      /\ runState' = [runState EXCEPT ![r] = "queued"]
  BY DEF insertRun, FenceParts, RowsComplete
<1>2. pc[r] = "none"
  BY <1>1 DEF FenceParts, RowsComplete
<1>3. \A o \in Run : runReq[o] # None /\ runReq[o].session = req.session
                        => runReq[o].key # req.key
  BY DEF SameKey, InSession, FenceParts, RowsComplete
<1>4. KeysUnique'
  BY <1>1, <1>3 DEF DispatchParts, KeysUnique, SameSession
<1>5. DispatchedOnce'
  BY <1>2 DEF DispatchParts, DispatchedOnce
<1>6. StartRecorded'
  BY <1>1, <1>2 DEF DispatchParts, StartRecorded
<1>7. ReceiptsHeld'
  <2> SUFFICES ASSUME NEW c \in receipts' PROVE runReq'[c.run] = c.request
    BY DEF ReceiptsHeld
  <2>1. CASE c \in receipts
    <3>1. runReq[c.run] = c.request /\ c.run \in Run /\ c.request \in Request
      BY <2>1 DEF DispatchParts, ReceiptsHeld
    <3> QED
      BY <3>1, <1>1
  <2>2. CASE c = [request |-> req, run |-> r]
    BY <2>2, <1>1
  <2> QED
    BY <2>1, <2>2
<1> QED
  BY <1>4, <1>5, <1>6, <1>7 DEF DispatchParts

\* acceptLocalMessage answers a retry from the row that holds its request, and
\* gives no second row to a key.
LEMMA AcceptingDispatch ==
    ASSUME DispatchInv, NEW p \in Process, Accepting(p)
    PROVE  DispatchParts'
<1>1. CASE AcceptReplay(p)
  <2>1. PICK r \in SameKey(accepting[p]) :
           /\ SameContent(r, accepting[p])
           /\ receipts' = receipts \cup {[request |-> accepting[p], run |-> r]}
    BY <1>1 DEF AcceptReplay
  <2>2. accepting[p] \in Request
    BY <1>1 DEF AcceptReplay, DispatchInv, FenceInv, TypeOK
  <2>3. r \in Run /\ runReq[r] \in Request
    BY <2>1 DEF SameKey, InSession, DispatchInv, FenceInv, FenceParts,
                RowsComplete, TypeOK
  <2>4. runReq[r] = accepting[p]
    BY <2>1, <2>2, <2>3 DEF SameKey, InSession, SameContent, Request
  <2>5. UNCHANGED <<runReq, runState, pc, outcome, alive, dispatched>>
    BY <1>1 DEF AcceptReplay, db
  <2>6. ReceiptsHeld'
    BY <2>1, <2>3, <2>4, <2>5 DEF DispatchInv, DispatchParts, ReceiptsHeld
  <2>7. KeysUnique' /\ DispatchedOnce' /\ StartRecorded'
    BY <2>5 DEF DispatchInv, DispatchParts, KeysUnique, DispatchedOnce,
                StartRecorded, SameSession
  <2> QED
    BY <2>6, <2>7 DEF DispatchParts
<1>2. CASE AcceptReject(p)
  BY <1>2, QuietDispatch DEF AcceptReject, db, world
<1>3. ASSUME NEW r \in Run, AcceptCommit(p, r) PROVE DispatchParts'
  <2>1. accepting[p] \in Request
    BY <1>3 DEF AcceptCommit, DispatchInv, FenceInv, TypeOK
  <2> QED
    BY <1>3, <2>1, InsertDispatch DEF AcceptCommit, Admissible, GoTo
<1>4. ASSUME NEW r \in Run, AcceptUnconfirmed(p, r) PROVE DispatchParts'
  <2>1. accepting[p] \in Request
    BY <1>4 DEF AcceptUnconfirmed, DispatchInv, FenceInv, TypeOK
  <2> QED
    BY <1>4, <2>1, InsertDispatch DEF AcceptUnconfirmed, Admissible, world
<1> QED
  BY <1>1, <1>2, <1>3, <1>4 DEF Accepting

\* finish settles a run that is past the executor call, or never came to it.
LEMMA SettleDispatch ==
    ASSUME DispatchInv, NEW r \in Run,
           UNCHANGED <<runReq, receipts, alive, dispatched>>,
           pc[r] \in {"aborting", "returned", "retrying"},
           outcome' = [outcome EXCEPT ![r] = "failed"],
           \/ pc' = [pc EXCEPT ![r] = "exiting"]
           \/ pc' = [pc EXCEPT ![r] = "retrying"] /\ pc[r] = "returned"
           \/ pc' = [pc EXCEPT ![r] = "clearing"] /\ runState'[r] = "completed",
           \/ runState' = runState
           \/ \E final \in TerminalStates :
                 runState' = [runState EXCEPT ![r] = final]
    PROVE  DispatchParts'
<1> USE DEF DispatchInv, FenceInv, TypeOK
<1>1. KeysUnique' /\ ReceiptsHeld'
  BY DEF DispatchParts, KeysUnique, ReceiptsHeld, SameSession
<1>2. DispatchedOnce'
  BY DEF DispatchParts, DispatchedOnce
<1>3. StartRecorded'
  <2>1. \A o \in Run : \/ runState'[o] = runState[o]
                       \/ runState'[o] \in TerminalStates
    OBVIOUS
  <2>2. \A o \in Run : \/ pc'[o] = pc[o] /\ (o # r \/ pc[o] = "retrying")
                       \/ pc'[o] = "exiting"
                       \/ pc'[o] = "retrying" /\ pc[o] = "returned"
                       \/ pc'[o] = "clearing" /\ runState'[o] = "completed"
    OBVIOUS
  <2>3. \A o \in Run : o # r => runState'[o] = runState[o]
    OBVIOUS
  <2> QED
    BY <2>1, <2>2, <2>3 DEF DispatchParts, StartRecorded, TerminalStates
<1> QED
  BY <1>1, <1>2, <1>3 DEF DispatchParts

\* executeLocal passes the executor call once, with its start in the row.
LEMMA ExecutingDispatch ==
    ASSUME DispatchInv, NEW r \in Run, Executing(r)
    PROVE  DispatchParts'
<1> USE DEF DispatchInv, FenceInv, TypeOK
<1>1. CASE TransitionCheck(r)
  <2>1. \/ pc' = [pc EXCEPT ![r] = "checked"]
        \/ pc' = [pc EXCEPT ![r] = "aborting"]
    BY <1>1 DEF TransitionCheck, AbortExecution, GoTo
  <2>2. /\ pc[r] = "starting"
        /\ UNCHANGED <<runReq, runState, receipts, alive, dispatched, outcome>>
    BY <1>1 DEF TransitionCheck, db, world
  <2> QED
    BY <2>1, <2>2, QuietDispatch
<1>2. CASE TransitionCommit(r)
  <2>1. /\ pc[r] = "checked" /\ pc' = [pc EXCEPT ![r] = "ready"]
        /\ runState' = [runState EXCEPT ![r] = "running"]
        /\ UNCHANGED <<runReq, receipts, alive, dispatched, outcome>>
    BY <1>2 DEF TransitionCommit, transitionTx, SetRun, GoTo, world
  <2> QED
    BY <2>1 DEF DispatchParts, KeysUnique, DispatchedOnce, StartRecorded,
                ReceiptsHeld, SameSession
<1>3. CASE TransitionError(r)
  <2>1. /\ pc[r] = "checked" /\ pc' = [pc EXCEPT ![r] = "aborting"]
        /\ runState' = runState \/ runState' = [runState EXCEPT ![r] = "running"]
        /\ UNCHANGED <<runReq, receipts, alive, dispatched, outcome>>
    BY <1>3 DEF TransitionError, AbortExecution, transitionTx, SetRun, GoTo, db, world
  <2> QED
    BY <2>1 DEF DispatchParts, KeysUnique, DispatchedOnce, StartRecorded,
                ReceiptsHeld, SameSession
<1>4. CASE Dispatch(r)
  <2>1. /\ pc[r] = "ready" /\ pc' = [pc EXCEPT ![r] = "processing"]
        /\ alive' = alive \cup {r}
        /\ dispatched' = [dispatched EXCEPT ![r] = @ + 1]
        /\ UNCHANGED <<runReq, runState, receipts, outcome>>
    BY <1>4 DEF Dispatch, Dispatchable, GoTo, db
  <2>2. dispatched[r] = 0
    BY <2>1 DEF DispatchParts, DispatchedOnce
  <2>3. DispatchedOnce'
    BY <2>1, <2>2 DEF DispatchParts, DispatchedOnce
  <2>4. KeysUnique' /\ StartRecorded' /\ ReceiptsHeld'
    BY <2>1 DEF DispatchParts, KeysUnique, StartRecorded, ReceiptsHeld, SameSession
  <2> QED
    BY <2>3, <2>4 DEF DispatchParts
<1>5. CASE SkipDispatch(r)
  <2>1. /\ pc[r] = "ready" /\ pc' = [pc EXCEPT ![r] = "returned"]
        /\ outcome'[r] # "completed"
        /\ \A o \in Run : o # r => outcome'[o] = outcome[o]
        /\ UNCHANGED <<runReq, runState, receipts, alive, dispatched>>
    BY <1>5 DEF SkipDispatch, Outcome, GoTo, db, world
  <2> QED
    BY <2>1 DEF DispatchParts, KeysUnique, DispatchedOnce, StartRecorded,
                ReceiptsHeld, SameSession
<1>6. ASSUME NEW result \in {"completed", "failed"}, ProcessReturn(r, result)
      PROVE  DispatchParts'
  <2>1. /\ pc[r] = "processing" /\ pc' = [pc EXCEPT ![r] = "returned"]
        /\ alive' \in SUBSET alive
        /\ \A o \in Run : o # r => outcome'[o] = outcome[o]
        /\ UNCHANGED <<runReq, runState, receipts, dispatched>>
    BY <1>6 DEF ProcessReturn, GoTo, db
  <2> QED
    BY <2>1 DEF DispatchParts, KeysUnique, DispatchedOnce, StartRecorded,
                ReceiptsHeld, SameSession
<1>7. CASE Finish(r)
  <2>1. /\ pc[r] \in {"aborting", "returned", "retrying"}
        /\ outcome' = [outcome EXCEPT ![r] = "failed"]
        /\ UNCHANGED <<receipts, alive, dispatched>>
    BY <1>7 DEF Finish, world
  <2>2. \/ pc' = [pc EXCEPT ![r] = "exiting"]
        \/ pc' = [pc EXCEPT ![r] = "clearing"] /\ runState'[r] = "completed"
    BY <1>7 DEF Finish, MayClear, GoTo
  <2>3. /\ runReq' = runReq
        /\ \/ runState' = runState
           \/ \E final \in TerminalStates :
                 runState' = [runState EXCEPT ![r] = final]
    BY <1>7, FinishTxEffect DEF Finish
  <2> QED
    BY <2>1, <2>2, <2>3, SettleDispatch
<1>8. CASE FinishError(r)
  <2>1. /\ pc[r] \in {"aborting", "returned", "retrying"}
        /\ outcome' = [outcome EXCEPT ![r] = "failed"]
        /\ UNCHANGED <<receipts, alive, dispatched>>
    BY <1>8 DEF FinishError, world
  <2>2. \/ pc' = [pc EXCEPT ![r] = "exiting"]
        \/ pc' = [pc EXCEPT ![r] = "retrying"] /\ pc[r] = "returned"
    BY <1>8 DEF FinishError, AfterFinishError, GoTo
  <2>3. /\ runReq' = runReq
        /\ \/ runState' = runState
           \/ \E final \in TerminalStates :
                 runState' = [runState EXCEPT ![r] = final]
    BY <1>8, FinishTxEffect DEF FinishError, db
  <2> QED
    BY <2>1, <2>2, <2>3, SettleDispatch
<1>9. CASE ClearHazard(r)
  <2>1. /\ pc[r] = "clearing"
        /\ \/ pc' = [pc EXCEPT ![r] = "exiting"]
           \/ pc' = [pc EXCEPT ![r] = "retrying"]
        /\ UNCHANGED <<runReq, runState, receipts, alive, dispatched, outcome>>
    BY <1>9 DEF ClearHazard, GoTo, db, world
  <2> QED
    BY <2>1, QuietDispatch
<1>10. CASE ExecuteExit(r)
  <2>1. /\ pc' = [pc EXCEPT ![r] = "done"]
        /\ UNCHANGED <<runReq, runState, receipts, alive, dispatched, outcome>>
    BY <1>10 DEF ExecuteExit, GoTo, db, world
  <2> QED
    BY <2>1, QuietDispatch
<1> QED
  BY <1>1, <1>2, <1>3, <1>4, <1>5, <1>6, <1>7, <1>8, <1>9, <1>10 DEF Executing

\* Every other step: opening, closing, cancelling and the environment.
LEMMA OtherDispatch ==
    ASSUME DispatchInv,
           \/ \E p \in Process :
                 \/ Opening(p) \/ WatchOwnership(p) \/ Close(p) \/ CloseDone(p)
                 \/ \E req \in Request : AcceptProbe(p, req)
                 \/ AcceptProbeClientGone(p)
                 \/ \E r \in Run, k \in CancelKey : CancelRun(p, r, k)
           \/ Environment
    PROVE  DispatchParts'
<1>1. ASSUME NEW p \in Process, Opening(p) PROVE DispatchParts'
  <2>1. UNCHANGED <<receipts, alive, dispatched, outcome, pc>>
    BY <1>1 DEF Opening, Open, FenceActiveRuns, ListActiveRuns, ReconcileRun,
                FinishOpen, AbortOpen, world
  <2>2. UNCHANGED <<runReq, runState>>
        \/ \E r \in Run : finishTx(r, "failed", TRUE)
    BY <1>1 DEF Opening, Open, FenceActiveRuns, ListActiveRuns, ReconcileRun,
                FinishOpen, AbortOpen, db
  <2>3. /\ runReq' = runReq
        /\ \A o \in Run : runState'[o] \in {runState[o], "failed"}
    BY <2>2, ReconcileEffect DEF DispatchInv, FenceInv, TypeOK
  <2> QED
    BY <2>1, <2>3, QuietDispatch
<1>2. ASSUME NEW p \in Process, NEW r \in Run, NEW k \in CancelKey,
             CancelRun(p, r, k)
      PROVE  DispatchParts'
  <2>1. UNCHANGED <<runReq, receipts, alive, dispatched, outcome, pc>>
    BY <1>2 DEF CancelRun, world
  <2>2. \A o \in Run : runState'[o] \in {runState[o], "cancel_requested"}
    BY <1>2 DEF CancelRun, SetRun, DispatchInv, FenceInv, TypeOK
  <2> QED
    BY <2>1, <2>2, QuietDispatch
<1>3. ASSUME NEW p \in Process,
             \/ WatchOwnership(p) \/ Close(p) \/ CloseDone(p)
             \/ \E req \in Request : AcceptProbe(p, req)
             \/ AcceptProbeClientGone(p)
             \/ LockConnectionDrops(p)
      PROVE  DispatchParts'
  <2>1. UNCHANGED <<runReq, runState, receipts, alive, dispatched, outcome, pc>>
    BY <1>3 DEF WatchOwnership, Close, CloseDone, AcceptProbe,
                AcceptProbeClientGone, LockConnectionDrops, db, memory, world
  <2> QED
    BY <2>1, QuietDispatch
<1>4. ASSUME NEW p \in Process, Crash(p) PROVE DispatchParts'
  <2>1. /\ \A o \in Run : pc'[o] \in {pc[o], "done"}
        /\ UNCHANGED <<runReq, runState, receipts, alive, dispatched, outcome>>
    BY <1>4 DEF Crash, db, world
  <2> QED
    BY <2>1, QuietDispatch
<1>5. ASSUME NEW r \in Run, ContextExpires(r) \/ Recover(r) PROVE DispatchParts'
  <2>1. UNCHANGED <<runReq, runState, receipts, alive, dispatched, outcome, pc>>
    BY <1>5 DEF ContextExpires, Recover, db, memory, world
  <2> QED
    BY <2>1, QuietDispatch
<1>6. ASSUME NEW r \in Run, ExecutorStops(r) PROVE DispatchParts'
  <2>1. /\ alive' \in SUBSET alive
        /\ UNCHANGED <<runReq, runState, receipts, dispatched, outcome, pc>>
    BY <1>6 DEF ExecutorStops, db, memory
  <2> QED
    BY <2>1 DEF DispatchInv, DispatchParts, KeysUnique, DispatchedOnce,
                StartRecorded, ReceiptsHeld, SameSession
<1> QED
  BY <1>1, <1>2, <1>3, <1>4, <1>5, <1>6 DEF Environment

\* The inductive invariant of idempotency and dispatch.
LEMMA DispatchInvariant == Spec => []DispatchInv
<1>1. Init => DispatchParts
  BY DEF Init, DispatchParts, KeysUnique, DispatchedOnce, StartRecorded,
         ReceiptsHeld, SameSession
<1>2. FenceInv /\ DispatchParts /\ [Next]_vars => DispatchParts'
  <2> SUFFICES ASSUME DispatchInv, [Next]_vars PROVE DispatchParts'
    BY DEF DispatchInv
  <2>1. CASE UNCHANGED vars
    <3>1. UNCHANGED <<runReq, runState, receipts, alive, dispatched, outcome, pc>>
      BY <2>1 DEF vars, db, memory, world
    <3> QED
      BY <3>1, QuietDispatch
  <2>2. CASE Next
    BY <2>2, AcceptingDispatch, ExecutingDispatch, OtherDispatch DEF Next
  <2> QED
    BY <2>1, <2>2
<1> QED
  BY <1>1, <1>2, FenceInvariant, PTL DEF Spec, DispatchInv

\* The executor is called at most once per clientRequestId of a session, across
\* retries, unconfirmed commits, takeovers and crashes.
THEOREM DispatchedAtMostOnce == Spec => []AtMostOneDispatch
<1>1. DispatchInv => AtMostOneDispatch
  <2> SUFFICES ASSUME DispatchInv PROVE AtMostOneDispatch
    OBVIOUS
  <2>1. \A r \in Run : dispatched[r] > 0 => runReq[r] # None
    BY DEF DispatchInv, DispatchParts, DispatchedOnce, FenceInv, FenceParts,
           RowsComplete
  <2> QED
    BY <2>1 DEF AtMostOneDispatch, DispatchInv, DispatchParts, DispatchedOnce,
                KeysUnique, SameSession
<1> QED
  BY <1>1, DispatchInvariant, PTL

\* All receipts a client was given for one clientRequestId are the same receipt,
\* for the content the row holds.
THEOREM ReceiptsAlwaysAgree == Spec => []ReceiptsAgree
<1>1. DispatchInv => ReceiptsAgree
  <2> SUFFICES ASSUME DispatchInv, NEW c1 \in receipts, NEW c2 \in receipts,
                      c1.request.session = c2.request.session,
                      c1.request.key = c2.request.key
               PROVE  c1 = c2
    BY DEF ReceiptsAgree
  <2>1. /\ c1 \in [request : Request, run : Run]
        /\ c2 \in [request : Request, run : Run]
    BY DEF DispatchInv, FenceInv, TypeOK
  <2>2. runReq[c1.run] = c1.request /\ runReq[c2.run] = c2.request
    BY DEF DispatchInv, DispatchParts, ReceiptsHeld
  <2>3. c1.run = c2.run
    BY <2>1, <2>2, RequestAssumption
       DEF DispatchInv, DispatchParts, KeysUnique, SameSession
  <2> QED
    BY <2>1, <2>2, <2>3
<1> QED
  BY <1>1, DispatchInvariant, PTL

-----------------------------------------------------------------------------
(***************************************************************************)
(* The session row and the journal.  A write about a run also writes the   *)
(* row of its session; that the row then shows the latest run rests on the *)
(* journal: an unsettled run is the one its session's last event is about. *)
(***************************************************************************)
LatestRun(s) == log[s][Len(log[s])].run

LatestIsOwn ==
    \A s \in Session : log[s] # <<>> =>
        runReq[LatestRun(s)] # None /\ runReq[LatestRun(s)].session = s

ActiveIsLatest ==
    \A r \in Run, s \in Session :
        IsActive(r) /\ runReq[r].session = s => log[s] # <<>> /\ LatestRun(s) = r

JournalParts == LatestIsOwn /\ ActiveIsLatest /\ SessionShowsLatestRun

JournalInv == FenceInv /\ JournalParts

\* The last element of a concatenation.
LEMMA LastOfConcatenation ==
    ASSUME NEW S, NEW a \in Seq(S), NEW b \in Seq(S), Len(b) > 0
    PROVE  a \o b # <<>> /\ (a \o b)[Len(a \o b)] = b[Len(b)]
<1>1. Len(a) \in Nat /\ Len(b) \in Nat /\ Len(a \o b) = Len(a) + Len(b)
  OBVIOUS
<1>2. \A i \in 1..Len(a) + Len(b) : Len(a) < i => (a \o b)[i] = b[i - Len(a)]
  BY <1>1
<1>3. (a \o b)[Len(a) + Len(b)] = b[(Len(a) + Len(b)) - Len(a)]
  BY <1>1, <1>2
<1>4. (Len(a) + Len(b)) - Len(a) = Len(b)
  BY <1>1
<1>5. a \o b # <<>>
  BY <1>1
<1> QED
  BY <1>1, <1>3, <1>4, <1>5

\* After appendEvents the session's last event is about the run it was given;
\* other journals are as they were.
LEMMA AppendEffect ==
    ASSUME TypeOK, NEW s \in Session, NEW r \in Run,
           NEW types \in Seq(EventTypes), Len(types) > 0, appendEvents(s, r, types)
    PROVE  /\ log'[s] # <<>> /\ LatestRun(s)' = r
           /\ \A t \in Session : t # s => log'[t] = log[t]
<1> DEFINE entries == [i \in 1..Len(types) |-> [run |-> r, type |-> types[i]]]
<1>1. Len(types) \in Nat /\ \A i \in 1..Len(types) : types[i] \in EventTypes
  OBVIOUS
<1>2. entries \in [1..Len(types) -> Event]
  BY <1>1 DEF Event
<1>3. /\ entries \in Seq(Event) /\ Len(entries) = Len(types)
      /\ entries[Len(types)].run = r
  BY <1>1, <1>2
<1>4. log' = [log EXCEPT ![s] = log[s] \o entries]
  BY DEF appendEvents
<1>5. log[s] \in Seq(Event) /\ log \in [Session -> Seq(Event)]
  BY DEF TypeOK
<1> HIDE DEF entries
<1>6. /\ log[s] \o entries # <<>>
      /\ (log[s] \o entries)[Len(log[s] \o entries)] = entries[Len(entries)]
  BY <1>3, <1>5, LastOfConcatenation
<1>7. log'[s] = log[s] \o entries
  BY <1>4, <1>5
<1>8. LatestRun(s)' = r
  BY <1>3, <1>6, <1>7 DEF LatestRun
<1> QED
  BY <1>4, <1>5, <1>6, <1>7, <1>8

\* The last event of a journal is about a run.
LEMMA LatestRunType ==
    ASSUME TypeOK, NEW s \in Session, log[s] # <<>> PROVE LatestRun(s) \in Run
<1>1. log[s] \in Seq(Event)
  BY DEF TypeOK
<1>2. Len(log[s]) \in 1..Len(log[s])
  BY <1>1
<1>3. log[s][Len(log[s])] \in Event
  BY <1>1, <1>2
<1> QED
  BY <1>3 DEF LatestRun, Event

\* A write about an unsettled run, in its row, in its session's row and in its
\* session's journal.
LEMMA WriteJournal ==
    ASSUME JournalInv, NEW r \in Run, NEW state, NEW types \in Seq(EventTypes),
           Len(types) > 0, IsActive(r), runReq' = runReq,
           SetRun(r, state), appendEvents(runReq[r].session, r, types)
    PROVE  JournalParts'
<1> USE RequestAssumption DEF JournalInv, FenceInv
<1>1. runReq[r] \in Request /\ runReq[r] # None /\ runReq[r].session \in Session
  BY DEF FenceParts, RowsComplete, TypeOK, IsActive, ActiveStates, Request
<1>2. PICK s \in Session : runReq[r].session = s
  BY <1>1
<1>3. /\ log'[s] # <<>> /\ LatestRun(s)' = r
      /\ \A t \in Session : t # s => log'[t] = log[t] /\ LatestRun(t)' = LatestRun(t)
  BY <1>2, AppendEffect DEF LatestRun
<1>4. /\ runState' = [runState EXCEPT ![r] = state]
      /\ sessionState' = [sessionState EXCEPT ![s] = state]
  BY <1>2 DEF SetRun
<1>5. LatestIsOwn'
  BY <1>1, <1>2, <1>3 DEF JournalParts, LatestIsOwn
<1>6. ActiveIsLatest'
  <2> SUFFICES ASSUME NEW o \in Run, NEW t \in Session, IsActive(o)',
                      runReq[o].session = t
               PROVE  log'[t] # <<>> /\ LatestRun(t)' = o
    BY DEF ActiveIsLatest
  <2>1. CASE o = r
    BY <2>1, <1>2, <1>3
  <2>2. CASE o # r
    <3>1. IsActive(o)
      BY <2>2, <1>4 DEF IsActive, TypeOK
    <3>2. runReq[o] # None
      BY <3>1 DEF FenceParts, RowsComplete, IsActive, ActiveStates
    <3>3. t # s
      BY <1>1, <1>2, <2>2, <3>1, <3>2 DEF FenceParts, OneActiveRun, SameSession
    <3> QED
      BY <1>3, <3>1, <3>3 DEF JournalParts, ActiveIsLatest
  <2> QED
    BY <2>1, <2>2
<1>7. SessionShowsLatestRun'
  <2> SUFFICES ASSUME NEW t \in Session
               PROVE  IF log'[t] = <<>> THEN sessionState'[t] = "idle"
                      ELSE sessionState'[t] = runState[LatestRun(t)]'
    BY DEF SessionShowsLatestRun, LatestRun
  <2>1. CASE t = s
    BY <2>1, <1>3, <1>4 DEF TypeOK
  <2>2. CASE t # s
    <3>1. /\ sessionState'[t] = sessionState[t]
          /\ log'[t] = log[t] /\ LatestRun(t)' = LatestRun(t)
      BY <2>2, <1>3, <1>4 DEF TypeOK
    <3>2. log[t] # <<>> => LatestRun(t) # r
      BY <2>2, <1>2 DEF JournalParts, LatestIsOwn
    <3>3. log[t] # <<>> => runState'[LatestRun(t)] = runState[LatestRun(t)]
      BY <3>2, <1>4, LatestRunType DEF TypeOK
    <3> QED
      BY <3>1, <3>3 DEF JournalParts, SessionShowsLatestRun, LatestRun
  <2> QED
    BY <2>1, <2>2
<1> QED
  BY <1>5, <1>6, <1>7 DEF JournalParts

\* A new run is inserted where its session has no unsettled run.
LEMMA InsertJournal ==
    ASSUME JournalInv, NEW r \in Run, NEW req \in Request,
           insertRun(r, req), ~Busy(req.session)
    PROVE  JournalParts'
<1> USE RequestAssumption DEF JournalInv, FenceInv
<1>1. PICK s \in Session : req.session = s
  BY DEF Request
<1>2. /\ runState[r] = "absent" /\ runReq[r] = None
      /\ runReq' = [runReq EXCEPT ![r] = req] /\ req.session = s
      /\ runState' = [runState EXCEPT ![r] = "queued"]
      /\ sessionState' = [sessionState EXCEPT ![s] = "queued"]
      /\ appendEvents(s, r, <<"message.created", "run.queued">>)
  BY <1>1 DEF insertRun, FenceParts, RowsComplete
<1>3. /\ log'[s] # <<>> /\ LatestRun(s)' = r
      /\ \A t \in Session : t # s => log'[t] = log[t] /\ LatestRun(t)' = LatestRun(t)
  <2>1. /\ <<"message.created", "run.queued">> \in Seq(EventTypes)
        /\ Len(<<"message.created", "run.queued">>) > 0
    BY DEF EventTypes
  <2> QED
    BY <2>1, <1>1, <1>2, AppendEffect DEF LatestRun
<1>4. \A t \in Session : log[t] # <<>> => LatestRun(t) \in Run /\ LatestRun(t) # r
  BY <1>2, LatestRunType DEF JournalParts, LatestIsOwn
<1>5. LatestIsOwn'
  <2> SUFFICES ASSUME NEW t \in Session, log'[t] # <<>>
               PROVE  (runReq[LatestRun(t)] # None /\ runReq[LatestRun(t)].session = t)'
    BY DEF LatestIsOwn
  <2>1. CASE t = s
    BY <2>1, <1>1, <1>2, <1>3 DEF TypeOK
  <2>2. CASE t # s
    <3>1. /\ LatestRun(t)' = LatestRun(t) /\ LatestRun(t) \in Run
          /\ runReq[LatestRun(t)] # None /\ runReq[LatestRun(t)].session = t
          /\ LatestRun(t) # r
      BY <2>2, <1>3, <1>4 DEF JournalParts, LatestIsOwn
    <3> QED
      BY <3>1, <1>2 DEF TypeOK
  <2> QED
    BY <2>1, <2>2
<1>6. ActiveIsLatest'
  <2> SUFFICES ASSUME NEW o \in Run, NEW t \in Session, IsActive(o)',
                      runReq'[o].session = t
               PROVE  log'[t] # <<>> /\ LatestRun(t)' = o
    BY DEF ActiveIsLatest
  <2>1. CASE o = r
    BY <2>1, <1>2, <1>3 DEF TypeOK
  <2>2. CASE o # r
    <3>1. IsActive(o) /\ runReq'[o] = runReq[o]
      BY <2>2, <1>2 DEF IsActive, TypeOK
    <3>2. t # s
      BY <1>2, <3>1 DEF Busy, InSession, IsActive, ActiveStates
    <3> QED
      BY <1>3, <3>1, <3>2 DEF JournalParts, ActiveIsLatest
  <2> QED
    BY <2>1, <2>2
<1>7. SessionShowsLatestRun'
  <2> SUFFICES ASSUME NEW t \in Session
               PROVE  IF log'[t] = <<>> THEN sessionState'[t] = "idle"
                      ELSE sessionState'[t] = runState[LatestRun(t)]'
    BY DEF SessionShowsLatestRun, LatestRun
  <2>1. CASE t = s
    BY <2>1, <1>2, <1>3 DEF TypeOK
  <2>2. CASE t # s
    <3>1. /\ sessionState'[t] = sessionState[t]
          /\ log'[t] = log[t] /\ LatestRun(t)' = LatestRun(t)
      BY <2>2, <1>2, <1>3 DEF TypeOK
    <3>2. log[t] # <<>> => runState'[LatestRun(t)] = runState[LatestRun(t)]
      BY <1>2, <1>4 DEF TypeOK
    <3> QED
      BY <3>1, <3>2 DEF JournalParts, SessionShowsLatestRun, LatestRun
  <2> QED
    BY <2>1, <2>2
<1> QED
  BY <1>5, <1>6, <1>7 DEF JournalParts

\* A step that leaves the tables alone.
LEMMA QuietJournal ==
    ASSUME JournalInv, UNCHANGED <<runReq, runState, sessionState, log>>
    PROVE  JournalParts'
BY DEF JournalInv, JournalParts, LatestIsOwn, ActiveIsLatest,
       SessionShowsLatestRun, LatestRun, IsActive

\* finish writes about an unsettled run, or not at all.
LEMMA FinishTxJournal ==
    ASSUME JournalInv, NEW r \in Run, NEW state, NEW restart,
           finishTx(r, state, restart)
    PROVE  JournalParts'
<1>1. CASE ~IsActive(r)
  BY <1>1, QuietJournal DEF finishTx, db
<1>2. CASE IsActive(r)
  <2> DEFINE final == FinalState(r, state, restart)
             types == IF final = "completed"
                      THEN <<"assistant.message.created", "run.completed">>
                      ELSE <<IF final = "failed" THEN "run.failed"
                             ELSE "run.cancelled">>
  <2>1. types \in Seq(EventTypes) /\ Len(types) > 0
    <3>1. /\ <<"assistant.message.created", "run.completed">> \in Seq(EventTypes)
          /\ <<"run.failed">> \in Seq(EventTypes)
          /\ <<"run.cancelled">> \in Seq(EventTypes)
      BY DEF EventTypes
    <3> QED
      BY <3>1
  <2>2. SetRun(r, final) /\ appendEvents(runReq[r].session, r, types)
        /\ runReq' = runReq
    BY <1>2 DEF finishTx
  <2> HIDE DEF final, types
  <2> QED
    BY <1>2, <2>1, <2>2, WriteJournal
<1> QED
  BY <1>1, <1>2

\* transition writes about a queued run.
LEMMA TransitionTxJournal ==
    ASSUME JournalInv, NEW r \in Run, transitionTx(r)
    PROVE  JournalParts'
<1>1. /\ <<"run.running", "run.progressed">> \in Seq(EventTypes)
      /\ Len(<<"run.running", "run.progressed">>) > 0
  BY DEF EventTypes
<1>2. IsActive(r) /\ runReq' = runReq
  BY DEF transitionTx, IsActive, ActiveStates
<1> QED
  BY <1>1, <1>2, WriteJournal DEF transitionTx

\* cancelRun writes about a queued or running run, or not at all.
LEMMA CancelRunJournal ==
    ASSUME JournalInv, NEW p \in Process, NEW r \in Run, NEW k \in CancelKey,
           CancelRun(p, r, k)
    PROVE  JournalParts'
<1>1. CASE ~Cancellable(r)
  BY <1>1, QuietJournal DEF CancelRun
<1>2. CASE Cancellable(r)
  <2>1. /\ <<"run.cancel_requested">> \in Seq(EventTypes)
        /\ Len(<<"run.cancel_requested">>) > 0
    BY DEF EventTypes
  <2>2. IsActive(r) /\ runReq' = runReq
    BY <1>2 DEF CancelRun, Cancellable, IsActive, ActiveStates
  <2>3. /\ SetRun(r, "cancel_requested")
        /\ appendEvents(runReq[r].session, r, <<"run.cancel_requested">>)
    BY <1>2 DEF CancelRun
  <2> QED
    BY <2>1, <2>2, <2>3, WriteJournal
<1> QED
  BY <1>1, <1>2

\* The inductive invariant of the session rows: every transaction of the store
\* keeps it, every other step leaves the tables alone.
LEMMA JournalInvariant == Spec => []JournalInv
<1>1. Init => JournalParts
  BY DEF Init, JournalParts, LatestIsOwn, ActiveIsLatest, SessionShowsLatestRun,
         IsActive, ActiveStates
<1>2. FenceInv /\ JournalParts /\ [Next]_vars => JournalParts'
  <2> SUFFICES ASSUME JournalInv, [Next]_vars PROVE JournalParts'
    BY DEF JournalInv
  <2>1. CASE UNCHANGED vars
    BY <2>1, QuietJournal DEF vars, db
  <2>2. ASSUME NEW p \in Process, Opening(p) PROVE JournalParts'
    <3>1. UNCHANGED db \/ \E r \in Run : finishTx(r, "failed", TRUE)
      BY <2>2 DEF Opening, Open, FenceActiveRuns, ListActiveRuns, ReconcileRun,
                  FinishOpen, AbortOpen
    <3> QED
      BY <3>1, FinishTxJournal, QuietJournal DEF db
  <2>3. ASSUME NEW p \in Process, Accepting(p) PROVE JournalParts'
    <3>1. \/ UNCHANGED db
          \/ \E r \in Run : /\ accepting[p] # None
                            /\ insertRun(r, accepting[p])
                            /\ ~Busy(accepting[p].session)
      BY <2>3 DEF Accepting, AcceptReplay, AcceptReject, AcceptCommit,
                  AcceptUnconfirmed, Admissible
    <3>2. accepting[p] # None => accepting[p] \in Request
      BY DEF JournalInv, FenceInv, TypeOK
    <3> QED
      BY <3>1, <3>2, InsertJournal, QuietJournal DEF db
  <2>4. ASSUME NEW r \in Run, Executing(r) PROVE JournalParts'
    <3>1. UNCHANGED db \/ transitionTx(r) \/ finishTx(r, outcome[r], FALSE)
      BY <2>4 DEF Executing, TransitionCheck, TransitionCommit, TransitionError,
                  Dispatch, SkipDispatch, ProcessReturn, Finish, FinishError,
                  ClearHazard, ExecuteExit
    <3> QED
      BY <3>1, TransitionTxJournal, FinishTxJournal, QuietJournal DEF db
  <2>5. ASSUME NEW p \in Process, NEW r \in Run, NEW k \in CancelKey,
               CancelRun(p, r, k)
        PROVE  JournalParts'
    BY <2>5, CancelRunJournal
  <2>6. ASSUME NEW p \in Process,
               \/ WatchOwnership(p) \/ Close(p) \/ CloseDone(p)
               \/ \E req \in Request : AcceptProbe(p, req)
               \/ AcceptProbeClientGone(p)
        PROVE  JournalParts'
    BY <2>6, QuietJournal DEF WatchOwnership, Close, CloseDone, AcceptProbe,
                              AcceptProbeClientGone, db
  <2>7. CASE Environment
    BY <2>7, QuietJournal DEF Environment, LockConnectionDrops, Crash,
                              ExecutorStops, ContextExpires, Recover, db
  <2> QED
    BY <2>1, <2>2, <2>3, <2>4, <2>5, <2>6, <2>7 DEF Next
<1> QED
  BY <1>1, <1>2, FenceInvariant, PTL DEF Spec, JournalInv

\* A session's run_state is the state of the run its last event is about,
\* whoever wrote it and however late.
THEOREM SessionFollowsJournal == Spec => []SessionShowsLatestRun
<1>1. JournalInv => SessionShowsLatestRun
  BY DEF JournalInv, JournalParts
<1> QED
  BY <1>1, JournalInvariant, PTL

-----------------------------------------------------------------------------
(***************************************************************************)
(* What the journal says of a run.  An event is found by its rank among    *)
(* the events of its run, so that an append is one more element of a       *)
(* finite set and leaves the ranks before it alone.                        *)
(***************************************************************************)

\* An event of r is the next one of its history.
LEMMA ReadsAppend ==
    ASSUME NEW journal \in Seq(Event), NEW e \in Event, NEW history \in Seq(EventTypes),
           Reads(journal, e.run, history)
    PROVE  Reads(Append(journal, e), e.run, Append(history, e.type))
<1>1. PICK n, m, r, grown, longer, E, G :
        /\ n = Len(journal) /\ m = Len(history) /\ r = e.run
        /\ grown = Append(journal, e) /\ longer = Append(history, e.type)
        /\ E = EventsOf(journal, r) /\ G = EventsOf(grown, r)
  OBVIOUS
<1>2. /\ n \in Nat /\ m \in Nat /\ Len(grown) = n + 1 /\ grown[n + 1] = e
      /\ \A i \in 1..n : grown[i] = journal[i]
      /\ Len(longer) = m + 1 /\ longer[m + 1] = e.type
      /\ \A i \in 1..m : longer[i] = history[i]
  BY <1>1 DEF Event
<1>3. E \in SUBSET (1..n) /\ IsFiniteSet(1..n)
  <2>1. E \in SUBSET (1..n)
    BY <1>1, <1>2 DEF EventsOf
  <2>2. IsFiniteSet(1..n)
    <3>1. 1 \in Int /\ n \in Int
      BY <1>2
    <3> QED
      BY <3>1, FS_Interval
  <2> QED
    BY <2>1, <2>2
<1>4. IsFiniteSet(E)
  BY <1>3, FS_Subset
<1>5. n + 1 \notin E /\ G = E \cup {n + 1}
  BY <1>1, <1>2, <1>3 DEF EventsOf
<1>6. Cardinality(E) = m /\ Cardinality(G) = m + 1
  <2>1. Cardinality(E) = m
    BY <1>1 DEF Reads
  <2>2. Cardinality(E \cup {n + 1}) = Cardinality(E) + 1
    BY <1>4, <1>5, FS_AddElement
  <2> QED
    BY <1>5, <2>1, <2>2
<1>7. ASSUME NEW i \in G
      PROVE  grown[i].type = longer[Cardinality({j \in G : j <= i})]
  <2>1. CASE i = n + 1
    <3>1. \A j \in G : j <= i
      BY <1>2, <1>3, <1>5, <2>1
    <3>2. {j \in G : j <= i} = G
      BY <3>1
    <3> QED
      BY <1>2, <1>6, <2>1, <3>2
  <2>2. CASE i # n + 1
    <3>1. PICK before : before = {j \in E : j <= i}
      OBVIOUS
    <3>2. i \in E /\ {j \in G : j <= i} = before
      BY <1>2, <1>3, <1>5, <1>7, <2>2, <3>1
    <3>3. before \in SUBSET E /\ i \in before
      BY <1>2, <1>3, <3>1, <3>2
    <3>4. IsFiniteSet(before) /\ Cardinality(before) <= m /\ Cardinality(before) \in Nat
      BY <1>4, <1>6, <3>3, FS_Subset, FS_CardinalityType
    <3>5. Cardinality(before) # 0
      BY <3>3, <3>4, FS_EmptySet
    <3>6. Cardinality(before) \in 1..m
      BY <1>2, <3>4, <3>5
    <3>7. journal[i].type = history[Cardinality(before)]
      BY <1>1, <3>1, <3>2 DEF Reads
    <3> QED
      BY <1>2, <1>3, <3>2, <3>6, <3>7
  <2> QED
    BY <2>1, <2>2
<1> QED
  BY <1>1, <1>2, <1>6, <1>7 DEF Reads

\* An event of another run is none of r's.
LEMMA ReadsOther ==
    ASSUME NEW journal \in Seq(Event), NEW e \in Event, NEW r, r # e.run,
           NEW history, Reads(journal, r, history)
    PROVE  Reads(Append(journal, e), r, history)
<1>1. PICK grown : grown = Append(journal, e)
  OBVIOUS
<1>2. /\ Len(grown) = Len(journal) + 1 /\ Len(journal) \in Nat /\ grown[Len(journal) + 1] = e
      /\ \A i \in 1..Len(journal) : grown[i] = journal[i]
  BY <1>1
<1>3. EventsOf(grown, r) = EventsOf(journal, r)
  BY <1>2 DEF EventsOf
<1>4. \A i \in EventsOf(journal, r) : grown[i] = journal[i]
  BY <1>2 DEF EventsOf
<1> QED
  BY <1>1, <1>3, <1>4 DEF Reads

\* Every transaction writes one event or two.
Batch == {<<a>> : a \in EventTypes} \cup {<<a, b>> : a, b \in EventTypes}

LEMMA ConcatOne == ASSUME NEW S, NEW q \in Seq(S), NEW x \in S PROVE q \o <<x>> = Append(q, x)
OBVIOUS

LEMMA ConcatTwo ==
    ASSUME NEW S, NEW q \in Seq(S), NEW x \in S, NEW y \in S
    PROVE  q \o <<x, y>> = Append(Append(q, x), y)
OBVIOUS

\* The journal after a transaction on r: one or two events of r at its end.
LEMMA BatchIs ==
    ASSUME TypeOK, NEW s \in Session, NEW r \in Run, NEW types \in Batch,
           appendEvents(s, r, types)
    PROVE  /\ \A t \in Session : t # s => log'[t] = log[t]
           /\ \/ \E a \in Event : /\ a.run = r /\ types = <<a.type>>
                                  /\ log'[s] = Append(log[s], a)
              \/ \E a, b \in Event : /\ a.run = r /\ b.run = r /\ types = <<a.type, b.type>>
                                     /\ log'[s] = Append(Append(log[s], a), b)
<1>1. PICK entries : entries = [i \in 1..Len(types) |-> [run |-> r, type |-> types[i]]]
  OBVIOUS
<1>2. log[s] \in Seq(Event) /\ log \in [Session -> Seq(Event)]
  BY DEF TypeOK
<1>3. log' = [log EXCEPT ![s] = log[s] \o entries]
  BY <1>1 DEF appendEvents
<1>4. log'[s] = log[s] \o entries /\ \A t \in Session : t # s => log'[t] = log[t]
  BY <1>2, <1>3
<1>5. ASSUME NEW x \in EventTypes, types = <<x>>
      PROVE  \E a \in Event : a.run = r /\ types = <<a.type>> /\ log'[s] = Append(log[s], a)
  <2>1. PICK a : a = [run |-> r, type |-> x]
    OBVIOUS
  <2>2. a \in Event /\ a.run = r /\ a.type = x
    BY <2>1 DEF Event
  <2>3. entries = <<a>>
    BY <1>1, <1>5, <2>1
  <2>4. log[s] \o <<a>> = Append(log[s], a)
    BY <1>2, <2>2, ConcatOne
  <2> QED
    BY <1>4, <1>5, <2>2, <2>3, <2>4
<1>6. ASSUME NEW x \in EventTypes, NEW y \in EventTypes, types = <<x, y>>
      PROVE  \E a, b \in Event : /\ a.run = r /\ b.run = r /\ types = <<a.type, b.type>>
                                 /\ log'[s] = Append(Append(log[s], a), b)
  <2>1. PICK a, b : a = [run |-> r, type |-> x] /\ b = [run |-> r, type |-> y]
    OBVIOUS
  <2>2. a \in Event /\ b \in Event /\ a.run = r /\ b.run = r /\ a.type = x /\ b.type = y
    BY <2>1 DEF Event
  <2>3. entries = <<a, b>>
    BY <1>1, <1>6, <2>1
  <2>4. log[s] \o <<a, b>> = Append(Append(log[s], a), b)
    BY <1>2, <2>2, ConcatTwo
  <2> QED
    BY <1>4, <1>6, <2>2, <2>3, <2>4
<1> QED
  BY <1>4, <1>5, <1>6 DEF Batch

\* What a transaction on r adds to the journal of its session.
LEMMA BatchReads ==
    ASSUME TypeOK, NEW s \in Session, NEW r \in Run, NEW types \in Batch,
           appendEvents(s, r, types)
    PROVE  /\ \A i \in 1..Len(log'[s]) :
                 log'[s][i].run = r \/ (i \in 1..Len(log[s]) /\ log'[s][i] = log[s][i])
           /\ \A h \in Seq(EventTypes) : Reads(log[s], r, h) => Reads(log'[s], r, h \o types)
           /\ \A o, h : o # r /\ Reads(log[s], o, h) => Reads(log'[s], o, h)
<1>1. PICK q : q = log[s] /\ q \in Seq(Event)
  BY DEF TypeOK
<1>2. ASSUME NEW a \in Event, a.run = r, types = <<a.type>>, log'[s] = Append(q, a)
      PROVE  /\ \A i \in 1..Len(log'[s]) : log'[s][i].run = r \/ (i \in 1..Len(q) /\ log'[s][i] = q[i])
             /\ \A h \in Seq(EventTypes) : Reads(q, r, h) => Reads(log'[s], r, h \o types)
             /\ \A o, h : o # r /\ Reads(q, o, h) => Reads(log'[s], o, h)
  <2>1. \A i \in 1..Len(log'[s]) : log'[s][i].run = r \/ (i \in 1..Len(q) /\ log'[s][i] = q[i])
    BY <1>1, <1>2
  <2>2. a.type \in EventTypes
    BY DEF Event
  <2>3. ASSUME NEW h \in Seq(EventTypes), Reads(q, r, h) PROVE Reads(log'[s], r, h \o types)
    <3>1. h \o types = Append(h, a.type)
      BY <1>2, <2>2, ConcatOne
    <3>2. Reads(q, a.run, h)
      BY <1>2, <2>3
    <3>3. Reads(Append(q, a), a.run, Append(h, a.type))
      BY <1>1, <3>2, ReadsAppend
    <3> QED
      BY <1>2, <3>1, <3>3
  <2>4. \A o, h : o # r /\ Reads(q, o, h) => Reads(log'[s], o, h)
    BY <1>1, <1>2, ReadsOther
  <2> QED
    BY <2>1, <2>3, <2>4
<1>3. ASSUME NEW a \in Event, NEW b \in Event, a.run = r, b.run = r, types = <<a.type, b.type>>,
             log'[s] = Append(Append(q, a), b)
      PROVE  /\ \A i \in 1..Len(log'[s]) : log'[s][i].run = r \/ (i \in 1..Len(q) /\ log'[s][i] = q[i])
             /\ \A h \in Seq(EventTypes) : Reads(q, r, h) => Reads(log'[s], r, h \o types)
             /\ \A o, h : o # r /\ Reads(q, o, h) => Reads(log'[s], o, h)
  <2>1. PICK one : one = Append(q, a)
    OBVIOUS
  <2>2. one \in Seq(Event) /\ a.type \in EventTypes /\ b.type \in EventTypes
    BY <1>1, <2>1 DEF Event
  <2>3. \A i \in 1..Len(log'[s]) : log'[s][i].run = r \/ (i \in 1..Len(q) /\ log'[s][i] = q[i])
    <3>1. /\ Len(q) \in Nat /\ Len(one) = Len(q) + 1 /\ Len(log'[s]) = Len(q) + 2
          /\ log'[s][Len(q) + 1] = a /\ log'[s][Len(q) + 2] = b
          /\ \A i \in 1..Len(q) : log'[s][i] = q[i]
      BY <1>1, <1>3, <2>1, <2>2
    <3> QED
      BY <1>3, <3>1
  <2>4. ASSUME NEW h \in Seq(EventTypes), Reads(q, r, h) PROVE Reads(log'[s], r, h \o types)
    <3>1. PICK more : more = Append(h, a.type)
      OBVIOUS
    <3>2. more \in Seq(EventTypes) /\ Reads(one, r, more)
      <4>1. more \in Seq(EventTypes)
        BY <2>2, <3>1
      <4>2. Reads(q, a.run, h)
        BY <1>3, <2>4
      <4>3. Reads(Append(q, a), a.run, Append(h, a.type))
        BY <1>1, <4>2, ReadsAppend
      <4> QED
        BY <1>3, <2>1, <3>1, <4>1, <4>3
    <3>3. Reads(log'[s], r, Append(more, b.type))
      BY <1>3, <2>1, <2>2, <3>2, ReadsAppend
    <3>4. h \o types = Append(more, b.type)
      BY <1>3, <2>2, <3>1, ConcatTwo
    <3> QED
      BY <3>3, <3>4
  <2>5. ASSUME NEW o, NEW h, o # r, Reads(q, o, h) PROVE Reads(log'[s], o, h)
    <3>1. Reads(one, o, h)
      BY <1>1, <1>3, <2>1, <2>5, ReadsOther
    <3> QED
      BY <1>3, <2>1, <2>2, <2>5, <3>1, ReadsOther
  <2> QED
    BY <2>3, <2>4, <2>5
<1> QED
  BY <1>1, <1>2, <1>3, BatchIs

\* An event is about a run of the journal's session.
EventsAreOwn ==
    \A s \in Session : \A i \in 1..Len(log[s]) :
        runReq[log[s][i].run] # None /\ runReq[log[s][i].run].session = s

\* Only a goroutine whose executor call returned asks finish for more than a failure.
ResultPending == \A r \in Run : outcome[r] # "failed" => pc[r] \in {"returned", "done"}

HistoryParts == EventsAreOwn /\ JournalMatchesRuns

HistoryInv == DispatchInv /\ ResultPending /\ HistoryParts

\* The histories of each state go on to those of the states that may follow it.
LEMMA HistoriesGrow ==
    /\ Histories("absent") = {<<>>} /\ Opened \in Histories("queued")
    /\ \A h \in Histories("queued") : h \o Started \in Histories("running")
    /\ \A h \in Histories("queued") \cup Histories("running") :
          h \o <<"run.cancel_requested">> \in Histories("cancel_requested")
    /\ \A h \in Histories("queued") \cup Histories("running") \cup Histories("cancel_requested") :
          h \o <<"run.failed">> \in Histories("failed")
    /\ \A h \in Histories("running") \cup Histories("cancel_requested") :
          h \o <<"run.cancelled">> \in Histories("cancelled")
    /\ \A h \in Histories("running") :
          h \o <<"assistant.message.created", "run.completed">> \in Histories("completed")
BY DEF Histories

LEMMA HistoriesType == \A state \in ActiveStates : Histories(state) \subseteq Seq(EventTypes)
<1>1. /\ Opened \in Seq(EventTypes) /\ Started \in Seq(EventTypes)
      /\ <<"run.cancel_requested">> \in Seq(EventTypes)
  BY DEF Opened, Started, EventTypes
<1>2. \A a, b \in Seq(EventTypes) : a \o b \in Seq(EventTypes)
  OBVIOUS
<1> QED
  BY <1>1, <1>2 DEF Histories, ActiveStates

\* A transaction about an unsettled run.
LEMMA WriteHistory ==
    ASSUME HistoryInv, NEW r \in Run, NEW state, NEW types \in Batch, IsActive(r),
           runReq' = runReq, SetRun(r, state), appendEvents(runReq[r].session, r, types),
           \A h \in Histories(runState[r]) : h \o types \in Histories(state)
    PROVE  HistoryParts'
<1>1. TypeOK /\ RowsComplete /\ EventsAreOwn /\ JournalMatchesRuns
  BY DEF HistoryInv, HistoryParts, DispatchInv, FenceInv, FenceParts
<1>2. PICK s : s = runReq[r].session
  OBVIOUS
<1>3. runReq[r] # None /\ s \in Session /\ appendEvents(s, r, types)
  BY <1>1, <1>2 DEF RowsComplete, IsActive, ActiveStates, TypeOK, Request
<1>4. /\ \A t \in Session : t # s => log'[t] = log[t]
      /\ \A i \in 1..Len(log'[s]) :
            log'[s][i].run = r \/ (i \in 1..Len(log[s]) /\ log'[s][i] = log[s][i])
      /\ \A h \in Seq(EventTypes) : Reads(log[s], r, h) => Reads(log'[s], r, h \o types)
      /\ \A o, h : o # r /\ Reads(log[s], o, h) => Reads(log'[s], o, h)
  BY <1>1, <1>3, BatchIs, BatchReads
<1>5. EventsAreOwn'
  BY <1>1, <1>2, <1>3, <1>4 DEF EventsAreOwn
<1>6. ASSUME NEW o \in Run
      PROVE  \E h \in Histories(runState'[o]) : Reads(JournalOf(o)', o, h)
  <2>1. PICK h \in Histories(runState[o]) : Reads(JournalOf(o), o, h)
    BY <1>1 DEF JournalMatchesRuns
  <2>2. CASE o = r
    <3>1. h \in Seq(EventTypes)
      BY <2>1, <2>2, HistoriesType DEF IsActive
    <3>2. JournalOf(o) = log[s] /\ JournalOf(o)' = log'[s]
      BY <1>2, <1>3, <2>2 DEF JournalOf
    <3>3. Reads(log'[s], r, h \o types)
      BY <1>4, <2>1, <2>2, <3>1, <3>2
    <3>4. runState'[o] = state
      BY <1>1, <2>2 DEF SetRun, TypeOK
    <3> QED
      BY <2>1, <2>2, <3>2, <3>3, <3>4
  <2>3. CASE o # r
    <3>1. runState'[o] = runState[o]
      BY <1>1, <2>3 DEF SetRun, TypeOK
    <3>2. CASE runReq[o] = None
      BY <2>1, <3>1, <3>2 DEF JournalOf
    <3>3. CASE runReq[o] # None
      <4>1. PICK t : t = runReq[o].session
        OBVIOUS
      <4>2. t \in Session /\ JournalOf(o) = log[t] /\ JournalOf(o)' = log'[t]
        BY <1>1, <3>3, <4>1 DEF JournalOf, TypeOK, Request
      <4>3. Reads(log'[t], o, h)
        BY <1>4, <2>1, <2>3, <4>2
      <4> QED
        BY <2>1, <3>1, <4>2, <4>3
    <3> QED
      BY <3>2, <3>3
  <2> QED
    BY <2>2, <2>3
<1> QED
  BY <1>5, <1>6 DEF HistoryParts, JournalMatchesRuns

\* A new row, whose run no journal has heard of.
LEMMA InsertHistory ==
    ASSUME HistoryInv, NEW r \in Run, NEW req \in Request, insertRun(r, req)
    PROVE  HistoryParts'
<1>1. TypeOK /\ RowsComplete /\ EventsAreOwn /\ JournalMatchesRuns
  BY DEF HistoryInv, HistoryParts, DispatchInv, FenceInv, FenceParts
<1>2. PICK s : s = req.session
  OBVIOUS
<1>3. /\ s \in Session /\ runReq[r] = None /\ req # None
      /\ runReq' = [runReq EXCEPT ![r] = req] /\ runState' = [runState EXCEPT ![r] = "queued"]
      /\ appendEvents(s, r, Opened)
  BY <1>1, <1>2, RequestAssumption DEF insertRun, RowsComplete, Request, Opened
<1>4. Opened \in Batch
  BY DEF Opened, Batch, EventTypes
<1>5. /\ \A t \in Session : t # s => log'[t] = log[t]
      /\ \A i \in 1..Len(log'[s]) :
            log'[s][i].run = r \/ (i \in 1..Len(log[s]) /\ log'[s][i] = log[s][i])
      /\ \A h \in Seq(EventTypes) : Reads(log[s], r, h) => Reads(log'[s], r, h \o Opened)
      /\ \A o, h : o # r /\ Reads(log[s], o, h) => Reads(log'[s], o, h)
  BY <1>1, <1>3, <1>4, BatchIs, BatchReads
<1>6. \A o \in Run : /\ runReq'[o] = IF o = r THEN req ELSE runReq[o]
                     /\ runState'[o] = IF o = r THEN "queued" ELSE runState[o]
  BY <1>1, <1>3 DEF TypeOK
<1>7. ASSUME NEW t \in Session, NEW i \in 1..Len(log[t])
      PROVE  log[t][i].run \in Run /\ log[t][i].run # r
  <2>1. log[t] \in Seq(Event)
    BY <1>1 DEF TypeOK
  <2>2. log[t][i] \in Event
    BY <2>1
  <2> QED
    BY <1>1, <1>3, <2>2 DEF EventsAreOwn, Event
<1>8. EventsAreOwn'
  <2>1. ASSUME NEW t \in Session, NEW i \in 1..Len(log[t])
        PROVE  runReq'[log[t][i].run] # None /\ runReq'[log[t][i].run].session = t
    BY <1>1, <1>6, <1>7 DEF EventsAreOwn
  <2>2. runReq'[r] # None /\ runReq'[r].session = s
    BY <1>2, <1>3, <1>6
  <2> QED
    BY <1>5, <2>1, <2>2 DEF EventsAreOwn
<1>9. Reads(log[s], r, <<>>)
  <2>1. EventsOf(log[s], r) = {}
    BY <1>3, <1>7 DEF EventsOf
  <2>2. Cardinality({}) = 0 /\ Len(<<>>) = 0
    BY FS_EmptySet
  <2> QED
    BY <2>1, <2>2 DEF Reads
<1>10. Reads(log'[s], r, Opened)
  <2>1. <<>> \in Seq(EventTypes) /\ <<>> \o Opened = Opened
    BY DEF Opened, EventTypes
  <2> QED
    BY <1>5, <1>9, <2>1
<1>11. ASSUME NEW o \in Run
       PROVE  \E h \in Histories(runState'[o]) : Reads(JournalOf(o)', o, h)
  <2>1. CASE o = r
    <3>1. JournalOf(o)' = log'[s] /\ runState'[o] = "queued"
      BY <1>2, <1>3, <1>6, <2>1 DEF JournalOf
    <3> QED
      BY <1>10, <2>1, <3>1, HistoriesGrow
  <2>2. CASE o # r
    <3>1. runState'[o] = runState[o] /\ runReq'[o] = runReq[o]
      BY <1>6, <2>2
    <3>2. PICK h \in Histories(runState[o]) : Reads(JournalOf(o), o, h)
      BY <1>1 DEF JournalMatchesRuns
    <3>3. CASE runReq[o] = None
      BY <3>1, <3>2, <3>3 DEF JournalOf
    <3>4. CASE runReq[o] # None
      <4>1. PICK t : t = runReq[o].session
        OBVIOUS
      <4>2. t \in Session /\ JournalOf(o) = log[t] /\ JournalOf(o)' = log'[t]
        BY <1>1, <3>1, <3>4, <4>1 DEF JournalOf, TypeOK, Request
      <4>3. Reads(log'[t], o, h)
        BY <1>5, <2>2, <3>2, <4>2
      <4> QED
        BY <3>1, <3>2, <4>2, <4>3
    <3> QED
      BY <3>3, <3>4
  <2> QED
    BY <2>1, <2>2
<1> QED
  BY <1>8, <1>11 DEF HistoryParts, JournalMatchesRuns

\* A step that leaves the tables alone.
LEMMA QuietHistory ==
    ASSUME HistoryInv, UNCHANGED <<runReq, runState, log>>
    PROVE  HistoryParts'
BY DEF HistoryInv, HistoryParts, EventsAreOwn, JournalMatchesRuns, JournalOf

\* finish, for a reconciliation or for a goroutine.  A queued run has no result.
LEMMA FinishTxHistory ==
    ASSUME HistoryInv, NEW r \in Run, NEW state \in TerminalStates, NEW restart,
           finishTx(r, state, restart), runState[r] = "queued" => state = "failed",
           restart => state = "failed"
    PROVE  HistoryParts'
<1>1. CASE ~IsActive(r)
  BY <1>1, QuietHistory DEF finishTx, db
<1>2. CASE IsActive(r)
  <2>1. PICK final, types : /\ final = FinalState(r, state, restart)
                            /\ types = IF final = "completed"
                                       THEN <<"assistant.message.created", "run.completed">>
                                       ELSE <<IF final = "failed" THEN "run.failed"
                                              ELSE "run.cancelled">>
    OBVIOUS
  <2>2. /\ SetRun(r, final) /\ appendEvents(runReq[r].session, r, types)
        /\ runReq' = runReq
    BY <1>2, <2>1 DEF finishTx
  <2>3. /\ final \in TerminalStates /\ runState[r] \in ActiveStates
        /\ runState[r] = "queued" => final = "failed"
        /\ runState[r] = "cancel_requested" => final \in {"cancelled", "failed"}
    BY <1>2, <2>1 DEF FinalState, TerminalStates, IsActive
  <2>4. types \in Batch
    BY <2>1, <2>3 DEF Batch, EventTypes, TerminalStates
  <2>5. ASSUME NEW h \in Histories(runState[r]) PROVE h \o types \in Histories(final)
    <3>1. CASE final = "failed"
      <4>1. types = <<"run.failed">>
        BY <2>1, <3>1
      <4> QED
        BY <2>3, <3>1, <4>1, HistoriesGrow DEF ActiveStates
    <3>2. CASE final = "cancelled"
      <4>1. types = <<"run.cancelled">>
        BY <2>1, <3>2
      <4> QED
        BY <2>3, <3>2, <4>1, HistoriesGrow DEF ActiveStates
    <3>3. CASE final = "completed"
      <4>1. types = <<"assistant.message.created", "run.completed">>
        BY <2>1, <3>3
      <4> QED
        BY <2>3, <3>3, <4>1, HistoriesGrow DEF ActiveStates
    <3> QED
      BY <2>3, <3>1, <3>2, <3>3 DEF TerminalStates
  <2> QED
    BY <1>2, <2>2, <2>4, <2>5, WriteHistory
<1> QED
  BY <1>1, <1>2

LEMMA TransitionTxHistory ==
    ASSUME HistoryInv, NEW r \in Run, transitionTx(r)
    PROVE  HistoryParts'
<1>1. /\ IsActive(r) /\ runState[r] = "queued" /\ runReq' = runReq /\ SetRun(r, "running")
      /\ appendEvents(runReq[r].session, r, Started)
  BY DEF transitionTx, IsActive, ActiveStates, Started
<1>2. Started \in Batch
  BY DEF Started, Batch, EventTypes
<1> QED
  BY <1>1, <1>2, HistoriesGrow, WriteHistory

LEMMA CancelRunHistory ==
    ASSUME HistoryInv, NEW p \in Process, NEW r \in Run, NEW k \in CancelKey,
           CancelRun(p, r, k)
    PROVE  HistoryParts'
<1>1. CASE ~Cancellable(r)
  BY <1>1, QuietHistory DEF CancelRun
<1>2. CASE Cancellable(r)
  <2>1. /\ IsActive(r) /\ runState[r] \in {"queued", "running"} /\ runReq' = runReq
        /\ SetRun(r, "cancel_requested")
        /\ appendEvents(runReq[r].session, r, <<"run.cancel_requested">>)
    BY <1>2 DEF CancelRun, Cancellable, IsActive, ActiveStates
  <2>2. <<"run.cancel_requested">> \in Batch
    BY DEF Batch, EventTypes
  <2>3. \A h \in Histories(runState[r]) :
           h \o <<"run.cancel_requested">> \in Histories("cancel_requested")
    BY <2>1, HistoriesGrow
  <2> QED
    BY <2>1, <2>2, <2>3, WriteHistory
<1> QED
  BY <1>1, <1>2

\* A result is kept by a goroutine that has returned, until finish takes it.
LEMMA PendingStep == ASSUME DispatchInv, ResultPending, [Next]_vars PROVE ResultPending'
<1> USE DEF DispatchInv, FenceInv, TypeOK
<1>1. CASE UNCHANGED <<pc, outcome>>
  BY <1>1 DEF ResultPending
<1>2. ASSUME NEW p \in Process, Accepting(p) PROVE ResultPending'
  <2>1. CASE UNCHANGED pc
    <3>1. UNCHANGED outcome
      BY <1>2 DEF Accepting, AcceptReplay, AcceptReject, AcceptCommit, AcceptUnconfirmed
    <3> QED
      BY <1>1, <2>1, <3>1
  <2>2. ASSUME NEW r \in Run, AcceptCommit(p, r) PROVE ResultPending'
    <3>1. pc' = [pc EXCEPT ![r] = "starting"] /\ UNCHANGED outcome /\ runState[r] = "absent"
      BY <2>2 DEF AcceptCommit, insertRun, GoTo
    <3>2. pc[r] = "none"
      BY <3>1 DEF FenceParts, RowsComplete
    <3> QED
      BY <3>1, <3>2 DEF ResultPending
  <2> QED
    BY <1>2, <2>1, <2>2 DEF Accepting, AcceptReplay, AcceptReject, AcceptUnconfirmed
<1>3. ASSUME NEW r \in Run, Executing(r) PROVE ResultPending'
  <2>1. /\ \A o \in Run \ {r} : pc'[o] = pc[o] /\ outcome'[o] = outcome[o]
        /\ \/ pc'[r] \in {"returned", "done"}
           \/ outcome'[r] = "failed"
           \/ outcome'[r] = outcome[r] /\ pc[r] \notin {"returned", "done"}
    <3>1. CASE TransitionCheck(r)
      BY <3>1 DEF TransitionCheck, AbortExecution, GoTo
    <3>2. CASE TransitionCommit(r) \/ TransitionError(r)
      BY <3>2 DEF TransitionCommit, TransitionError, AbortExecution, GoTo
    <3>3. CASE Dispatch(r)
      BY <3>3 DEF Dispatch, Dispatchable, GoTo
    <3>4. CASE SkipDispatch(r)
      BY <3>4 DEF SkipDispatch, GoTo
    <3>5. CASE \E result \in {"completed", "failed"} : ProcessReturn(r, result)
      BY <3>5 DEF ProcessReturn, GoTo
    <3>6. CASE Finish(r) \/ FinishError(r)
      BY <3>6 DEF Finish, FinishError, GoTo
    <3>7. CASE ClearHazard(r)
      BY <3>7 DEF ClearHazard, GoTo
    <3>8. CASE ExecuteExit(r)
      BY <3>8 DEF ExecuteExit, GoTo
    <3> QED
      BY <1>3, <3>1, <3>2, <3>3, <3>4, <3>5, <3>6, <3>7, <3>8 DEF Executing
  <2> QED
    BY <2>1 DEF ResultPending
<1>4. ASSUME NEW p \in Process, Crash(p) PROVE ResultPending'
  <2>1. UNCHANGED outcome /\ \A o \in Run : pc'[o] \in {pc[o], "done"}
    BY <1>4 DEF Crash
  <2> QED
    BY <2>1 DEF ResultPending
<1>5. ASSUME NEW p \in Process,
             \/ Opening(p) \/ WatchOwnership(p) \/ Close(p) \/ CloseDone(p)
             \/ \E req \in Request : AcceptProbe(p, req)
             \/ AcceptProbeClientGone(p) \/ LockConnectionDrops(p)
             \/ \E r \in Run, k \in CancelKey : CancelRun(p, r, k)
      PROVE  UNCHANGED <<pc, outcome>>
  BY <1>5 DEF Opening, Open, FenceActiveRuns, ListActiveRuns, ReconcileRun, FinishOpen,
              AbortOpen, WatchOwnership, Close, CloseDone, AcceptProbe,
              AcceptProbeClientGone, LockConnectionDrops, CancelRun, memory
<1>6. ASSUME NEW r \in Run, ExecutorStops(r) \/ ContextExpires(r) \/ Recover(r)
      PROVE  UNCHANGED <<pc, outcome>>
  BY <1>6 DEF ExecutorStops, ContextExpires, Recover, memory
<1>7. UNCHANGED vars => UNCHANGED <<pc, outcome>>
  BY DEF vars, memory
<1> QED
  BY <1>1, <1>2, <1>3, <1>4, <1>5, <1>6, <1>7 DEF Next, Environment

\* The inductive invariant of the histories.
LEMMA HistoryInvariant == Spec => []HistoryInv
<1>1. Init => ResultPending /\ HistoryParts
  <2> SUFFICES ASSUME Init PROVE ResultPending /\ HistoryParts
    OBVIOUS
  <2>1. ResultPending /\ EventsAreOwn
    BY DEF Init, ResultPending, EventsAreOwn
  <2>2. ASSUME NEW r \in Run PROVE \E h \in Histories(runState[r]) : Reads(JournalOf(r), r, h)
    <3>1. JournalOf(r) = <<>> /\ runState[r] = "absent"
      BY DEF Init, JournalOf
    <3>2. EventsOf(<<>>, r) = {} /\ Cardinality({}) = 0 /\ Len(<<>>) = 0
      BY FS_EmptySet DEF EventsOf
    <3>3. Reads(<<>>, r, <<>>)
      BY <3>2 DEF Reads
    <3> QED
      BY <3>1, <3>3, HistoriesGrow
  <2> QED
    BY <2>1, <2>2 DEF HistoryParts, JournalMatchesRuns
<1>2. HistoryInv /\ [Next]_vars => HistoryParts'
  <2> SUFFICES ASSUME HistoryInv, [Next]_vars PROVE HistoryParts'
    OBVIOUS
  <2>1. CASE UNCHANGED vars
    BY <2>1, QuietHistory DEF vars, db
  <2>2. ASSUME NEW p \in Process, Opening(p) PROVE HistoryParts'
    <3>1. UNCHANGED db \/ \E r \in Run : finishTx(r, "failed", TRUE)
      BY <2>2 DEF Opening, Open, FenceActiveRuns, ListActiveRuns, ReconcileRun,
                  FinishOpen, AbortOpen
    <3>2. "failed" \in TerminalStates
      BY DEF TerminalStates
    <3> QED
      BY <3>1, <3>2, FinishTxHistory, QuietHistory DEF db
  <2>3. ASSUME NEW p \in Process, Accepting(p) PROVE HistoryParts'
    <3>1. UNCHANGED db \/ \E r \in Run : accepting[p] # None /\ insertRun(r, accepting[p])
      BY <2>3 DEF Accepting, AcceptReplay, AcceptReject, AcceptCommit, AcceptUnconfirmed
    <3>2. accepting[p] # None => accepting[p] \in Request
      BY DEF HistoryInv, DispatchInv, FenceInv, TypeOK
    <3> QED
      BY <3>1, <3>2, InsertHistory, QuietHistory DEF db
  \* A goroutine that settles a queued run comes from transition, without a result.
  <2>4. ASSUME NEW r \in Run, Executing(r) PROVE HistoryParts'
    <3>1. \/ UNCHANGED db \/ transitionTx(r)
          \/ /\ pc[r] \in {"aborting", "returned", "retrying"}
             /\ finishTx(r, outcome[r], FALSE)
      BY <2>4 DEF Executing, TransitionCheck, TransitionCommit, TransitionError,
                  Dispatch, SkipDispatch, ProcessReturn, Finish, FinishError,
                  ClearHazard, ExecuteExit
    <3>2. CASE /\ pc[r] \in {"aborting", "returned", "retrying"}
               /\ finishTx(r, outcome[r], FALSE)
      <4>1. outcome[r] \in TerminalStates
        BY DEF HistoryInv, DispatchInv, FenceInv, TypeOK
      <4>2. runState[r] = "queued" => outcome[r] = "failed"
        BY <3>2 DEF HistoryInv, ResultPending, DispatchInv, DispatchParts, StartRecorded
      <4> QED
        BY <3>2, <4>1, <4>2, FinishTxHistory
    <3> QED
      BY <3>1, <3>2, TransitionTxHistory, QuietHistory DEF db
  <2>5. ASSUME NEW p \in Process, NEW r \in Run, NEW k \in CancelKey, CancelRun(p, r, k)
        PROVE  HistoryParts'
    BY <2>5, CancelRunHistory
  <2>6. ASSUME NEW p \in Process,
               \/ WatchOwnership(p) \/ Close(p) \/ CloseDone(p)
               \/ \E req \in Request : AcceptProbe(p, req)
               \/ AcceptProbeClientGone(p)
        PROVE  HistoryParts'
    BY <2>6, QuietHistory DEF WatchOwnership, Close, CloseDone, AcceptProbe,
                              AcceptProbeClientGone, db
  <2>7. CASE Environment
    BY <2>7, QuietHistory DEF Environment, LockConnectionDrops, Crash,
                              ExecutorStops, ContextExpires, Recover, db
  <2> QED
    BY <2>1, <2>2, <2>3, <2>4, <2>5, <2>6, <2>7 DEF Next
<1>3. DispatchInv /\ ResultPending /\ [Next]_vars => ResultPending'
  BY PendingStep
<1> QED
  BY <1>1, <1>2, <1>3, DispatchInvariant, PTL DEF Spec, HistoryInv

\* The events of a run in its session's journal are always one of the histories of its
\* state: one terminal event and nothing after it, no completion after an accepted
\* cancellation, no start after one, whichever process wrote them and however late.
THEOREM JournalTellsTheRuns == Spec => []JournalMatchesRuns
<1>1. HistoryInv => JournalMatchesRuns
  BY DEF HistoryInv, HistoryParts
<1> QED
  BY <1>1, HistoryInvariant, PTL

-----------------------------------------------------------------------------
(***************************************************************************)
(* The store implements RunContract: each transaction and each step of an  *)
(* executor maps to the contract step of the same meaning, and every other *)
(* step to none.                                                           *)
(***************************************************************************)
SessionOf == [r \in Run |-> IF runReq[r] = None THEN None ELSE runReq[r].session]
StartedRuns == {r \in Run : dispatched[r] > 0}

\* A step that changes none of what the contract speaks of.
LEMMA StutterContract ==
    ASSUME UNCHANGED <<runReq, runState, dispatched, alive>>
    PROVE  UNCHANGED Contract!contractVars
BY DEF Contract!contractVars

\* insertRun is AcceptRun: the session has nothing unsettled, and no execution
\* that may be alive, because its hazard would have refused the message.
LEMMA InsertContract ==
    ASSUME DispatchInv, NEW p \in Process, NEW r \in Run, NEW req \in Request,
           Admissible(p, req), insertRun(r, req), UNCHANGED <<dispatched, alive>>
    PROVE  Contract!ContractNext
<1> USE ConstantsAssumption, RequestAssumption DEF DispatchInv, FenceInv, TypeOK
<1>1. PICK s \in Session : req.session = s
  BY DEF Request
<1>2. /\ runState[r] = "absent" /\ runReq[r] = None
      /\ runReq' = [runReq EXCEPT ![r] = req]
      /\ runState' = [runState EXCEPT ![r] = "queued"]
  BY DEF insertRun, FenceParts, RowsComplete
<1>3. ASSUME NEW o \in Run, SessionOf[o] = s
      PROVE  runState[o] \in Contract!Settled /\ o \notin alive
  <2>1. runReq[o] # None /\ runReq[o].session = s
    BY <1>3, <1>1 DEF SessionOf
  <2>2. InSession(o, s)
    BY <2>1 DEF InSession, FenceParts, RowsComplete
  <2>3. ~IsActive(o)
    BY <2>2, <1>1 DEF Admissible, Busy
  <2>4. runState[o] \in TerminalStates
    BY <2>2, <2>3 DEF InSession, IsActive, RunStates
  <2>5. o \notin alive
    BY <2>2, <2>3, <1>1
       DEF Admissible, RecoveryRequired, FenceParts, ExecutionsCovered, RowsComplete
  <2> QED
    BY <2>4, <2>5 DEF Contract!Settled, TerminalStates
<1>4. SessionOf' = [SessionOf EXCEPT ![r] = s]
  BY <1>1, <1>2 DEF SessionOf
<1>5. Contract!AcceptRun(r, s)
  BY <1>2, <1>3, <1>4 DEF Contract!AcceptRun, Contract!Quiet, SessionOf
<1> QED
  BY <1>5 DEF Contract!ContractNext

\* transition is StartRun.
LEMMA TransitionTxContract ==
    ASSUME NEW r \in Run, transitionTx(r), UNCHANGED <<dispatched, alive>>
    PROVE  Contract!ContractNext
<1>1. Contract!StartRun(r)
  BY DEF transitionTx, SetRun, Contract!StartRun
<1> QED
  BY <1>1 DEF Contract!ContractNext

\* The final state finish gives an unsettled run.
LEMMA FinishTxStep ==
    ASSUME NEW r \in Run, NEW state \in TerminalStates, NEW restart \in BOOLEAN,
           finishTx(r, state, restart), IsActive(r)
    PROVE  /\ runReq' = runReq
           /\ \E final \in TerminalStates :
                 /\ runState' = [runState EXCEPT ![r] = final]
                 /\ final = "completed" => /\ state = "completed"
                                           /\ \/ restart
                                              \/ runState[r] # "cancel_requested"
<1>1. /\ FinalState(r, state, restart) \in TerminalStates
      /\ FinalState(r, state, restart) = "completed" =>
            state = "completed" /\ (restart \/ runState[r] # "cancel_requested")
  BY DEF FinalState, TerminalStates
<1> QED
  BY <1>1 DEF finishTx, SetRun

\* finish is SettleRun; only the result of an execution that has ended, of a run
\* whose start was recorded, completes a run.
LEMMA FinishTxContract ==
    ASSUME DispatchInv, NEW r \in Run, NEW state \in TerminalStates,
           NEW restart \in BOOLEAN, finishTx(r, state, restart),
           state = "completed" =>
              ~restart /\ outcome[r] = "completed" /\ pc[r] = "returned",
           UNCHANGED <<dispatched, alive>>
    PROVE  [Contract!ContractNext]_(Contract!contractVars)
<1> USE DEF DispatchInv, FenceInv, TypeOK
<1>1. CASE ~IsActive(r)
  BY <1>1, StutterContract DEF finishTx, db
<1>2. CASE IsActive(r)
  <2>1. PICK final \in TerminalStates :
           /\ runState' = [runState EXCEPT ![r] = final]
           /\ final = "completed" => /\ state = "completed"
                                     /\ restart \/ runState[r] # "cancel_requested"
    BY <1>2, FinishTxStep
  <2>2. runReq' = runReq
    BY <1>2, FinishTxStep
  <2>3. final = "completed" => runState[r] = "running"
    BY <1>2, <2>1 DEF IsActive, ActiveStates, DispatchParts, StartRecorded
  <2>4. final = "completed" => r \in StartedRuns /\ r \notin alive
    BY <2>1 DEF DispatchParts, DispatchedOnce, FenceParts, ExecutionsCovered,
                StartedRuns
  <2>5. Contract!SettleRun(r, final)
    BY <1>2, <2>1, <2>2, <2>3, <2>4
       DEF Contract!SettleRun, Contract!Active, IsActive, ActiveStates, StartedRuns
  <2>6. final \in Contract!Settled
    BY DEF Contract!Settled, TerminalStates
  <2> QED
    BY <2>5, <2>6 DEF Contract!ContractNext
<1> QED
  BY <1>1, <1>2

\* The executor call is Execute: the first for its run, of a run whose start
\* was recorded, and alone in its session because its hazard excludes others.
LEMMA DispatchContract ==
    ASSUME DispatchInv, NEW r \in Run, Dispatch(r)
    PROVE  Contract!ContractNext
<1> USE ConstantsAssumption, RequestAssumption DEF DispatchInv, FenceInv, TypeOK
<1>1. /\ pc[r] = "ready" /\ alive' = alive \cup {r}
      /\ dispatched' = [dispatched EXCEPT ![r] = @ + 1]
      /\ UNCHANGED <<runReq, runState>>
  BY DEF Dispatch, Dispatchable, db
<1>2. dispatched[r] = 0 /\ r \notin alive
  BY <1>1 DEF DispatchParts, DispatchedOnce
<1>3. runState[r] \in {"running", "cancel_requested", "failed"}
  BY <1>1 DEF DispatchParts, StartRecorded
<1>4. hazards[r] # None /\ runReq[r] # None
  BY <1>1 DEF FenceParts, ExecutionsCovered, RowsComplete
<1>5. ASSUME NEW o \in alive PROVE SessionOf[o] # SessionOf[r]
  <2>1. o \in Run /\ o # r /\ hazards[o] # None /\ runReq[o] # None
    BY <1>2 DEF FenceParts, ExecutionsCovered, RowsComplete
  <2>2. ~SameSession(r, o)
    BY <1>4, <2>1 DEF FenceParts, HazardsExclude
  <2> QED
    BY <1>4, <2>1, <2>2 DEF SessionOf, SameSession
<1>6. r \notin StartedRuns /\ StartedRuns' = StartedRuns \cup {r}
  <2>1. \A o \in Run : o # r => dispatched'[o] = dispatched[o]
    BY <1>1
  <2>2. dispatched'[r] = 1
    BY <1>1, <1>2
  <2> QED
    BY <1>2, <2>1, <2>2 DEF StartedRuns
<1>7. Contract!Execute(r)
  BY <1>1, <1>3, <1>5, <1>6 DEF Contract!Execute, SessionOf, StartedRuns
<1> QED
  BY <1>7 DEF Contract!ContractNext

\* An execution that ends, observed or not, is ExecutionEnds.
LEMMA EndContract ==
    ASSUME NEW r \in Run, r \in alive, alive' = alive \ {r},
           UNCHANGED <<runReq, runState, dispatched>>
    PROVE  Contract!ContractNext
<1>1. Contract!ExecutionEnds(r)
  BY DEF Contract!ExecutionEnds
<1> QED
  BY <1>1 DEF Contract!ContractNext

\* cancelRun is RequestCancel, or no step of the contract.
LEMMA CancelRunContract ==
    ASSUME NEW p \in Process, NEW r \in Run, NEW k \in CancelKey,
           CancelRun(p, r, k)
    PROVE  [Contract!ContractNext]_(Contract!contractVars)
<1>1. UNCHANGED <<runReq, dispatched, alive>>
  BY DEF CancelRun, world
<1>2. CASE ~Cancellable(r)
  BY <1>1, <1>2, StutterContract DEF CancelRun
<1>3. CASE Cancellable(r)
  <2>1. Contract!RequestCancel(r)
    BY <1>1, <1>3 DEF CancelRun, SetRun, Cancellable, Contract!RequestCancel
  <2> QED
    BY <2>1 DEF Contract!ContractNext
<1> QED
  BY <1>2, <1>3

\* Every step of executeLocal maps to a step of the contract, or to none.
LEMMA ExecutingContract ==
    ASSUME DispatchInv, NEW r \in Run, Executing(r)
    PROVE  [Contract!ContractNext]_(Contract!contractVars)
<1>1. CASE TransitionCheck(r) \/ SkipDispatch(r) \/ ClearHazard(r) \/ ExecuteExit(r)
  BY <1>1, StutterContract
     DEF TransitionCheck, SkipDispatch, ClearHazard, ExecuteExit, db, world
<1>2. CASE TransitionCommit(r) \/ TransitionError(r)
  <2>1. UNCHANGED <<dispatched, alive>> /\ (transitionTx(r) \/ UNCHANGED db)
    BY <1>2 DEF TransitionCommit, TransitionError, world
  <2> QED
    BY <2>1, TransitionTxContract, StutterContract DEF db
<1>3. CASE Dispatch(r)
  BY <1>3, DispatchContract
<1>4. ASSUME NEW result \in {"completed", "failed"}, ProcessReturn(r, result)
      PROVE  [Contract!ContractNext]_(Contract!contractVars)
  <2>1. /\ UNCHANGED <<runReq, runState, dispatched>>
        /\ UNCHANGED alive \/ (r \in alive /\ alive' = alive \ {r})
    BY <1>4 DEF ProcessReturn, db
  <2> QED
    BY <2>1, StutterContract, EndContract
<1>5. CASE Finish(r) \/ FinishError(r)
  <2>1. /\ UNCHANGED <<dispatched, alive>>
        /\ UNCHANGED db \/ finishTx(r, outcome[r], FALSE)
        /\ pc[r] \in {"aborting", "returned", "retrying"}
    BY <1>5 DEF Finish, FinishError, world
  <2>2. /\ outcome[r] \in TerminalStates
        /\ outcome[r] = "completed" => pc[r] = "returned"
    BY <2>1 DEF DispatchInv, FenceInv, FenceParts, ExecutionsCovered, TypeOK
  <2> QED
    BY <2>1, <2>2, FinishTxContract, StutterContract DEF db
<1> QED
  BY <1>1, <1>2, <1>3, <1>4, <1>5 DEF Executing

\* Every behaviour of the store is one RunContract allows: runs are accepted in
\* a quiet session, executed at most once and alone in their session, and
\* completed only after an execution that has ended.
THEOREM StoreImplementsContract == Spec => ImplementsContract
<1>1. Init => Contract!ContractInit
  BY DEF Init, Contract!ContractInit
<1>2. DispatchInv /\ [Next]_vars => [Contract!ContractNext]_(Contract!contractVars)
  <2> SUFFICES ASSUME DispatchInv, [Next]_vars
               PROVE  [Contract!ContractNext]_(Contract!contractVars)
    OBVIOUS
  <2>1. CASE UNCHANGED vars
    BY <2>1, StutterContract DEF vars, db, world
  <2>2. ASSUME NEW p \in Process, Opening(p)
        PROVE  [Contract!ContractNext]_(Contract!contractVars)
    <3>1. /\ UNCHANGED <<dispatched, alive>>
          /\ UNCHANGED db \/ \E r \in Run : finishTx(r, "failed", TRUE)
      BY <2>2 DEF Opening, Open, FenceActiveRuns, ListActiveRuns, ReconcileRun,
                  FinishOpen, AbortOpen, world
    <3>2. "failed" \in TerminalStates
      BY DEF TerminalStates
    <3> QED
      BY <3>1, <3>2, FinishTxContract, StutterContract DEF db
  <2>3. ASSUME NEW p \in Process, Accepting(p)
        PROVE  [Contract!ContractNext]_(Contract!contractVars)
    <3>1. /\ UNCHANGED <<dispatched, alive>>
          /\ \/ UNCHANGED db
             \/ \E r \in Run : /\ accepting[p] # None
                               /\ insertRun(r, accepting[p])
                               /\ Admissible(p, accepting[p])
      BY <2>3 DEF Accepting, AcceptReplay, AcceptReject, AcceptCommit,
                  AcceptUnconfirmed, world
    <3>2. accepting[p] # None => accepting[p] \in Request
      BY DEF DispatchInv, FenceInv, TypeOK
    <3> QED
      BY <3>1, <3>2, InsertContract, StutterContract DEF db
  <2>4. ASSUME NEW r \in Run, Executing(r)
        PROVE  [Contract!ContractNext]_(Contract!contractVars)
    BY <2>4, ExecutingContract
  <2>5. ASSUME NEW p \in Process, NEW r \in Run, NEW k \in CancelKey,
               CancelRun(p, r, k)
        PROVE  [Contract!ContractNext]_(Contract!contractVars)
    BY <2>5, CancelRunContract
  <2>6. ASSUME NEW p \in Process,
               \/ WatchOwnership(p) \/ Close(p) \/ CloseDone(p)
               \/ \E req \in Request : AcceptProbe(p, req)
               \/ AcceptProbeClientGone(p)
        PROVE  [Contract!ContractNext]_(Contract!contractVars)
    BY <2>6, StutterContract DEF WatchOwnership, Close, CloseDone, AcceptProbe,
                                 AcceptProbeClientGone, db, world
  <2>7. CASE Environment
    <3>1. /\ UNCHANGED <<runReq, runState, dispatched>>
          /\ UNCHANGED alive \/ \E r \in Run : r \in alive /\ alive' = alive \ {r}
      BY <2>7 DEF Environment, LockConnectionDrops, Crash, ExecutorStops,
                  ContextExpires, Recover, db, world
    <3> QED
      BY <3>1, EndContract, StutterContract
  <2> QED
    BY <2>1, <2>2, <2>3, <2>4, <2>5, <2>6, <2>7 DEF Next
<1> QED
  BY <1>1, <1>2, DispatchInvariant, PTL
     DEF Spec, ImplementsContract, Contract!ContractSpec
=============================================================================
