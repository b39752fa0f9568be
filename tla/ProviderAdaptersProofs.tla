------------------------ MODULE ProviderAdaptersProofs ------------------------
(***************************************************************************)
(* Proofs about ProviderAdapters, for any number of bridge sessions and    *)
(* turns and for each of the adapters.                                     *)
(***************************************************************************)
EXTENDS ProviderAdapters, TLAPS

EntryType == [up : Turn \cup {None}, hist : SUBSET Turn]
TurnType == [at : Steps, session : Session \cup {None}, method : {"start", "message"},
             ent : Turn \cup {None}, up : Turn \cup {None}, hist : SUBSET Turn,
             heard : SUBSET Line, alone : BOOLEAN]

-----------------------------------------------------------------------------
(* One turn moves *)

\* A turn that did not begin is as it was made; one in flight has a session, and
\* opencode's turns have a record while they use its upstream session.
TurnOK(v) ==
    /\ v \in TurnType
    /\ v.at = "idle" => v.session = None /\ v.heard = {}
    /\ v.at \notin {"idle", "answered"} => v.session \in Session
    /\ v.at \in {"create", "send", "sent"} => v.ent \in Turn

TurnsOK == turn \in [Turn -> TurnType] /\ \A t \in Turn : TurnOK(turn[t])

\* A turn in flight that goes on keeps its session, its answer and its solitude; one
\* that is answered has only what it heard alone.
Moves(t, v) ==
    /\ turn' = [turn EXCEPT ![t] = v]
    /\ turn[t].at \notin {"idle", "answered"} /\ v.at # "idle"
    /\ v \in TurnType /\ v.session = turn[t].session
    /\ \/ v.at # "answered" /\ v.heard = turn[t].heard /\ v.alone = turn[t].alone
       \/ v.at = "answered" /\ v.heard = IF turn[t].alone THEN turn[t].heard ELSE {}

LEMMA TurnMoves ==
    ASSUME TurnsOK, NEW t \in Turn, NEW v, Moves(t, v),
           v.at \in {"create", "send", "sent"} => v.ent \in Turn
    PROVE  TurnsOK'
<1>1. TurnOK(v)
  BY DEF TurnsOK, TurnOK, Moves
<1>2. turn' \in [Turn -> TurnType] /\ \A x \in Turn : TurnOK(turn'[x])
  BY <1>1 DEF TurnsOK, Moves
<1> QED
  BY <1>2 DEF TurnsOK, TurnOK

LEMMA AnswerIs ==
    ASSUME TurnsOK, NEW t \in Turn, turn[t].at \notin {"idle", "answered"}, Answer(t)
    PROVE  \E v : Moves(t, v) /\ v.at = "answered"
<1>1. PICK w, i, heard : /\ w = turn[t] /\ i = NewTurn
                         /\ heard = IF turn[t].alone THEN turn[t].heard ELSE {}
  OBVIOUS
<1>2. w \in TurnType
  BY <1>1 DEF TurnsOK
<1>3. i \in TurnType
  BY <1>1 DEF NewTurn, TurnType, Steps
<1>4. heard \subseteq Line /\ w.session \in Session \cup {None} /\ "answered" \in Steps
  BY <1>1, <1>2 DEF TurnType, Steps
<1>5. PICK v : v = [i EXCEPT !.at = "answered", !.session = w.session, !.heard = heard]
  OBVIOUS
<1>6. turn' = [turn EXCEPT ![t] = v]
  BY <1>1, <1>5 DEF Answer, Set
<1>7. v \in TurnType /\ v.at = "answered" /\ v.session = w.session /\ v.heard = heard
  BY <1>3, <1>4, <1>5 DEF TurnType
<1> QED
  BY <1>1, <1>6, <1>7 DEF Moves

LEMMA GoToIs ==
    ASSUME TurnsOK, NEW t \in Turn, turn[t].at \notin {"idle", "answered"},
           NEW step \in Steps, step \notin {"idle", "answered"}, GoTo(t, step)
    PROVE  \E v : /\ Moves(t, v) /\ v.at = step /\ v.ent = turn[t].ent
                  /\ v.up = turn[t].up /\ v.hist = turn[t].hist
<1>1. PICK w : w = turn[t]
  OBVIOUS
<1>2. w \in TurnType
  BY <1>1 DEF TurnsOK
<1>3. PICK v : v = [w EXCEPT !.at = step]
  OBVIOUS
<1>4. turn' = [turn EXCEPT ![t] = v]
  BY <1>1, <1>3 DEF GoTo, Set
<1>5. /\ v \in TurnType /\ v.at = step /\ v.session = w.session /\ v.heard = w.heard
      /\ v.alone = w.alone /\ v.ent = w.ent /\ v.up = w.up /\ v.hist = w.hist
  BY <1>2, <1>3 DEF TurnType
<1> QED
  BY <1>1, <1>4, <1>5 DEF Moves

\* The parts of a turn that its answer, its record and the table depend on.
SameHold(v, w) == v.ent = w.ent /\ v.up = w.up /\ v.hist = w.hist

-----------------------------------------------------------------------------
(* What the actions of a turn do *)

TableOK == table \in [Session -> Turn \cup {None}] /\ entry \in [Turn -> EntryType]

\* The mutex is held by a call on the pipes.
LockOK == lock # None => turn[lock].at \in Calls /\ child # "off" /\ adapter # "opencode"

\* The handler is that of a turn which has not come to its deferred reset.
Held == {"prompt", "history", "unset"}
HandlerOK == handler # None => turn[handler].at \in Held

LEMMA EmptyType == Empty \in EntryType /\ Empty.up = None /\ Empty.hist = {}
BY DEF Empty, EntryType

LEMMA CallIs ==
    ASSUME TurnsOK, NEW t \in Turn, Call(t)
    PROVE  /\ turn[t].at \in Calls /\ lock = None
           /\ UNCHANGED <<adapter, ready, stuck, pipe, handler, table, entry, dropped>>
           /\ \/ UNCHANGED turn /\ child # "dead" /\ child' = "up" /\ lock' = t
              \/ /\ UNCHANGED <<child, lock>>
                 /\ \E v : /\ Moves(t, v)
                           /\ \/ v.at = "answered" /\ (child = "off" \/ turn[t].at # "prompt")
                              \/ /\ v.at = "unset" /\ turn[t].at = "prompt"
                                 /\ child = "dead" /\ SameHold(v, turn[t])
<1>1. /\ turn[t].at \in Calls /\ lock = None
      /\ UNCHANGED <<adapter, ready, stuck, pipe, handler, table, entry, dropped>>
  BY DEF Call
<1>2. turn[t].at \notin {"idle", "answered"}
  BY <1>1 DEF Calls
<1>3. \/ child = "off" /\ Answer(t) /\ UNCHANGED <<child, lock>>
      \/ child # "dead" /\ child' = "up" /\ lock' = t /\ UNCHANGED turn
      \/ child = "dead" /\ turn[t].at = "prompt" /\ GoTo(t, "unset") /\ UNCHANGED <<child, lock>>
      \/ child = "dead" /\ turn[t].at # "prompt" /\ Answer(t) /\ UNCHANGED <<child, lock>>
  BY DEF Call
<1>4. "unset" \in Steps
  BY DEF Steps
<1> QED
  BY <1>1, <1>2, <1>3, <1>4, AnswerIs, GoToIs DEF SameHold

LEMMA ReadFailsIs ==
    ASSUME TurnsOK, LockOK, NEW t \in Turn, ReadFails(t)
    PROVE  /\ lock = t /\ child = "dead" /\ lock' = None /\ stuck' = FALSE
           /\ UNCHANGED <<adapter, child, ready, pipe, handler, table, entry, dropped>>
           /\ \E v : /\ Moves(t, v)
                     /\ \/ v.at = "answered" /\ turn[t].at # "prompt"
                        \/ v.at = "unset" /\ turn[t].at = "prompt" /\ SameHold(v, turn[t])
<1>1. /\ lock = t /\ child = "dead" /\ lock' = None /\ stuck' = FALSE
      /\ UNCHANGED <<adapter, child, ready, pipe, handler, table, entry, dropped>>
      /\ IF turn[t].at = "prompt" THEN GoTo(t, "unset") ELSE Answer(t)
  BY DEF ReadFails, Unlock
<1>2. turn[t].at \in Calls /\ turn[t].at \notin {"idle", "answered"} /\ "unset" \in Steps
  BY <1>1, AdaptersAssumption DEF LockOK, Calls, Steps
<1> QED
  BY <1>1, <1>2, AnswerIs, GoToIs DEF SameHold

\* The record goes into the table's entry, or into a new one.
LEMMA WriteIs ==
    ASSUME TurnsOK, TableOK, NEW t \in Turn, turn[t].session \in Session,
           NEW record \in EntryType, Write(t, record)
    PROVE  /\ TableOK'
           /\ \E e \in Turn : /\ e = t \/ e = table[turn[t].session]
                              /\ table' = [table EXCEPT ![turn[t].session] = e]
                              /\ entry' = [entry EXCEPT ![e] = record]
<1>1. PICK s, e : s = turn[t].session /\ e = IF table[s] = None THEN t ELSE table[s]
  OBVIOUS
<1>2. e \in Turn /\ (e = t \/ e = table[s])
  BY <1>1 DEF TableOK
<1>3. table' = [table EXCEPT ![s] = e] /\ entry' = [entry EXCEPT ![e] = record]
  BY <1>1 DEF Write
<1>4. TableOK'
  BY <1>1, <1>2, <1>3 DEF TableOK, EntryType
<1> QED
  BY <1>1, <1>2, <1>3, <1>4

LEMMA KeptIs ==
    ASSUME TableOK, NEW t \in Turn, turn[t].session \in Session
    PROVE  /\ Kept(t) \in EntryType
           /\ \/ Kept(t) = Empty
              \/ table[turn[t].session] \in Turn /\ Kept(t) = entry[table[turn[t].session]]
BY EmptyType DEF Kept, TableOK

\* A record with another upstream session, or another history.
LEMMA RecordIs ==
    ASSUME NEW r \in EntryType, NEW u \in Turn \cup {None}, NEW h \in SUBSET Turn
    PROVE  /\ [r EXCEPT !.up = u] \in EntryType
           /\ [r EXCEPT !.up = u].up = u /\ [r EXCEPT !.up = u].hist = r.hist
           /\ [r EXCEPT !.hist = h] \in EntryType
           /\ [r EXCEPT !.hist = h].up = r.up /\ [r EXCEPT !.hist = h].hist = h
BY DEF EntryType

LEMMA ReadResponseIs ==
    ASSUME TurnsOK, LockOK, NEW t \in Turn, ReadResponse(t)
    PROVE  /\ lock = t /\ turn[t].at \in Calls /\ pipe' = <<>> /\ lock' = None /\ ~stuck
           /\ UNCHANGED <<adapter, child, stuck, handler, dropped>>
           /\ \E v : /\ Moves(t, v)
                     /\ \/ /\ v.at = "answered" /\ turn[t].at \in {"init", "new"}
                           /\ UNCHANGED <<ready, table, entry>>
                        \/ /\ v.at = "lookup" /\ turn[t].at = "init" /\ SameHold(v, turn[t])
                           /\ ready' = TRUE /\ UNCHANGED <<table, entry>>
                        \/ /\ v.at = "publish" /\ turn[t].at = "new"
                           /\ v.ent = turn[t].ent /\ v.up = t /\ v.hist = turn[t].hist
                           /\ entry' = IF turn[t].method = "start" THEN [entry EXCEPT ![t].up = t]
                                       ELSE entry
                           /\ UNCHANGED <<ready, table>>
                        \/ /\ v.at = "handler" /\ turn[t].at = "model" /\ SameHold(v, turn[t])
                           /\ Write(t, Kept(t)) /\ UNCHANGED ready
                        \/ /\ v.at \in {"history", "unset"} /\ turn[t].at = "prompt"
                           /\ SameHold(v, turn[t])
                           /\ UNCHANGED <<ready, table, entry>>
<1>1. /\ lock = t /\ pipe' = <<>> /\ lock' = None /\ ~stuck
      /\ UNCHANGED <<adapter, child, stuck, handler, dropped>>
      /\ \/ Return(t)
         \/ turn[t].at \in {"init", "new"} /\ Answer(t) /\ UNCHANGED <<ready, table, entry>>
  BY DEF ReadResponse, drain
<1>2. /\ turn[t].at \in Calls /\ turn[t].at \notin {"idle", "answered"}
      /\ {"lookup", "publish", "handler", "history", "unset"} \subseteq Steps
  BY <1>1, AdaptersAssumption DEF LockOK, Calls, Steps
<1>3. CASE Return(t)
  <2>1. \/ turn[t].at = "init" /\ ready' = TRUE /\ GoTo(t, "lookup") /\ UNCHANGED <<table, entry>>
        \/ /\ turn[t].at = "new" /\ Set(t, [turn[t] EXCEPT !.at = "publish", !.up = t])
           /\ entry' = IF turn[t].method = "start" THEN [entry EXCEPT ![t].up = t] ELSE entry
           /\ UNCHANGED <<ready, table>>
        \/ /\ turn[t].at = "model" /\ GoTo(t, "handler") /\ Write(t, Kept(t)) /\ UNCHANGED ready
        \/ /\ turn[t].at = "prompt" /\ (GoTo(t, "history") \/ GoTo(t, "unset"))
           /\ UNCHANGED <<ready, table, entry>>
    BY <1>2, <1>3, Zenon DEF Return, Calls
  <2>2. CASE turn[t].at = "new"
    <3>1. PICK w, v : w = turn[t] /\ v = [w EXCEPT !.at = "publish", !.up = t]
      OBVIOUS
    <3>2. turn' = [turn EXCEPT ![t] = v]
      BY <2>1, <2>2, <3>1 DEF Set
    <3>3. w \in TurnType
      BY <3>1 DEF TurnsOK
    <3>4. /\ v \in TurnType /\ v.at = "publish" /\ v.session = w.session /\ v.heard = w.heard
          /\ v.alone = w.alone /\ v.ent = w.ent /\ v.up = t /\ v.hist = w.hist
      BY <1>2, <3>1, <3>3 DEF TurnType
    <3>5. Moves(t, v)
      BY <1>2, <3>1, <3>2, <3>4 DEF Moves
    <3> QED
      BY <1>1, <1>2, <2>1, <2>2, <3>1, <3>4, <3>5
  <2>3. CASE turn[t].at = "init"
    <3>1. PICK v : Moves(t, v) /\ v.at = "lookup" /\ SameHold(v, turn[t])
      BY <1>2, <2>1, <2>3, GoToIs DEF SameHold
    <3> QED
      BY <1>1, <1>2, <2>1, <2>3, <3>1
  <2>4. CASE turn[t].at = "model"
    <3>1. PICK v : Moves(t, v) /\ v.at = "handler" /\ SameHold(v, turn[t])
      BY <1>2, <2>1, <2>4, GoToIs DEF SameHold
    <3> QED
      BY <1>1, <1>2, <2>1, <2>4, <3>1
  <2>5. CASE turn[t].at = "prompt"
    <3>1. PICK v : Moves(t, v) /\ v.at \in {"history", "unset"} /\ SameHold(v, turn[t])
      BY <1>2, <2>1, <2>5, GoToIs DEF SameHold
    <3> QED
      BY <1>1, <1>2, <2>1, <2>5, <3>1
  <2> QED
    BY <2>1, <2>2, <2>3, <2>4, <2>5
<1>4. CASE turn[t].at \in {"init", "new"} /\ Answer(t) /\ UNCHANGED <<ready, table, entry>>
  <2>1. PICK v : Moves(t, v) /\ v.at = "answered"
    BY <1>2, <1>4, AnswerIs
  <2> QED
    BY <1>1, <1>2, <1>4, <2>1
<1> QED
  BY <1>1, <1>3, <1>4

\* A lookup gives the turn a new record, or the one in the table.
LEMMA LookupIs ==
    ASSUME TurnsOK, TableOK, adapter \in Adapter, NEW t \in Turn, Lookup(t)
    PROVE  /\ turn[t].at = "lookup" /\ turn[t].session \in Session
           /\ UNCHANGED <<adapter, child, ready, lock, stuck, pipe, handler>>
           /\ IF turn[t].method = "start" THEN Forget(t, turn[t].session) ELSE UNCHANGED dropped
           /\ \E e, v :
                 /\ e \in Turn /\ table' = [table EXCEPT ![turn[t].session] = e]
                 /\ \/ e = t /\ entry' = [entry EXCEPT ![t] = Empty]
                    \/ /\ e = table[turn[t].session] /\ turn[t].method # "start"
                       /\ UNCHANGED entry
                 /\ Moves(t, v)
                 /\ \/ v.at = "answered"
                    \/ /\ v.at \in {"new", "publish", "run", "create", "send"}
                       /\ v.ent = e /\ v.up = entry'[e].up /\ v.hist = entry'[e].hist
<1>1. PICK w, s, e, found : /\ w = turn[t] /\ s = turn[t].session /\ e = EntryFor(t)
                            /\ found = IF e = t THEN Empty ELSE entry[e]
  OBVIOUS
<1>2. /\ turn[t].at = "lookup" /\ table' = [table EXCEPT ![s] = e]
      /\ entry' = [entry EXCEPT ![e] = found]
      /\ IF turn[t].method = "start" THEN Forget(t, s) ELSE UNCHANGED dropped
      /\ \/ Set(t, [w EXCEPT !.at = AfterLookup(found.up), !.ent = e, !.up = found.up,
                             !.hist = found.hist])
         \/ Answer(t)
      /\ UNCHANGED <<adapter, child, ready, lock, stuck, pipe, handler>>
  BY <1>1 DEF Lookup
<1>3. w \in TurnType /\ s \in Session
  BY <1>1, <1>2 DEF TurnsOK, TurnOK
<1>4. e \in Turn /\ found \in EntryType /\ (e = t \/ (e = table[s] /\ turn[t].method # "start"))
  BY <1>1, <1>3, EmptyType DEF EntryFor, TableOK
<1>5. entry'[e] = found
  BY <1>2, <1>4 DEF TableOK
<1>6. \/ e = t /\ entry' = [entry EXCEPT ![t] = Empty]
      \/ e = table[s] /\ turn[t].method # "start" /\ UNCHANGED entry
  BY <1>1, <1>2, <1>4 DEF TableOK
<1>7. \E v : /\ Moves(t, v)
             /\ \/ v.at = "answered"
                \/ /\ v.at \in {"new", "publish", "run", "create", "send"}
                   /\ v.ent = e /\ v.up = found.up /\ v.hist = found.hist
  <2>1. CASE Answer(t)
    BY <1>2, <2>1, AnswerIs
  <2>2. CASE Set(t, [w EXCEPT !.at = AfterLookup(found.up), !.ent = e, !.up = found.up,
                              !.hist = found.hist])
    <3>1. PICK step, u, h : step = AfterLookup(found.up) /\ u = found.up /\ h = found.hist
      OBVIOUS
    <3>2. step \in {"new", "publish", "run", "create", "send"} /\ step \in Steps
      BY <3>1, AdaptersAssumption DEF AfterLookup, Steps, Calls
    <3>3. u \in Turn \cup {None} /\ h \in SUBSET Turn
      BY <1>4, <3>1 DEF EntryType
    <3>4. PICK v : v = [w EXCEPT !.at = step, !.ent = e, !.up = u, !.hist = h]
      OBVIOUS
    <3>5. turn' = [turn EXCEPT ![t] = v]
      BY <2>2, <3>1, <3>4 DEF Set
    <3>6. /\ v \in TurnType /\ v.at = step /\ v.session = w.session /\ v.heard = w.heard
          /\ v.alone = w.alone /\ v.ent = e /\ v.up = u /\ v.hist = h
      BY <1>3, <1>4, <3>2, <3>3, <3>4 DEF TurnType
    <3>7. Moves(t, v)
      BY <1>1, <1>2, <3>2, <3>5, <3>6 DEF Moves
    <3> QED
      BY <3>1, <3>2, <3>6, <3>7
  <2> QED
    BY <1>2, <2>1, <2>2
<1>8. PICK v : /\ Moves(t, v)
               /\ \/ v.at = "answered"
                  \/ /\ v.at \in {"new", "publish", "run", "create", "send"}
                     /\ v.ent = e /\ v.up = entry'[e].up /\ v.hist = entry'[e].hist
  BY <1>5, <1>7
<1>9. \E x, y :
         /\ x \in Turn /\ table' = [table EXCEPT ![s] = x]
         /\ \/ x = t /\ entry' = [entry EXCEPT ![t] = Empty]
            \/ x = table[s] /\ turn[t].method # "start" /\ UNCHANGED entry
         /\ Moves(t, y)
         /\ \/ y.at = "answered"
            \/ /\ y.at \in {"new", "publish", "run", "create", "send"}
               /\ y.ent = x /\ y.up = entry'[x].up /\ y.hist = entry'[x].hist
  BY <1>2, <1>4, <1>6, <1>8, Zenon
<1> QED
  BY <1>1, <1>2, <1>3, <1>9, Zenon

\* Hermes writes its record at three points; only the last of them sets the handler free.
LEMMA HermesIs ==
    ASSUME TurnsOK, TableOK, NEW t \in Turn,
           Publish(t) \/ SetHandler(t) \/ Record(t) \/ UnsetHandler(t) \/ AlreadyInitialized(t)
    PROVE  /\ UNCHANGED <<adapter, child, ready, lock, stuck, pipe, dropped>>
           /\ \E v :
                /\ Moves(t, v)
                /\ \/ /\ turn[t].at = "publish" /\ v.at \in {"model", "handler"}
                      /\ Write(t, [Kept(t) EXCEPT !.up = turn[t].up])
                      /\ UNCHANGED handler /\ SameHold(v, turn[t])
                   \/ /\ turn[t].at = "handler" /\ v.at = "prompt" /\ lock = None /\ handler' = t
                      /\ UNCHANGED <<table, entry>> /\ SameHold(v, turn[t])
                   \/ /\ turn[t].at = "history" /\ v.at = "unset"
                      /\ Write(t, [Kept(t) EXCEPT !.hist = Kept(t).hist \cup {t}])
                      /\ UNCHANGED handler /\ SameHold(v, turn[t])
                   \/ /\ turn[t].at = "unset" /\ v.at = "answered" /\ lock = None
                      /\ handler' = None /\ UNCHANGED <<table, entry>>
                   \/ /\ turn[t].at = "init" /\ v.at = "lookup" /\ lock = None /\ ready
                      /\ UNCHANGED <<handler, table, entry>> /\ SameHold(v, turn[t])
<1>a. {"model", "handler", "prompt", "unset", "lookup"} \subseteq Steps
  BY DEF Steps, Calls
<1>b. UNCHANGED <<adapter, child, ready, lock, stuck, pipe, dropped>>
  BY DEF Publish, SetHandler, Record, UnsetHandler, AlreadyInitialized
<1>1. CASE Publish(t)
  <2>1. /\ turn[t].at = "publish" /\ Write(t, [Kept(t) EXCEPT !.up = turn[t].up])
        /\ UNCHANGED handler /\ (GoTo(t, "model") \/ GoTo(t, "handler"))
    BY <1>1 DEF Publish
  <2>2. PICK v : Moves(t, v) /\ v.at \in {"model", "handler"} /\ SameHold(v, turn[t])
    BY <1>a, <2>1, GoToIs DEF SameHold
  <2> QED
    BY <1>b, <2>1, <2>2
<1>2. CASE SetHandler(t)
  <2>1. /\ turn[t].at = "handler" /\ lock = None /\ handler' = t /\ GoTo(t, "prompt")
        /\ UNCHANGED <<table, entry>>
    BY <1>2 DEF SetHandler
  <2>2. PICK v : Moves(t, v) /\ v.at = "prompt" /\ SameHold(v, turn[t])
    BY <1>a, <2>1, GoToIs DEF SameHold
  <2> QED
    BY <1>b, <2>1, <2>2
<1>3. CASE Record(t)
  <2>1. /\ turn[t].at = "history" /\ Write(t, [Kept(t) EXCEPT !.hist = Kept(t).hist \cup {t}])
        /\ UNCHANGED handler /\ GoTo(t, "unset")
    BY <1>3 DEF Record
  <2>2. PICK v : Moves(t, v) /\ v.at = "unset" /\ SameHold(v, turn[t])
    BY <1>a, <2>1, GoToIs DEF SameHold
  <2> QED
    BY <1>b, <2>1, <2>2
<1>4. CASE UnsetHandler(t)
  <2>1. /\ turn[t].at = "unset" /\ lock = None /\ handler' = None /\ Answer(t)
        /\ UNCHANGED <<table, entry>>
    BY <1>4 DEF UnsetHandler
  <2>2. PICK v : Moves(t, v) /\ v.at = "answered"
    BY <2>1, AnswerIs
  <2> QED
    BY <1>b, <2>1, <2>2
<1>5. CASE AlreadyInitialized(t)
  <2>1. /\ turn[t].at = "init" /\ lock = None /\ ready /\ GoTo(t, "lookup")
        /\ UNCHANGED <<handler, table, entry>>
    BY <1>5 DEF AlreadyInitialized
  <2>2. PICK v : Moves(t, v) /\ v.at = "lookup" /\ SameHold(v, turn[t])
    BY <1>a, <2>1, GoToIs DEF SameHold
  <2> QED
    BY <1>b, <2>1, <2>2
<1> QED
  BY <1>1, <1>2, <1>3, <1>4, <1>5

\* Gemini's command, and the requests of opencode.
LEMMA OthersAre ==
    ASSUME TurnsOK, TableOK, NEW t \in Turn,
           RunCommand(t) \/ Start(t) \/ CreateSession(t) \/ SendMessage(t) \/ MessageReturns(t)
    PROVE  /\ UNCHANGED <<adapter, ready, lock, stuck, pipe, handler, dropped>>
           /\ \E v :
                /\ Moves(t, v)
                /\ \/ /\ turn[t].at = "run" /\ v.at = "answered" /\ UNCHANGED child
                      /\ \/ Write(t, [Kept(t) EXCEPT !.hist = turn[t].hist \cup {t}])
                         \/ UNCHANGED <<table, entry>>
                   \/ /\ turn[t].at = "init" /\ v.at \in {"lookup", "answered"}
                      /\ v.at = "lookup" => child' = "up" /\ SameHold(v, turn[t])
                      /\ child' = child \/ (child # "dead" /\ child' = "up")
                      /\ UNCHANGED <<table, entry>>
                   \/ /\ turn[t].at = "create" /\ v.at = "send" /\ UNCHANGED child
                      /\ entry' = [entry EXCEPT ![turn[t].ent].up = t]
                      /\ table' = [table EXCEPT ![turn[t].session] = turn[t].ent]
                      /\ SameHold(v, turn[t])
                   \/ /\ turn[t].at = "create" /\ v.at = "answered"
                      /\ UNCHANGED <<child, table, entry>>
                   \/ /\ turn[t].at = "send" /\ v.at = "sent" /\ UNCHANGED <<child, table, entry>>
                      /\ v.ent = turn[t].ent /\ v.hist = turn[t].hist
                      /\ v.up = entry[turn[t].ent].up
                   \/ /\ turn[t].at = "sent" /\ v.at = "answered" /\ UNCHANGED <<child, entry>>
                      /\ \/ table' = [table EXCEPT ![turn[t].session] = turn[t].ent]
                         \/ UNCHANGED table
<1>a. {"lookup", "send", "sent"} \subseteq Steps
  BY DEF Steps
<1>b. UNCHANGED <<adapter, ready, lock, stuck, pipe, handler, dropped>>
  BY DEF RunCommand, Start, CreateSession, SendMessage, MessageReturns
<1>1. CASE RunCommand(t)
  <2>1. /\ turn[t].at = "run" /\ Answer(t) /\ UNCHANGED child
        /\ \/ Write(t, [Kept(t) EXCEPT !.hist = turn[t].hist \cup {t}])
           \/ UNCHANGED <<table, entry>>
    BY <1>1 DEF RunCommand
  <2>2. PICK v : Moves(t, v) /\ v.at = "answered"
    BY <2>1, AnswerIs
  <2> QED
    BY <1>b, <2>1, <2>2
<1>2. CASE Start(t)
  <2>1. /\ turn[t].at = "init" /\ UNCHANGED <<table, entry>>
        /\ \/ child # "dead" /\ child' = "up" /\ GoTo(t, "lookup")
           \/ (child' = child \/ (child # "dead" /\ child' = "up")) /\ Answer(t)
    BY <1>2 DEF Start
  <2>2. PICK v : /\ Moves(t, v) /\ v.at \in {"lookup", "answered"}
                 /\ v.at = "lookup" => child' = "up" /\ SameHold(v, turn[t])
                 /\ child' = child \/ (child # "dead" /\ child' = "up")
    BY <1>a, <2>1, AnswerIs, GoToIs DEF SameHold
  <2> QED
    BY <1>b, <2>1, <2>2
<1>3. CASE CreateSession(t)
  <2>1. /\ turn[t].at = "create" /\ UNCHANGED child
        /\ \/ /\ entry' = [entry EXCEPT ![turn[t].ent].up = t] /\ GoTo(t, "send")
              /\ table' = [table EXCEPT ![turn[t].session] = turn[t].ent]
           \/ Answer(t) /\ UNCHANGED <<table, entry>>
    BY <1>3 DEF CreateSession
  <2>2. CASE GoTo(t, "send") /\ entry' = [entry EXCEPT ![turn[t].ent].up = t]
             /\ table' = [table EXCEPT ![turn[t].session] = turn[t].ent]
    <3>1. PICK v : Moves(t, v) /\ v.at = "send" /\ SameHold(v, turn[t])
      BY <1>a, <2>1, <2>2, GoToIs DEF SameHold
    <3> QED
      BY <1>b, <2>1, <2>2, <3>1
  <2>3. CASE Answer(t) /\ UNCHANGED <<table, entry>>
    <3>1. PICK v : Moves(t, v) /\ v.at = "answered"
      BY <2>1, <2>3, AnswerIs
    <3> QED
      BY <1>b, <2>1, <2>3, <3>1
  <2> QED
    BY <2>1, <2>2, <2>3
<1>4. CASE SendMessage(t)
  <2>1. PICK w, u : w = turn[t] /\ u = entry[turn[t].ent].up
    OBVIOUS
  <2>2. PICK v : v = [w EXCEPT !.at = "sent", !.up = u]
    OBVIOUS
  <2>3. turn' = [turn EXCEPT ![t] = v] /\ w.at = "send" /\ UNCHANGED <<child, table, entry>>
    BY <1>4, <2>1, <2>2 DEF SendMessage, Set
  <2>4. w \in TurnType /\ w.ent \in Turn
    BY <2>1, <2>3 DEF TurnsOK, TurnOK
  <2>5. u \in Turn \cup {None}
    BY <2>1, <2>4 DEF TableOK, EntryType
  <2>6. /\ v \in TurnType /\ v.at = "sent" /\ v.session = w.session /\ v.heard = w.heard
        /\ v.alone = w.alone /\ v.ent = w.ent /\ v.up = u /\ v.hist = w.hist
    BY <1>a, <2>2, <2>4, <2>5 DEF TurnType
  <2>7. Moves(t, v)
    BY <2>1, <2>3, <2>6 DEF Moves
  <2> QED
    BY <1>b, <2>1, <2>3, <2>6, <2>7
<1>5. CASE MessageReturns(t)
  <2>1. /\ turn[t].at = "sent" /\ Answer(t) /\ UNCHANGED <<child, entry>>
        /\ \/ table' = [table EXCEPT ![turn[t].session] = turn[t].ent]
           \/ UNCHANGED table
    BY <1>5 DEF MessageReturns
  <2>2. PICK v : Moves(t, v) /\ v.at = "answered"
    BY <2>1, AnswerIs
  <2> QED
    BY <1>b, <2>1, <2>2
<1> QED
  BY <1>1, <1>2, <1>3, <1>4, <1>5

\* A request arrives: it is new, and the turns in flight are no longer alone.
LEMMA ReceiveIs ==
    ASSUME TurnsOK, NEW t \in Turn, Receive(t)
    PROVE  /\ turn[t].at = "idle" /\ TurnsOK'
           /\ UNCHANGED <<adapter, child, ready, lock, stuck, pipe, handler, table, entry, dropped>>
           /\ turn'[t].at = "init" /\ turn'[t].session \in Session /\ turn'[t].heard = {}
           /\ turn'[t].ent = None /\ turn'[t].up = None /\ turn'[t].hist = {}
           /\ turn'[t].alone => Running = {}
           /\ \A x \in Turn \ {t} :
                 /\ turn'[x].at = turn[x].at /\ turn'[x].session = turn[x].session
                 /\ turn'[x].heard \in {turn[x].heard, {}} /\ SameHold(turn'[x], turn[x])
                 /\ turn'[x].alone => turn[x].alone /\ x \notin Running
<1>1. PICK s \in Session, method \in {"start", "message"} :
        turn' = [u \in Turn |->
            IF u = t THEN [NewTurn EXCEPT !.at = "init", !.session = s, !.method = method,
                                          !.alone = (Running = {})]
            ELSE IF u \in Running THEN [turn[u] EXCEPT !.alone = FALSE, !.heard = {}]
            ELSE turn[u]]
  BY DEF Receive
<1>2. /\ turn[t].at = "idle"
      /\ UNCHANGED <<adapter, child, ready, lock, stuck, pipe, handler, table, entry, dropped>>
  BY DEF Receive
<1>3. PICK i, first, v : /\ i = NewTurn /\ first = (Running = {})
                         /\ v = [i EXCEPT !.at = "init", !.session = s, !.method = method,
                                          !.alone = first]
  OBVIOUS
<1>4. i \in TurnType /\ i.heard = {} /\ i.ent = None /\ i.up = None /\ i.hist = {}
  BY <1>3 DEF NewTurn, TurnType, Steps
<1>5. /\ v \in TurnType /\ v.at = "init" /\ v.session = s /\ v.heard = {} /\ v.ent = None
      /\ v.up = None /\ v.hist = {} /\ v.alone = first
  <2>1. first \in BOOLEAN /\ "init" \in Steps
    BY <1>3 DEF Steps, Calls
  <2> QED
    BY <1>3, <1>4, <2>1 DEF TurnType
<1>6. turn'[t] = v
  BY <1>1, <1>3
<1>7. ASSUME NEW x \in Turn \ {t}
      PROVE  /\ turn'[x].at = turn[x].at /\ turn'[x].session = turn[x].session
             /\ turn'[x].heard \in {turn[x].heard, {}} /\ SameHold(turn'[x], turn[x])
             /\ turn'[x].alone => turn[x].alone /\ x \notin Running
             /\ turn'[x] \in TurnType
  <2>1. PICK w : w = turn[x]
    OBVIOUS
  <2>2. w \in TurnType
    BY <2>1 DEF TurnsOK
  <2>3. CASE x \in Running
    <3>1. PICK y : y = [w EXCEPT !.alone = FALSE, !.heard = {}]
      OBVIOUS
    <3>2. turn'[x] = y
      BY <1>1, <2>1, <2>3, <3>1
    <3>3. /\ y \in TurnType /\ y.at = w.at /\ y.session = w.session /\ y.heard = {}
          /\ y.ent = w.ent /\ y.up = w.up /\ y.hist = w.hist /\ ~y.alone
      BY <2>2, <3>1 DEF TurnType
    <3> QED
      BY <2>1, <3>2, <3>3 DEF SameHold
  <2>4. CASE x \notin Running
    BY <1>1, <2>1, <2>2, <2>4 DEF SameHold
  <2> QED
    BY <2>3, <2>4
<1>8. TurnsOK'
  <2>1. \A x \in Turn : TurnOK(turn'[x])
    BY <1>5, <1>6, <1>7 DEF TurnsOK, TurnOK, SameHold
  <2>2. turn' \in [Turn -> TurnType]
    BY <1>1, <2>1 DEF TurnOK
  <2> QED
    BY <2>1, <2>2 DEF TurnsOK, TurnOK
<1> QED
  BY <1>2, <1>3, <1>5, <1>6, <1>7, <1>8

\* Text of the child is heard by the turn whose handler is set.
LEMMA ReadTextIs ==
    ASSUME TurnsOK, HandlerOK, handler \in Turn \cup {None}, NEW t \in Turn, ReadText(t), NEW line,
           line = Head(pipe), line \in Line
    PROVE  /\ lock = t /\ ~stuck /\ pipe # <<>> /\ pipe' = Tail(pipe) /\ TurnsOK'
           /\ UNCHANGED <<adapter, child, ready, lock, stuck, handler, table, entry, dropped>>
           /\ \A x \in Turn :
                 /\ turn'[x].at = turn[x].at /\ turn'[x].session = turn[x].session
                 /\ turn'[x].alone = turn[x].alone /\ SameHold(turn'[x], turn[x])
                 /\ turn'[x].heard = IF x = handler /\ turn[x].alone
                                     THEN turn[x].heard \cup {line} ELSE turn[x].heard
<1>1. /\ lock = t /\ ~stuck /\ pipe # <<>> /\ pipe' = Tail(pipe)
      /\ UNCHANGED <<adapter, child, ready, lock, stuck, handler, table, entry, dropped>>
      /\ turn' = IF handler = None \/ ~turn[handler].alone THEN turn
                 ELSE [turn EXCEPT ![handler].heard = @ \cup {line}]
  BY DEF ReadText
<1>2. CASE handler = None \/ ~turn[handler].alone
  <2>1. turn' = turn /\ None \notin Turn
    BY <1>1, <1>2, AdaptersAssumption
  <2>2. TurnsOK'
    BY <2>1 DEF TurnsOK, TurnOK
  <2> QED
    BY <1>1, <1>2, <2>1, <2>2 DEF SameHold
<1>3. CASE handler # None /\ turn[handler].alone
  <2>1. PICK w, v, heard : /\ w = turn[handler] /\ heard = w.heard \cup {line}
                           /\ v = [w EXCEPT !.heard = heard]
    OBVIOUS
  <2>2. handler \in Turn /\ w \in TurnType /\ TurnOK(w)
    BY <1>3, <2>1 DEF TurnsOK
  <2>3. turn' = [turn EXCEPT ![handler] = v]
    BY <1>1, <1>3, <2>1, <2>2 DEF TurnsOK
  <2>4. heard \subseteq Line
    BY <2>1, <2>2 DEF TurnType
  <2>5. /\ v \in TurnType /\ v.at = w.at /\ v.session = w.session /\ v.heard = heard
        /\ v.ent = w.ent /\ v.up = w.up /\ v.hist = w.hist /\ v.alone = w.alone
    BY <2>1, <2>2, <2>4 DEF TurnType
  <2>6. \A x \in Turn : turn'[x] = IF x = handler THEN v ELSE turn[x]
    BY <2>3 DEF TurnsOK
  <2>7. w.at # "idle"
    BY <1>3, <2>1 DEF HandlerOK, Held
  <2>8. TurnsOK'
    <3>1. \A x \in Turn : TurnOK(turn'[x])
      BY <2>2, <2>5, <2>6, <2>7 DEF TurnsOK, TurnOK
    <3>2. turn' \in [Turn -> TurnType]
      BY <2>3, <2>5 DEF TurnsOK
    <3> QED
      BY <3>1, <3>2 DEF TurnsOK, TurnOK
  <2>9. ASSUME NEW x \in Turn
        PROVE  /\ turn'[x].at = turn[x].at /\ turn'[x].session = turn[x].session
               /\ turn'[x].alone = turn[x].alone /\ SameHold(turn'[x], turn[x])
               /\ turn'[x].heard = IF x = handler /\ turn[x].alone
                                   THEN turn[x].heard \cup {line} ELSE turn[x].heard
    <3>1. CASE x = handler
      <4>1. turn[x] = w /\ turn'[x] = v
        BY <2>1, <2>6, <3>1
      <4> QED
        BY <1>3, <2>1, <2>5, <3>1, <4>1 DEF SameHold
    <3>2. CASE x # handler
      BY <2>6, <3>2 DEF SameHold
    <3> QED
      BY <3>1, <3>2
  <2> QED
    BY <1>1, <2>8, <2>9
<1> QED
  BY <1>2, <1>3

-----------------------------------------------------------------------------
(* The child, the mutex, the pipe and the handler *)

\* There is at most one response and one text in the pipe.
Differ(k, l) == (k = "response") # (l = "response")

WireTypes ==
    /\ adapter \in Adapter /\ child \in {"off", "up", "dead"} /\ ready \in BOOLEAN
    /\ lock \in Turn \cup {None} /\ stuck \in BOOLEAN /\ (stuck => lock # None)
    /\ pipe \in Seq(Line) /\ Len(pipe) <= 2
    /\ Len(pipe) = 2 => Differ(pipe[1].kind, pipe[2].kind)
    /\ handler \in Turn \cup {None}

\* But for late text, what is in the pipe belongs to the call that holds the mutex, and a
\* call that ends leaves nothing behind unless the child has exited, after which no call
\* gets the mutex.
Own(t) == \A i \in 1..Len(pipe) : pipe[i].kind # "late" => pipe[i].by = t

PipeInv ==
    /\ LockOK /\ HandlerOK
    /\ lock # None \/ child # "dead" => Own(lock)
    /\ ready => child # "off"
    /\ \A t \in Turn : turn[t].at \notin {"idle", "init", "answered"} => child # "off"

LEMMA LinesAre ==
    ASSUME WireTypes, NEW i \in 1..Len(pipe)
    PROVE  pipe[i] \in Line /\ pipe[i].by \in Turn /\ pipe[i].kind \in Text \cup {"response"}
<1>1. pipe \in Seq(Line)
  BY DEF WireTypes
<1>2. pipe[i] \in Line
  BY <1>1
<1> QED
  BY <1>2 DEF Line

\* A turn goes on without touching any of it; the child may be started.
LEMMA QuietMoves ==
    ASSUME TurnsOK, WireTypes, PipeInv, NEW t \in Turn, NEW v, Moves(t, v),
           UNCHANGED <<adapter, ready, lock, stuck, pipe, handler>>, lock # t,
           turn[t].at \in Held => v.at \in Held,
           child' = child \/ (child # "dead" /\ child' = "up"),
           v.at \notin {"idle", "init", "answered"} => child' # "off"
    PROVE  WireTypes' /\ PipeInv'
<1>1. \A x \in Turn : turn'[x] = IF x = t THEN v ELSE turn[x]
  BY DEF TurnsOK, Moves
<1>2. WireTypes'
  BY DEF WireTypes, Line
<1>3. LockOK'
  BY <1>1 DEF PipeInv, LockOK, WireTypes
<1>4. HandlerOK'
  BY <1>1 DEF PipeInv, HandlerOK, WireTypes
<1>5. (lock # None \/ child # "dead" => Own(lock))'
  BY DEF PipeInv, Own
<1>6. (ready => child # "off")'
  BY DEF PipeInv
<1>7. \A x \in Turn : turn'[x].at \notin {"idle", "init", "answered"} => child' # "off"
  BY <1>1 DEF PipeInv
<1> QED
  BY <1>2, <1>3, <1>4, <1>5, <1>6, <1>7 DEF PipeInv

LEMMA WireServes ==
    ASSUME TurnsOK, TableOK, WireTypes, PipeInv, NEW t \in Turn,
           \/ Lookup(t) \/ Publish(t) \/ Record(t) \/ AlreadyInitialized(t)
           \/ RunCommand(t) \/ Start(t) \/ CreateSession(t) \/ SendMessage(t) \/ MessageReturns(t)
    PROVE  WireTypes' /\ PipeInv'
<1>a. adapter \in Adapter /\ (turn[t].at \notin {"idle", "init", "answered"} => child # "off")
  BY DEF WireTypes, PipeInv
<1>b. None # t
  BY AdaptersAssumption
<1>c. turn[t].at \notin Calls => lock # t
  BY <1>b DEF PipeInv, LockOK
<1>1. CASE Lookup(t)
  <2>1. PICK v : /\ Moves(t, v) /\ turn[t].at = "lookup"
                 /\ UNCHANGED <<adapter, child, ready, lock, stuck, pipe, handler>>
    BY <1>1, <1>a, LookupIs
  <2> QED
    BY <1>a, <1>c, <2>1, QuietMoves DEF Calls, Held
<1>2. CASE Publish(t) \/ Record(t)
  <2>1. PICK v : /\ Moves(t, v) /\ UNCHANGED <<adapter, child, ready, lock, stuck, pipe, handler>>
                 /\ \/ turn[t].at = "publish" /\ v.at \in {"model", "handler"}
                    \/ turn[t].at = "history" /\ v.at = "unset"
    <3>1. UNCHANGED handler /\ turn[t].at \in {"publish", "history"}
      BY <1>2 DEF Publish, Record
    <3> QED
      BY <1>2, <3>1, HermesIs
  <2> QED
    BY <1>a, <1>c, <2>1, QuietMoves DEF Calls, Held
<1>3. CASE AlreadyInitialized(t)
  <2>1. turn[t].at = "init" /\ lock = None /\ ready
    BY <1>3 DEF AlreadyInitialized
  <2>2. PICK v : /\ Moves(t, v) /\ UNCHANGED <<adapter, child, ready, lock, stuck, pipe, handler>>
    BY <1>3, <2>1, HermesIs
  <2>3. child # "off" /\ lock # t
    BY <1>b, <2>1 DEF PipeInv
  <2> QED
    BY <2>1, <2>2, <2>3, QuietMoves DEF Held
<1>4. CASE RunCommand(t) \/ CreateSession(t) \/ SendMessage(t) \/ MessageReturns(t)
  <2>1. turn[t].at \in {"run", "create", "send", "sent"} /\ UNCHANGED child
    BY <1>4 DEF RunCommand, CreateSession, SendMessage, MessageReturns
  <2>2. PICK v : /\ Moves(t, v) /\ UNCHANGED <<adapter, ready, lock, stuck, pipe, handler>>
    BY <1>4, OthersAre
  <2> QED
    BY <1>a, <1>c, <2>1, <2>2, QuietMoves DEF Calls, Held
<1>5. CASE Start(t)
  <2>1. turn[t].at = "init" /\ adapter = "opencode"
    BY <1>5 DEF Start
  <2>2. PICK v : /\ Moves(t, v) /\ UNCHANGED <<adapter, ready, lock, stuck, pipe, handler>>
                 /\ v.at \in {"lookup", "answered"} /\ (v.at = "lookup" => child' = "up")
                 /\ child' = child \/ (child # "dead" /\ child' = "up")
    BY <1>5, <2>1, OthersAre
  <2>3. lock # t
    BY <1>b, <2>1 DEF PipeInv, LockOK
  <2> QED
    BY <2>1, <2>2, <2>3, QuietMoves DEF Held
<1> QED
  BY <1>1, <1>2, <1>3, <1>4, <1>5

\* A call is made, reads, and ends.
LEMMA WireCalls ==
    ASSUME TurnsOK, TableOK, WireTypes, PipeInv, NEW t \in Turn,
           Call(t) \/ ReadText(t) \/ ReadResponse(t) \/ ReadFails(t)
    PROVE  WireTypes' /\ PipeInv'
<1>a. None # t /\ LockOK /\ HandlerOK /\ (turn[t].at \notin {"idle", "init", "answered"} => child # "off")
  BY AdaptersAssumption DEF PipeInv
<1>1. CASE Call(t)
  <2>1. /\ turn[t].at \in Calls /\ lock = None
        /\ UNCHANGED <<adapter, ready, stuck, pipe, handler>>
    BY <1>1, CallIs
  <2>2. adapter # "opencode"
    BY <1>1 DEF Call
  <2>3. CASE UNCHANGED turn /\ child # "dead" /\ child' = "up" /\ lock' = t
    <3>1. Own(lock)'
      <4>1. \A i \in 1..Len(pipe) : pipe[i] \in Line /\ pipe[i].by # None
        BY LinesAre, AdaptersAssumption
      <4>2. \A i \in 1..Len(pipe) : pipe[i].kind = "late"
        BY <2>1, <2>3, <4>1 DEF PipeInv, Own
      <4> QED
        BY <2>1, <4>2 DEF Own
    <3>2. WireTypes'
      BY <1>a, <2>1, <2>3 DEF WireTypes, Line
    <3>3. LockOK' /\ HandlerOK'
      BY <1>a, <2>1, <2>2, <2>3 DEF LockOK, HandlerOK
    <3> QED
      BY <1>a, <2>1, <2>3, <3>1, <3>2, <3>3 DEF PipeInv
  <2>4. ASSUME NEW v, Moves(t, v), UNCHANGED <<child, lock>>,
               \/ v.at = "answered" /\ (child = "off" \/ turn[t].at # "prompt")
               \/ v.at = "unset" /\ turn[t].at = "prompt" /\ child = "dead"
        PROVE  WireTypes' /\ PipeInv'
    BY <1>a, <2>1, <2>4, QuietMoves DEF Held, Calls
  <2> QED
    BY <1>1, <2>3, <2>4, CallIs
<1>2. CASE ReadText(t)
  <2>1. PICK line : line = Head(pipe)
    OBVIOUS
  <2>2. lock = t /\ pipe # <<>> /\ pipe' = Tail(pipe)
    BY <1>2 DEF ReadText
  <2>3. /\ Tail(pipe) \in Seq(Line) /\ Len(Tail(pipe)) = Len(pipe) - 1 /\ Len(pipe) \in Nat
        /\ \A i \in 1..Len(Tail(pipe)) : Tail(pipe)[i] = pipe[i + 1] /\ i + 1 \in 1..Len(pipe)
        /\ Head(pipe) \in Line
    BY <2>2 DEF WireTypes
  <2>4. line \in Line /\ handler \in Turn \cup {None}
    BY <2>1, <2>3 DEF WireTypes
  <2>5. /\ UNCHANGED <<adapter, child, ready, lock, stuck, handler>>
        /\ \A x \in Turn : turn'[x].at = turn[x].at
    BY <1>2, <1>a, <2>1, <2>4, ReadTextIs
  <2>6. WireTypes'
    BY <2>2, <2>3, <2>5 DEF WireTypes, Line
  <2>7. LockOK' /\ HandlerOK'
    BY <1>a, <2>5 DEF LockOK, HandlerOK, WireTypes
  <2>8. Own(lock)'
    BY <1>a, <2>2, <2>3, <2>5 DEF PipeInv, Own
  <2> QED
    BY <1>a, <2>2, <2>5, <2>6, <2>7, <2>8 DEF PipeInv
<1>3. CASE ReadResponse(t)
  <2>1. /\ lock = t /\ turn[t].at \in Calls /\ pipe' = <<>> /\ lock' = None /\ ~stuck
        /\ UNCHANGED <<adapter, child, stuck, handler>>
    BY <1>3, <1>a, ReadResponseIs
  <2>2. PICK v : Moves(t, v) /\ (turn[t].at \in Held => v.at \in Held) /\ ready' \in {ready, TRUE}
    BY <1>3, <1>a, ReadResponseIs DEF Held
  <2>3. \A x \in Turn : turn'[x] = IF x = t THEN v ELSE turn[x]
    BY <2>2 DEF TurnsOK, Moves
  <2>4. pipe' \in Seq(Line) /\ Len(pipe') = 0 /\ ready' \in BOOLEAN
    <3>1. pipe' \in Seq(Line) /\ Len(pipe') = 0
      BY <2>1
    <3>2. ready' \in BOOLEAN
      BY <2>2, Zenon DEF WireTypes
    <3> QED
      BY <3>1, <3>2
  <2>5. WireTypes'
    BY <2>1, <2>4 DEF WireTypes, Line
  <2>6. child # "off"
    BY <1>a, <2>1 DEF LockOK
  <2>7. LockOK' /\ HandlerOK'
    BY <1>a, <2>1, <2>2, <2>3 DEF LockOK, HandlerOK, WireTypes
  <2>8. Own(lock)'
    BY <2>4 DEF Own
  <2> QED
    BY <2>1, <2>3, <2>5, <2>6, <2>7, <2>8 DEF PipeInv
<1>4. CASE ReadFails(t)
  <2>1. /\ lock = t /\ child = "dead" /\ lock' = None /\ stuck' = FALSE
        /\ UNCHANGED <<adapter, child, ready, pipe, handler>>
    BY <1>4, <1>a, ReadFailsIs
  <2>2. PICK v : Moves(t, v) /\ (turn[t].at \in Held => v.at \in Held)
    <3>1. turn[t].at \in Calls
      BY <1>a, <2>1 DEF LockOK
    <3> QED
      BY <1>4, <1>a, <3>1, ReadFailsIs DEF Held, Calls
  <2>3. \A x \in Turn : turn'[x] = IF x = t THEN v ELSE turn[x]
    BY <2>2 DEF TurnsOK, Moves
  <2>4. WireTypes'
    BY <2>1 DEF WireTypes, Line
  <2>5. LockOK' /\ HandlerOK'
    BY <1>a, <2>1, <2>2, <2>3 DEF LockOK, HandlerOK, WireTypes
  <2> QED
    BY <2>1, <2>4, <2>5 DEF PipeInv
<1> QED
  BY <1>1, <1>2, <1>3, <1>4

\* The handler is set and reset.
LEMMA WireHandler ==
    ASSUME TurnsOK, TableOK, WireTypes, PipeInv, NEW t \in Turn, SetHandler(t) \/ UnsetHandler(t)
    PROVE  WireTypes' /\ PipeInv'
<1>1. /\ UNCHANGED <<adapter, child, ready, lock, stuck, pipe>> /\ lock = None
      /\ turn[t].at \in {"handler", "unset"}
  BY DEF SetHandler, UnsetHandler
<1>2. PICK v : /\ Moves(t, v)
               /\ (v.at = "prompt" /\ handler' = t) \/ (v.at = "answered" /\ handler' = None)
  <2>1. CASE SetHandler(t)
    <3>1. turn[t].at = "handler" /\ handler' = t /\ GoTo(t, "prompt") /\ "prompt" \in Steps
      BY <2>1 DEF SetHandler, Steps, Calls
    <3>2. PICK v : Moves(t, v) /\ v.at = "prompt"
      BY <3>1, GoToIs
    <3> QED
      BY <3>1, <3>2
  <2>2. CASE UnsetHandler(t)
    <3>1. turn[t].at = "unset" /\ handler' = None /\ Answer(t)
      BY <2>2 DEF UnsetHandler
    <3>2. PICK v : Moves(t, v) /\ v.at = "answered"
      BY <3>1, AnswerIs
    <3> QED
      BY <3>1, <3>2
  <2> QED
    BY <2>1, <2>2
<1>3. \A x \in Turn : turn'[x] = IF x = t THEN v ELSE turn[x]
  BY <1>2 DEF TurnsOK, Moves
<1>4. WireTypes'
  BY <1>1, <1>2 DEF WireTypes, Line
<1>5. LockOK' /\ HandlerOK'
  BY <1>1, <1>2, <1>3 DEF LockOK, HandlerOK, Held
<1>6. \A x \in Turn : turn'[x].at \notin {"idle", "init", "answered"} => child' # "off"
  BY <1>1, <1>3 DEF PipeInv
<1> QED
  BY <1>1, <1>4, <1>5, <1>6 DEF PipeInv, Own

\* The child speaks: for the call that holds the mutex, or late.
LEMMA WireChild ==
    ASSUME TurnsOK, WireTypes, PipeInv, NEW t \in Turn,
           ChildResponds(t) \/ ChildTalks(t) \/ ChildTalksLate(t) \/ ReadTimesOut(t)
    PROVE  WireTypes' /\ PipeInv'
<1>a. None # t
  BY AdaptersAssumption
<1>1. ASSUME NEW kind \in Text \cup {"response"}, lock = t \/ kind = "late", child = "up",
             \A i \in 1..Len(pipe) : Differ(pipe[i].kind, kind), Says(t, kind),
             UNCHANGED <<adapter, child, ready, lock, stuck, handler, turn>>
      PROVE  WireTypes' /\ PipeInv'
  <2>1. PICK line : line = [kind |-> kind, by |-> t]
    OBVIOUS
  <2>2. line \in Line /\ line.kind = kind /\ line.by = t
    BY <2>1 DEF Line, Text
  <2>3. pipe' = Append(pipe, line)
    BY <1>1, <2>1 DEF Says
  <2>4. /\ Append(pipe, line) \in Seq(Line) /\ Len(Append(pipe, line)) = Len(pipe) + 1
        /\ Len(pipe) \in Nat /\ Append(pipe, line)[Len(pipe) + 1] = line
        /\ \A i \in 1..Len(pipe) : Append(pipe, line)[i] = pipe[i] /\ pipe[i] \in Line
    BY <2>2 DEF WireTypes
  <2>6. Len(pipe) <= 1
    <3>1. Len(pipe) = 2 => /\ 1 \in 1..Len(pipe) /\ 2 \in 1..Len(pipe)
                           /\ Differ(pipe[1].kind, pipe[2].kind)
      BY DEF WireTypes
    <3>3. Len(pipe) # 2
      BY <1>1, <3>1 DEF Differ
    <3>4. Len(pipe) <= 2
      BY DEF WireTypes
    <3>5. PICK n \in Nat : n = Len(pipe)
      BY <2>4
    <3> QED
      BY <3>3, <3>4, <3>5
  <2>7. Len(pipe') = 2 => Differ(pipe'[1].kind, pipe'[2].kind)
    <3> SUFFICES ASSUME Len(pipe') = 2 PROVE Differ(pipe'[1].kind, pipe'[2].kind)
      OBVIOUS
    <3>0. PICK n \in Nat : n = Len(pipe)
      BY <2>4
    <3>a. n + 1 = 2
      BY <2>3, <2>4, <3>0
    <3>1. Len(pipe) = 1
      BY <3>0, <3>a
    <3>2. 1 \in 1..Len(pipe)
      BY <3>1
    <3>3. pipe'[1] = pipe[1] /\ Differ(pipe[1].kind, kind)
      BY <1>1, <2>3, <2>4, <3>2
    <3>4. pipe'[2] = line
      <4>1. Append(pipe, line)[1 + 1] = line
        BY <2>4, <3>1
      <4> QED
        BY <2>3, <4>1
    <3> QED
      BY <2>2, <3>3, <3>4
  <2>8. WireTypes'
    BY <1>1, <2>3, <2>4, <2>6, <2>7 DEF WireTypes, Line
  <2>9. Own(lock)'
    <3>1. Own(lock)
      BY <1>1 DEF PipeInv
    <3> QED
      BY <1>1, <2>2, <2>3, <2>4, <3>1 DEF Own
  <2>10. LockOK' /\ HandlerOK'
    BY <1>1 DEF PipeInv, LockOK, HandlerOK
  <2> QED
    BY <1>1, <1>a, <2>8, <2>9, <2>10 DEF PipeInv
<1>b. \A i \in 1..Len(pipe) : pipe[i].kind \in Text \cup {"response"}
  BY LinesAre
<1>2. CASE ChildResponds(t)
  <2>1. \A i \in 1..Len(pipe) : Differ(pipe[i].kind, "response")
    BY <1>2 DEF ChildResponds, Unread, Differ
  <2> QED
    BY <1>1, <1>2, <2>1 DEF ChildResponds
<1>3. CASE ChildTalks(t) \/ ChildTalksLate(t)
  <2>1. Unread(Text) = {}
    BY <1>3 DEF ChildTalks, ChildTalksLate
  <2>2. \A i \in 1..Len(pipe) : pipe[i].kind = "response"
    BY <1>b, <2>1 DEF Unread
  <2>3. \A i \in 1..Len(pipe) : Differ(pipe[i].kind, "text") /\ Differ(pipe[i].kind, "late")
    BY <2>2 DEF Differ
  <2>4. "text" \in Text /\ "late" \in Text
    BY DEF Text
  <2> QED
    BY <1>1, <1>3, <2>3, <2>4 DEF ChildTalks, ChildTalksLate
<1>4. CASE ReadTimesOut(t)
  <2>1. /\ lock = t /\ stuck' = TRUE
        /\ UNCHANGED <<adapter, child, ready, lock, pipe, handler, turn>>
    BY <1>4 DEF ReadTimesOut
  <2>2. WireTypes'
    BY <1>a, <2>1 DEF WireTypes, Line
  <2> QED
    BY <2>1, <2>2 DEF PipeInv, LockOK, HandlerOK, Own
<1> QED
  BY <1>2, <1>3, <1>4

LEMMA WireRest ==
    ASSUME TurnsOK, WireTypes, PipeInv,
           \/ \E t \in Turn : Receive(t)
           \/ ChildExits \/ (\E s \in Session : Close(s)) \/ UNCHANGED avars
    PROVE  WireTypes' /\ PipeInv'
<1>1. ASSUME NEW t \in Turn, Receive(t) PROVE WireTypes' /\ PipeInv'
  <2>1. /\ turn[t].at = "idle" /\ turn'[t].at = "init"
        /\ UNCHANGED <<adapter, child, ready, lock, stuck, pipe, handler>>
        /\ \A x \in Turn \ {t} : turn'[x].at = turn[x].at
    BY <1>1, ReceiveIs
  <2>2. WireTypes'
    BY <2>1 DEF WireTypes, Line
  <2>3. LockOK' /\ HandlerOK'
    BY <2>1 DEF PipeInv, LockOK, HandlerOK, WireTypes, Held, Calls
  <2>4. \A x \in Turn : turn'[x].at \notin {"idle", "init", "answered"} => child' # "off"
    BY <2>1 DEF PipeInv
  <2> QED
    BY <2>1, <2>2, <2>3, <2>4 DEF PipeInv, Own
<1>2. CASE ChildExits
  <2>1. child' = "dead" /\ UNCHANGED <<adapter, ready, lock, stuck, pipe, handler, turn>>
    BY <1>2 DEF ChildExits
  <2>2. WireTypes'
    BY <2>1 DEF WireTypes, Line
  <2> QED
    BY <2>1, <2>2 DEF PipeInv, LockOK, HandlerOK, Own
<1>3. CASE (\E s \in Session : Close(s)) \/ UNCHANGED avars
  <2>1. UNCHANGED <<adapter, child, ready, lock, stuck, pipe, handler, turn>>
    BY <1>3 DEF Close, avars
  <2>2. WireTypes'
    BY <2>1 DEF WireTypes, Line
  <2> QED
    BY <2>1, <2>2 DEF PipeInv, LockOK, HandlerOK, Own
<1> QED
  BY <1>1, <1>2, <1>3

-----------------------------------------------------------------------------
(* The turns and the table *)

\* What every step of a goroutine but the reading of a text comes to.
LEMMA ServeMoves ==
    ASSUME TurnsOK, TableOK, WireTypes, PipeInv, NEW t \in Turn, Serve(t), ~ReadText(t)
    PROVE  /\ \/ UNCHANGED turn
              \/ \E v : /\ Moves(t, v)
                        /\ v.at \in {"create", "send", "sent"} => v.ent \in Turn
           /\ TableOK'
<1>a. LockOK /\ adapter \in Adapter
  BY DEF PipeInv, WireTypes
<1>b. UNCHANGED <<table, entry>> => TableOK'
  BY DEF TableOK, EntryType
<1>c. turn[t].at \in {"create", "send", "sent"} => turn[t].ent \in Turn
  BY DEF TurnsOK, TurnOK
<1>d. ASSUME NEW v, Moves(t, v) PROVE turn[t].session \in Session
  BY <1>d DEF Moves, TurnsOK, TurnOK
<1>1. CASE Call(t)
  BY <1>1, <1>b, CallIs
<1>2. CASE ReadFails(t)
  BY <1>2, <1>a, <1>b, ReadFailsIs
<1>3. CASE ReadResponse(t)
  <2>1. PICK v : /\ Moves(t, v) /\ v.at \notin {"create", "send", "sent"}
                 /\ \/ UNCHANGED <<table, entry>>
                    \/ entry' = [entry EXCEPT ![t].up = t] /\ UNCHANGED table
                    \/ Write(t, Kept(t))
    BY <1>3, <1>a, ReadResponseIs
  <2>2. Kept(t) \in EntryType
    BY <1>d, <2>1, KeptIs
  <2>3. CASE entry' = [entry EXCEPT ![t].up = t] /\ UNCHANGED table
    <3>1. TableOK'
      BY <2>3 DEF TableOK, EntryType
    <3> QED
      BY <2>1, <3>1
  <2> QED
    BY <1>b, <1>d, <2>1, <2>2, <2>3, WriteIs
<1>4. CASE Lookup(t)
  <2>1. PICK e, v :
          /\ e \in Turn /\ table' = [table EXCEPT ![turn[t].session] = e]
          /\ entry' = [entry EXCEPT ![t] = Empty] \/ UNCHANGED entry
          /\ Moves(t, v) /\ (v.at \in {"create", "send", "sent"} => v.ent \in Turn)
    BY <1>4, <1>a, LookupIs
  <2>2. TableOK'
    <3>1. Empty \in EntryType
      BY EmptyType
    <3>2. entry' \in [Turn -> EntryType]
      BY <2>1, <3>1 DEF TableOK
    <3>3. table' \in [Session -> Turn \cup {None}]
      BY <2>1 DEF TableOK
    <3> QED
      BY <3>2, <3>3 DEF TableOK
  <2> QED
    BY <2>1, <2>2
<1>5. CASE Publish(t) \/ SetHandler(t) \/ Record(t) \/ UnsetHandler(t) \/ AlreadyInitialized(t)
  <2>1. PICK v : /\ Moves(t, v) /\ v.at \notin {"create", "send", "sent"}
                 /\ \/ UNCHANGED <<table, entry>>
                    \/ Write(t, [Kept(t) EXCEPT !.up = turn[t].up])
                    \/ Write(t, [Kept(t) EXCEPT !.hist = Kept(t).hist \cup {t}])
    BY <1>5, HermesIs
  <2>2. Kept(t) \in EntryType /\ turn[t].up \in Turn \cup {None}
    BY <1>d, <2>1, KeptIs DEF TurnsOK, TurnType
  <2>3. Kept(t).hist \cup {t} \in SUBSET Turn
    BY <2>2 DEF EntryType
  <2>4. /\ [Kept(t) EXCEPT !.up = turn[t].up] \in EntryType
        /\ [Kept(t) EXCEPT !.hist = Kept(t).hist \cup {t}] \in EntryType
    BY <2>2, <2>3, RecordIs
  <2> QED
    BY <1>b, <1>d, <2>1, <2>4, WriteIs
<1>6. CASE RunCommand(t)
  <2>1. PICK v : /\ Moves(t, v) /\ v.at \notin {"create", "send", "sent"}
                 /\ \/ UNCHANGED <<table, entry>>
                    \/ Write(t, [Kept(t) EXCEPT !.hist = turn[t].hist \cup {t}])
    <3>1. turn[t].at = "run"
      BY <1>6 DEF RunCommand
    <3> QED
      BY <1>6, <3>1, OthersAre
  <2>2. Kept(t) \in EntryType /\ turn[t].hist \cup {t} \in SUBSET Turn
    BY <1>d, <2>1, KeptIs DEF TurnsOK, TurnType
  <2>3. [Kept(t) EXCEPT !.hist = turn[t].hist \cup {t}] \in EntryType
    BY <2>2, RecordIs
  <2> QED
    BY <1>b, <1>d, <2>1, <2>3, WriteIs
<1>7. CASE Start(t) \/ CreateSession(t) \/ SendMessage(t) \/ MessageReturns(t)
  <2>1. turn[t].at \in {"init", "create", "send", "sent"}
    BY <1>7 DEF Start, CreateSession, SendMessage, MessageReturns
  <2>2. PICK v : /\ Moves(t, v) /\ (v.at \in {"create", "send", "sent"} => v.ent \in Turn)
                 /\ \/ UNCHANGED <<table, entry>>
                    \/ /\ entry' = [entry EXCEPT ![turn[t].ent].up = t]
                       /\ table' = [table EXCEPT ![turn[t].session] = turn[t].ent]
                       /\ turn[t].ent \in Turn
                    \/ /\ UNCHANGED entry /\ turn[t].ent \in Turn
                       /\ table' = [table EXCEPT ![turn[t].session] = turn[t].ent]
    BY <1>7, <1>c, <2>1, OthersAre DEF SameHold
  <2>3. TableOK'
    BY <1>b, <2>2 DEF TableOK, EntryType
  <2> QED
    BY <2>2, <2>3
<1> QED
  BY <1>1, <1>2, <1>3, <1>4, <1>5, <1>6, <1>7 DEF Serve

LEMMA TypesStep ==
    TurnsOK /\ TableOK /\ WireTypes /\ PipeInv /\ [AdaptersNext]_avars
        => TurnsOK' /\ TableOK' /\ WireTypes' /\ PipeInv'
<1> SUFFICES ASSUME TurnsOK, TableOK, WireTypes, PipeInv, [AdaptersNext]_avars
             PROVE  TurnsOK' /\ TableOK' /\ WireTypes' /\ PipeInv'
  OBVIOUS
<1>a. UNCHANGED turn => TurnsOK'
  BY DEF TurnsOK, TurnOK
<1>b. UNCHANGED <<table, entry>> => TableOK'
  BY DEF TableOK, EntryType
<1>1. ASSUME NEW t \in Turn, Serve(t) PROVE TurnsOK' /\ TableOK' /\ WireTypes' /\ PipeInv'
  <2>1. CASE ReadText(t)
    <3>1. PICK line : line = Head(pipe)
      OBVIOUS
    <3>2. pipe # <<>> /\ pipe \in Seq(Line) /\ UNCHANGED <<table, entry>>
      BY <2>1 DEF ReadText, WireTypes
    <3>3. Head(pipe) \in Line
      BY <3>2
    <3>4. line \in Line /\ HandlerOK /\ handler \in Turn \cup {None}
      BY <3>1, <3>3 DEF PipeInv, WireTypes
    <3> QED
      BY <1>b, <2>1, <3>1, <3>2, <3>4, ReadTextIs, WireCalls
  <2>2. CASE ~ReadText(t)
    <3>1. TurnsOK' /\ TableOK'
      BY <1>1, <1>a, <2>2, ServeMoves, TurnMoves
    <3>2. WireTypes' /\ PipeInv'
      BY <1>1, <2>2, WireCalls, WireServes, WireHandler DEF Serve
    <3> QED
      BY <3>1, <3>2
  <2> QED
    BY <2>1, <2>2
<1>2. ASSUME NEW t \in Turn, ChildResponds(t) \/ ChildTalks(t) \/ ChildTalksLate(t)
                               \/ ReadTimesOut(t)
      PROVE  TurnsOK' /\ TableOK' /\ WireTypes' /\ PipeInv'
  <2>1. UNCHANGED <<turn, table, entry>>
    BY <1>2 DEF ChildResponds, ChildTalks, ChildTalksLate, ReadTimesOut
  <2> QED
    BY <1>2, <1>a, <1>b, <2>1, WireChild
<1>3. ASSUME NEW t \in Turn, Receive(t) PROVE TurnsOK' /\ TableOK' /\ WireTypes' /\ PipeInv'
  BY <1>3, <1>b, ReceiveIs, WireRest
<1>4. ASSUME NEW s \in Session, Close(s) PROVE TurnsOK' /\ TableOK' /\ WireTypes' /\ PipeInv'
  <2>1. UNCHANGED <<turn, entry>> /\ table' = [table EXCEPT ![s] = None]
    BY <1>4 DEF Close, closeSession
  <2>2. TableOK'
    BY <2>1 DEF TableOK, EntryType
  <2> QED
    BY <1>4, <1>a, <2>1, <2>2, WireRest
<1>5. CASE ChildExits \/ UNCHANGED avars
  <2>1. UNCHANGED <<turn, table, entry>>
    BY <1>5 DEF ChildExits, avars
  <2> QED
    BY <1>5, <1>a, <1>b, <2>1, WireRest
<1> QED
  BY <1>1, <1>2, <1>3, <1>4, <1>5 DEF AdaptersNext

-----------------------------------------------------------------------------
(* A turn that is alone hears itself *)

\* A turn in flight that is alone is the only one.
AloneInv ==
    /\ AloneHearsItself
    /\ \A t \in Running : turn[t].alone => Running \subseteq {t}

Hears(t, heard) == \A line \in heard : line.by = t \/ line.kind = "late"

LEMMA AloneMoves == ASSUME TurnsOK, AloneInv, NEW t \in Turn, NEW v, Moves(t, v) PROVE AloneInv'
<1>1. \A x \in Turn : turn'[x] = IF x = t THEN v ELSE turn[x]
  BY DEF TurnsOK, Moves
<1>2. Running' \subseteq Running
  BY <1>1 DEF Running, Moves
<1>3. \A x \in Turn : turn'[x].alone => Hears(x, turn'[x].heard)
  BY <1>1 DEF AloneInv, AloneHearsItself, Hears, Moves
<1>4. \A x \in Running' : turn'[x].alone => Running' \subseteq {x}
  BY <1>1, <1>2 DEF AloneInv, Running, Moves
<1> QED
  BY <1>3, <1>4 DEF AloneInv, AloneHearsItself, Hears

LEMMA AloneStep ==
    TurnsOK /\ TableOK /\ WireTypes /\ PipeInv /\ AloneInv /\ [AdaptersNext]_avars => AloneInv'
<1> SUFFICES ASSUME TurnsOK, TableOK, WireTypes, PipeInv, AloneInv, [AdaptersNext]_avars
             PROVE  AloneInv'
  OBVIOUS
<1>1. CASE UNCHANGED turn
  BY <1>1 DEF AloneInv, AloneHearsItself, Hears, Running
\* The text is late or that of the call that holds the mutex.  A handler whose turn is alone
\* can only be the handler of that call.
<1>2. ASSUME NEW t \in Turn, ReadText(t) PROVE AloneInv'
  <2>1. PICK line : line = Head(pipe)
    OBVIOUS
  <2>2. lock = t /\ pipe # <<>> /\ pipe \in Seq(Line) /\ None # t
    BY <1>2, AdaptersAssumption DEF ReadText, WireTypes
  <2>3. Head(pipe) = pipe[1] /\ 1 \in 1..Len(pipe)
    BY <2>2
  <2>4. line \in Line /\ (line.by = t \/ line.kind = "late")
    BY <2>1, <2>2, <2>3 DEF PipeInv, Own
  <2>5. HandlerOK /\ LockOK /\ handler \in Turn \cup {None}
    BY DEF PipeInv, WireTypes
  <2>6. \A x \in Turn :
           /\ turn'[x].at = turn[x].at /\ turn'[x].alone = turn[x].alone
           /\ turn'[x].heard = IF x = handler /\ turn[x].alone THEN turn[x].heard \cup {line}
                               ELSE turn[x].heard
    BY <1>2, <2>1, <2>4, <2>5, ReadTextIs
  <2>7. t \in Running
    BY <2>2, <2>5 DEF LockOK, Running, Calls
  <2>8. Running' = Running
    BY <2>6 DEF Running
  <2>9. ASSUME NEW x \in Turn, turn'[x].alone PROVE Hears(x, turn'[x].heard)
    <3>1. turn[x].alone /\ Hears(x, turn[x].heard)
      BY <2>6, <2>9 DEF AloneInv, AloneHearsItself, Hears
    <3>2. CASE x = handler
      <4>1. x \in Running
        BY <2>5, <3>2, AdaptersAssumption DEF HandlerOK, Held, Running
      <4>2. t = x
        BY <2>7, <3>1, <4>1 DEF AloneInv
      <4> QED
        BY <2>4, <2>6, <3>1, <4>2 DEF Hears
    <3>3. CASE x # handler
      BY <2>6, <3>1, <3>3
    <3> QED
      BY <3>2, <3>3
  <2> QED
    BY <2>6, <2>8, <2>9 DEF AloneInv, AloneHearsItself, Hears, Running
<1>3. ASSUME NEW t \in Turn, Receive(t) PROVE AloneInv'
  <2>1. /\ turn[t].at = "idle" /\ turn'[t].heard = {} /\ (turn'[t].alone => Running = {})
        /\ \A x \in Turn \ {t} : /\ turn'[x].at = turn[x].at /\ turn'[x].heard \in {turn[x].heard, {}}
                                 /\ turn'[x].alone => turn[x].alone /\ x \notin Running
    BY <1>3, ReceiveIs
  <2>2. Running' \subseteq Running \cup {t} /\ \A x \in Running' \ {t} : x \in Running
    BY <2>1 DEF Running
  <2>3. \A x \in Turn : turn'[x].alone => Hears(x, turn'[x].heard)
    BY <2>1 DEF AloneInv, AloneHearsItself, Hears
  <2>4. \A x \in Running' : turn'[x].alone => Running' \subseteq {x}
    BY <2>1, <2>2 DEF Running
  <2> QED
    BY <2>3, <2>4 DEF AloneInv, AloneHearsItself, Hears
<1>4. ASSUME NEW t \in Turn, Serve(t), ~ReadText(t) PROVE AloneInv'
  BY <1>1, <1>4, ServeMoves, AloneMoves
<1>5. ASSUME NEW t \in Turn, ChildResponds(t) \/ ChildTalks(t) \/ ChildTalksLate(t)
                               \/ ReadTimesOut(t)
      PROVE  UNCHANGED turn
  BY <1>5 DEF ChildResponds, ChildTalks, ChildTalksLate, ReadTimesOut
<1>6. ChildExits \/ (\E s \in Session : Close(s)) \/ UNCHANGED avars => UNCHANGED turn
  BY DEF ChildExits, Close, avars
<1> QED
  BY <1>1, <1>2, <1>3, <1>4, <1>5, <1>6 DEF AdaptersNext

-----------------------------------------------------------------------------
(* A closed session is forgotten *)

\* The turns of session s that may still be heard of.
Live(s, turns, gone) == {u \in Turn : turns[u].session = s} \ gone

\* An upstream session and a history made by turns in a set.
MadeBy(r, made) == (r.up # None => r.up \in made) /\ r.hist \subseteq made

\* Only answered turns are dropped.  What the table holds for a session, what a turn of
\* it has read, and the record a turn points at, were made by its live turns.
ForgetInv ==
    /\ \A u \in dropped : u \in Turn /\ turn[u].at = "answered"
    /\ \A s \in Session :
          table[s] # None => turn[table[s]].session = s /\ MadeBy(entry[table[s]], Live(s, turn, dropped))
    /\ \A t \in Running :
          /\ MadeBy(turn[t], Live(turn[t].session, turn, dropped))
          /\ turn[t].ent # None => /\ turn[turn[t].ent].session = turn[t].session
                                   /\ MadeBy(entry[turn[t].ent], Live(turn[t].session, turn, dropped))

\* A turn goes on, and changes nothing but records and the table's entry of its session.
LEMMA ForgetMoves ==
    ASSUME TurnsOK, TableOK, ForgetInv, NEW t \in Turn, NEW v, Moves(t, v), UNCHANGED dropped,
           NEW s, s = turn[t].session,
           \A e \in Turn : \/ entry'[e] = entry[e]
                           \/ /\ turn[e].session = s
                              /\ MadeBy(entry[e], Live(s, turn, dropped))
                                    => MadeBy(entry'[e], Live(s, turn, dropped)),
           \A x \in Session : \/ table'[x] = table[x]
                              \/ /\ x = s /\ table'[x] \in Turn /\ turn[table'[x]].session = s
                                 /\ MadeBy(entry'[table'[x]], Live(s, turn, dropped)),
           v.at # "answered" => /\ MadeBy(v, Live(s, turn, dropped))
                                /\ v.ent # None => /\ turn[v.ent].session = s
                                                   /\ MadeBy(entry'[v.ent], Live(s, turn, dropped))
    PROVE  ForgetInv'
<1>1. \A x \in Turn : /\ turn'[x] = IF x = t THEN v ELSE turn[x]
                      /\ turn'[x].session = turn[x].session
  BY DEF TurnsOK, Moves
<1>2. Running' \subseteq Running /\ t \in Running /\ (t \in Running' => v.at # "answered")
  BY <1>1 DEF Running, Moves
<1>3. \A x : Live(x, turn', dropped') = Live(x, turn, dropped)
  BY <1>1 DEF Live
<1>4. \A x \in Turn : turn[x].ent \in Turn \cup {None} /\ v.ent \in Turn \cup {None}
  BY DEF TurnsOK, TurnType, Moves
<1>5. \A u \in dropped' : u \in Turn /\ turn'[u].at = "answered"
  BY <1>1, <1>2 DEF ForgetInv, Running
<1>6. ASSUME NEW x \in Session, table'[x] # None
      PROVE  turn'[table'[x]].session = x /\ MadeBy(entry'[table'[x]], Live(x, turn', dropped'))
  <2>1. CASE table'[x] = table[x]
    <3>1. table[x] \in Turn /\ turn[table[x]].session = x /\ MadeBy(entry[table[x]], Live(x, turn, dropped))
      BY <1>6, <2>1 DEF ForgetInv, TableOK
    <3> QED
      BY <1>1, <1>3, <2>1, <3>1
  <2>2. CASE table'[x] # table[x]
    BY <1>1, <1>3, <2>2
  <2> QED
    BY <2>1, <2>2
<1>7. ASSUME NEW x \in Running'
      PROVE  /\ MadeBy(turn'[x], Live(turn'[x].session, turn', dropped'))
             /\ turn'[x].ent # None => /\ turn'[turn'[x].ent].session = turn'[x].session
                                       /\ MadeBy(entry'[turn'[x].ent], Live(turn'[x].session, turn', dropped'))
  <2>1. x \in Turn /\ x \in Running
    BY <1>2 DEF Running
  <2>2. CASE x = t
    BY <1>1, <1>2, <1>3, <1>4, <2>1, <2>2
  <2>3. CASE x # t
    <3>1. PICK y, e : y = turn[x].session /\ e = turn[x].ent
      OBVIOUS
    <3>2. /\ MadeBy(turn[x], Live(y, turn, dropped)) /\ e \in Turn \cup {None}
          /\ e # None => turn[e].session = y /\ MadeBy(entry[e], Live(y, turn, dropped))
      BY <1>4, <2>1, <3>1 DEF ForgetInv
    <3>3. e # None => MadeBy(entry'[e], Live(y, turn, dropped))
      BY <3>2
    <3> QED
      BY <1>1, <1>3, <2>1, <2>3, <3>1, <3>2, <3>3
  <2> QED
    BY <2>2, <2>3
<1> QED
  BY <1>5, <1>6, <1>7 DEF ForgetInv

\* A record made by live turns stays so when another live turn has a part in it.
LEMMA MadeByIs ==
    ASSUME NEW made, NEW r \in EntryType, MadeBy(r, made), NEW u, u # None => u \in made,
           u \in Turn \cup {None}, NEW h \in SUBSET Turn, h \subseteq made
    PROVE  MadeBy([r EXCEPT !.up = u], made) /\ MadeBy([r EXCEPT !.hist = h], made)
<1>1. PICK a, b : a = [r EXCEPT !.up = u] /\ b = [r EXCEPT !.hist = h]
  OBVIOUS
<1>2. a.up = u /\ a.hist = r.hist /\ b.up = r.up /\ b.hist = h
  BY <1>1, RecordIs
<1>3. MadeBy(a, made) /\ MadeBy(b, made)
  BY <1>2 DEF MadeBy
<1> QED
  BY <1>1, <1>3

\* A turn in flight is live, and so is what it and its session's entry are made of.
LEMMA InFlightIsLive ==
    ASSUME TurnsOK, TableOK, ForgetInv, NEW t \in Turn, turn[t].at \notin {"idle", "answered"}
    PROVE  /\ turn[t].session \in Session /\ t \in Live(turn[t].session, turn, dropped)
           /\ MadeBy(turn[t], Live(turn[t].session, turn, dropped))
           /\ MadeBy(Empty, Live(turn[t].session, turn, dropped))
           /\ MadeBy(Kept(t), Live(turn[t].session, turn, dropped))
<1>1. t \in Running /\ turn[t].session \in Session
  BY DEF Running, TurnsOK, TurnOK
<1>2. t \in Live(turn[t].session, turn, dropped)
  BY DEF Live, ForgetInv
<1>3. MadeBy(Empty, Live(turn[t].session, turn, dropped))
  BY EmptyType DEF MadeBy
<1>4. MadeBy(Kept(t), Live(turn[t].session, turn, dropped))
  BY <1>1, <1>3 DEF Kept, ForgetInv
<1> QED
  BY <1>1, <1>2, <1>3, <1>4 DEF ForgetInv

LEMMA ForgetQuiet ==
    ASSUME TurnsOK, TableOK, ForgetInv, NEW t \in Turn, NEW v, Moves(t, v),
           UNCHANGED <<table, entry, dropped>>, v.at = "answered" \/ SameHold(v, turn[t])
    PROVE  ForgetInv'
<1>1. turn[t].at \notin {"idle", "answered"} /\ t \in Running
  BY DEF Moves, Running
<1>2. v.at # "answered" =>
        /\ MadeBy(v, Live(turn[t].session, turn, dropped))
        /\ v.ent # None => /\ turn[v.ent].session = turn[t].session
                           /\ MadeBy(entry'[v.ent], Live(turn[t].session, turn, dropped))
  BY <1>1 DEF SameHold, ForgetInv, MadeBy
<1> QED
  BY <1>2, ForgetMoves

LEMMA ForgetWrites ==
    ASSUME TurnsOK, TableOK, ForgetInv, NEW t \in Turn, NEW v, Moves(t, v), UNCHANGED dropped,
           NEW record \in EntryType, MadeBy(record, Live(turn[t].session, turn, dropped)),
           Write(t, record), v.at = "answered" \/ SameHold(v, turn[t])
    PROVE  ForgetInv'
<1>1. turn[t].at \notin {"idle", "answered"} /\ t \in Running
  BY DEF Moves, Running
<1>2. PICK s, live : s = turn[t].session /\ live = Live(turn[t].session, turn, dropped)
  OBVIOUS
<1>3. s \in Session
  BY <1>1, <1>2, InFlightIsLive
<1>4. PICK e \in Turn : /\ e = t \/ e = table[s]
                        /\ table' = [table EXCEPT ![s] = e]
                        /\ entry' = [entry EXCEPT ![e] = record]
  BY <1>2, <1>3, WriteIs
<1>5. turn[e].session = s
  <2>1. None \notin Turn
    BY AdaptersAssumption
  <2> QED
    BY <1>2, <1>3, <1>4, <2>1 DEF ForgetInv
<1>6. \A x \in Turn : entry'[x] = IF x = e THEN record ELSE entry[x]
  BY <1>4 DEF TableOK
<1>7. \A x \in Session : table'[x] = IF x = s THEN e ELSE table[x]
  BY <1>4 DEF TableOK
<1>8. \A x \in Turn : entry'[x] = entry[x] \/ (turn[x].session = s /\ MadeBy(entry'[x], live))
  BY <1>2, <1>5, <1>6
<1>9. \A x \in Session : \/ table'[x] = table[x]
                         \/ /\ x = s /\ table'[x] \in Turn /\ turn[table'[x]].session = s
                            /\ MadeBy(entry'[table'[x]], live)
  BY <1>2, <1>5, <1>6, <1>7
<1>10. v.at # "answered" =>
        /\ MadeBy(v, live)
        /\ v.ent # None => turn[v.ent].session = s /\ MadeBy(entry'[v.ent], live)
  <2>1. turn[t].ent \in Turn \cup {None}
    BY DEF TurnsOK, TurnType
  <2>2. /\ MadeBy(turn[t], live)
        /\ turn[t].ent # None => turn[turn[t].ent].session = s /\ MadeBy(entry[turn[t].ent], live)
    BY <1>1, <1>2 DEF ForgetInv
  <2> QED
    BY <1>8, <2>1, <2>2 DEF SameHold, MadeBy
<1> QED
  BY <1>2, <1>8, <1>9, <1>10, ForgetMoves

\* The steps of a goroutine but the lookup and the reading of a text.
LEMMA ForgetServes ==
    ASSUME TurnsOK, TableOK, WireTypes, PipeInv, ForgetInv, NEW t \in Turn, Serve(t),
           ~ReadText(t), ~Lookup(t)
    PROVE  ForgetInv'
<1>a. LockOK /\ adapter \in Adapter
  BY DEF PipeInv, WireTypes
<1>b. PICK s, live : s = turn[t].session /\ live = Live(turn[t].session, turn, dropped)
  OBVIOUS
<1>c. ASSUME turn[t].at \notin {"idle", "answered"}
      PROVE  /\ s \in Session /\ t \in live /\ MadeBy(turn[t], live) /\ MadeBy(Kept(t), live)
             /\ Kept(t) \in EntryType /\ turn[t] \in TurnType /\ t \in Running
  BY <1>b, <1>c, InFlightIsLive, KeptIs DEF TurnsOK, Running
<1>1. CASE Call(t)
  <2>1. UNCHANGED <<table, entry, dropped>>
    BY <1>1, CallIs
  <2>2. CASE UNCHANGED turn
    BY <2>1, <2>2 DEF ForgetInv, Running
  <2>3. ASSUME NEW v, Moves(t, v), v.at = "answered" \/ SameHold(v, turn[t]) PROVE ForgetInv'
    BY <2>1, <2>3, ForgetQuiet
  <2> QED
    BY <1>1, <2>2, <2>3, CallIs
<1>2. CASE ReadFails(t)
  BY <1>2, <1>a, ReadFailsIs, ForgetQuiet
<1>3. CASE ReadResponse(t)
  <2>1. turn[t].at \in Calls /\ turn[t].at \notin {"idle", "answered"} /\ UNCHANGED dropped
    BY <1>3, <1>a, ReadResponseIs DEF Calls
  <2>2. CASE turn[t].at \in {"init", "prompt"}
    <3>1. PICK v : /\ Moves(t, v) /\ UNCHANGED <<table, entry>>
                   /\ v.at = "answered" \/ SameHold(v, turn[t])
      BY <1>3, <1>a, <2>2, ReadResponseIs
    <3> QED
      BY <2>1, <3>1, ForgetQuiet
  <2>3. CASE turn[t].at = "model"
    <3>1. PICK v : Moves(t, v) /\ SameHold(v, turn[t]) /\ Write(t, Kept(t))
      BY <1>3, <1>a, <2>3, ReadResponseIs
    <3> QED
      BY <1>b, <1>c, <2>1, <3>1, ForgetWrites
  <2>4. CASE turn[t].at = "new"
    <3>1. PICK v : /\ Moves(t, v)
                   /\ \/ v.at = "answered" /\ UNCHANGED <<table, entry>>
                      \/ /\ v.ent = turn[t].ent /\ v.up = t /\ v.hist = turn[t].hist
                         /\ entry' = [entry EXCEPT ![t].up = t] \/ UNCHANGED entry
                         /\ UNCHANGED table
      BY <1>3, <1>a, <2>4, ReadResponseIs
    <3>2. CASE v.at = "answered" /\ UNCHANGED <<table, entry>>
      BY <2>1, <3>1, <3>2, ForgetQuiet
    <3>3. CASE /\ v.ent = turn[t].ent /\ v.up = t /\ v.hist = turn[t].hist /\ UNCHANGED table
               /\ entry' = [entry EXCEPT ![t].up = t] \/ UNCHANGED entry
      <4>1. PICK r : r = [entry[t] EXCEPT !.up = t]
        OBVIOUS
      <4>2. r.up = t /\ r.hist = entry[t].hist
        BY <4>1 DEF TableOK, EntryType
      <4>3. \A x \in Turn : entry'[x] = entry[x] \/ (x = t /\ entry'[x] = r)
        BY <3>3, <4>1 DEF TableOK
      <4>4. \A x \in Turn : \/ entry'[x] = entry[x]
                            \/ turn[x].session = s /\ (MadeBy(entry[x], live) => MadeBy(entry'[x], live))
        BY <1>b, <1>c, <2>1, <4>2, <4>3 DEF MadeBy
      <4>5. MadeBy(v, live)
        BY <1>c, <2>1, <3>3 DEF MadeBy
      <4>6. turn[t].ent \in Turn \cup {None}
        BY DEF TurnsOK, TurnType
      <4>7. v.ent # None => turn[v.ent].session = s /\ MadeBy(entry'[v.ent], live)
        BY <1>b, <1>c, <2>1, <3>3, <4>4, <4>6 DEF ForgetInv
      <4> QED
        BY <1>b, <2>1, <3>1, <3>3, <4>4, <4>5, <4>7, ForgetMoves
    <3> QED
      BY <3>1, <3>2, <3>3
  <2> QED
    BY <2>1, <2>2, <2>3, <2>4 DEF Calls
<1>4. CASE Publish(t) \/ SetHandler(t) \/ Record(t) \/ UnsetHandler(t) \/ AlreadyInitialized(t)
  <2>1. PICK v : /\ Moves(t, v) /\ UNCHANGED dropped
                 /\ v.at = "answered" \/ SameHold(v, turn[t])
                 /\ \/ UNCHANGED <<table, entry>>
                    \/ Write(t, [Kept(t) EXCEPT !.up = turn[t].up])
                    \/ Write(t, [Kept(t) EXCEPT !.hist = Kept(t).hist \cup {t}])
    BY <1>4, HermesIs
  <2>2. turn[t].at \notin {"idle", "answered"}
    BY <2>1 DEF Moves
  <2>3. PICK k, u, h : k = Kept(t) /\ u = turn[t].up /\ h = Kept(t).hist \cup {t}
    OBVIOUS
  <2>4. /\ k \in EntryType /\ MadeBy(k, live) /\ (u # None => u \in live)
        /\ u \in Turn \cup {None} /\ h \in SUBSET Turn /\ h \subseteq live
    BY <1>c, <2>2, <2>3 DEF MadeBy, TurnType, EntryType
  <2>5. /\ MadeBy([k EXCEPT !.up = u], live) /\ MadeBy([k EXCEPT !.hist = h], live)
        /\ [k EXCEPT !.up = u] \in EntryType /\ [k EXCEPT !.hist = h] \in EntryType
    BY <2>4, MadeByIs, RecordIs
  <2>6. CASE UNCHANGED <<table, entry>>
    BY <2>1, <2>6, ForgetQuiet
  <2>7. CASE Write(t, [k EXCEPT !.up = u])
    BY <1>b, <2>1, <2>5, <2>7, ForgetWrites
  <2>8. CASE Write(t, [k EXCEPT !.hist = h])
    BY <1>b, <2>1, <2>5, <2>8, ForgetWrites
  <2> QED
    BY <2>1, <2>3, <2>6, <2>7, <2>8
<1>5. CASE RunCommand(t)
  <2>1. PICK v : /\ Moves(t, v) /\ UNCHANGED dropped /\ v.at = "answered"
                 /\ \/ UNCHANGED <<table, entry>>
                    \/ Write(t, [Kept(t) EXCEPT !.hist = turn[t].hist \cup {t}])
    <3>1. turn[t].at = "run"
      BY <1>5 DEF RunCommand
    <3> QED
      BY <1>5, <3>1, OthersAre
  <2>2. turn[t].at \notin {"idle", "answered"}
    BY <2>1 DEF Moves
  <2>3. PICK k, h : k = Kept(t) /\ h = turn[t].hist \cup {t}
    OBVIOUS
  <2>4. k \in EntryType /\ MadeBy(k, live) /\ h \in SUBSET Turn /\ h \subseteq live
    BY <1>c, <2>2, <2>3 DEF MadeBy, TurnType
  <2>5. MadeBy([k EXCEPT !.hist = h], live) /\ [k EXCEPT !.hist = h] \in EntryType
    BY <2>4, MadeByIs, RecordIs
  <2>6. CASE UNCHANGED <<table, entry>>
    BY <2>1, <2>6, ForgetQuiet
  <2>7. CASE Write(t, [k EXCEPT !.hist = h])
    BY <1>b, <2>1, <2>5, <2>7, ForgetWrites
  <2> QED
    BY <2>1, <2>3, <2>6, <2>7
<1>6. CASE Start(t)
  <2>1. turn[t].at = "init"
    BY <1>6 DEF Start
  <2> QED
    BY <1>6, <2>1, OthersAre, ForgetQuiet
<1>7. CASE CreateSession(t) \/ SendMessage(t) \/ MessageReturns(t)
  <2>1. turn[t].at \in {"create", "send", "sent"}
    BY <1>7 DEF CreateSession, SendMessage, MessageReturns
  <2>2. PICK e : e = turn[t].ent
    OBVIOUS
  <2>3. /\ e \in Turn /\ e # None /\ turn[e].session = s /\ MadeBy(entry[e], live)
        /\ entry[e] \in EntryType
    <3>1. e \in Turn
      BY <2>1, <2>2 DEF TurnsOK, TurnOK
    <3> QED
      BY <1>b, <1>c, <2>1, <2>2, <3>1, AdaptersAssumption DEF ForgetInv, TableOK
  <2>4. CASE CreateSession(t)
    <3>1. PICK v : /\ Moves(t, v) /\ UNCHANGED dropped
                   /\ \/ v.at = "answered" /\ UNCHANGED <<table, entry>>
                      \/ /\ SameHold(v, turn[t]) /\ entry' = [entry EXCEPT ![e].up = t]
                         /\ table' = [table EXCEPT ![s] = e]
      <4>1. turn[t].at = "create"
        BY <2>4 DEF CreateSession
      <4> QED
        BY <1>b, <2>2, <2>4, <4>1, OthersAre
    <3>2. CASE v.at = "answered" /\ UNCHANGED <<table, entry>>
      BY <3>1, <3>2, ForgetQuiet
    <3>3. CASE /\ SameHold(v, turn[t]) /\ entry' = [entry EXCEPT ![e].up = t]
               /\ table' = [table EXCEPT ![s] = e]
      <4>1. PICK r : r = [entry[e] EXCEPT !.up = t]
        OBVIOUS
      <4>2. r.up = t /\ r.hist = entry[e].hist
        BY <2>3, <4>1 DEF EntryType
      <4>3. MadeBy(r, live)
        BY <1>c, <2>1, <2>3, <4>2 DEF MadeBy
      <4>4. \A x \in Turn : entry'[x] = IF x = e THEN r ELSE entry[x]
        BY <2>3, <3>3, <4>1 DEF TableOK
      <4>5. \A x \in Session : table'[x] = IF x = s THEN e ELSE table[x]
        BY <3>3 DEF TableOK
      <4>6. MadeBy(v, live) /\ v.ent = e
        BY <1>c, <2>1, <2>2, <3>3 DEF SameHold, MadeBy
      <4>7. \A x \in Turn : entry'[x] = entry[x] \/ (turn[x].session = s /\ MadeBy(entry'[x], live))
        BY <2>3, <4>3, <4>4
      <4>8. \A x \in Session : \/ table'[x] = table[x]
                               \/ /\ x = s /\ table'[x] \in Turn /\ turn[table'[x]].session = s
                                  /\ MadeBy(entry'[table'[x]], live)
        BY <2>3, <4>3, <4>4, <4>5
      <4>9. turn[v.ent].session = s /\ MadeBy(entry'[v.ent], live)
        BY <2>3, <4>3, <4>4, <4>6
      <4> QED
        BY <1>b, <3>1, <4>6, <4>7, <4>8, <4>9, ForgetMoves
    <3> QED
      BY <3>1, <3>2, <3>3
  <2>5. CASE SendMessage(t)
    <3>1. PICK v : /\ Moves(t, v) /\ UNCHANGED <<table, entry, dropped>>
                   /\ v.ent = e /\ v.hist = turn[t].hist /\ v.up = entry[e].up
      <4>1. turn[t].at = "send"
        BY <2>5 DEF SendMessage
      <4> QED
        BY <2>2, <2>5, <4>1, OthersAre
    <3>2. MadeBy(v, live)
      BY <1>c, <2>1, <2>3, <3>1 DEF MadeBy
    <3> QED
      BY <1>b, <2>3, <3>1, <3>2, ForgetMoves
  <2>6. CASE MessageReturns(t)
    <3>1. PICK v : /\ Moves(t, v) /\ UNCHANGED <<entry, dropped>> /\ v.at = "answered"
                   /\ table' = [table EXCEPT ![s] = e] \/ UNCHANGED table
      <4>1. turn[t].at = "sent"
        BY <2>6 DEF MessageReturns
      <4> QED
        BY <1>b, <2>2, <2>6, <4>1, OthersAre
    <3>2. \A x \in Session : table'[x] = table[x] \/ (x = s /\ table'[x] = e)
      BY <3>1 DEF TableOK
    <3> QED
      BY <1>b, <2>3, <3>1, <3>2, ForgetMoves
  <2> QED
    BY <1>7, <2>4, <2>5, <2>6
<1> QED
  BY <1>1, <1>2, <1>3, <1>4, <1>5, <1>6, <1>7 DEF Serve

\* What is dropped with a session belongs to no other one.
LEMMA OthersStayLive ==
    ASSUME NEW s, dropped' \subseteq dropped \cup Of(s), dropped \subseteq dropped',
           \A x \in Turn : turn'[x].session = turn[x].session
    PROVE  \A x : x # s => Live(x, turn', dropped') = Live(x, turn, dropped)
BY DEF Live, Of

LEMMA NothingMadeBy == \A r, made : r.up = None /\ r.hist = {} => MadeBy(r, made)
BY DEF MadeBy

\* The lookup of a start drops what was there before, if nobody else is at it.
LEMMA ForgetLookup ==
    ASSUME TurnsOK, TableOK, WireTypes, ForgetInv, NEW t \in Turn, Lookup(t)
    PROVE  ForgetInv'
<1>a. PICK s, live : s = turn[t].session /\ live = Live(turn[t].session, turn, dropped)
  OBVIOUS
<1>b. adapter \in Adapter
  BY DEF WireTypes
<1>c. /\ turn[t].at = "lookup" /\ s \in Session
      /\ IF turn[t].method = "start" THEN Forget(t, s) ELSE UNCHANGED dropped
  BY <1>a, <1>b, LookupIs
<1>1. PICK e, v :
        /\ e \in Turn /\ table' = [table EXCEPT ![s] = e]
        /\ \/ e = t /\ entry' = [entry EXCEPT ![t] = Empty]
           \/ e = table[s] /\ turn[t].method # "start" /\ UNCHANGED entry
        /\ Moves(t, v)
        /\ \/ v.at = "answered"
           \/ /\ v.at \in {"new", "publish", "run", "create", "send"}
              /\ v.ent = e /\ v.up = entry'[e].up /\ v.hist = entry'[e].hist
  BY <1>a, <1>b, LookupIs
<1>d. e \in Turn
  BY <1>1
<1>2. \A x \in Session : table'[x] = IF x = s THEN e ELSE table[x]
  BY <1>1 DEF TableOK
<1>3. /\ \A x \in Turn : entry'[x] = entry[x] \/ (x = t /\ entry'[x] = Empty)
      /\ e = t => entry'[t] = Empty \/ e = table[s]
  BY <1>1 DEF TableOK
<1>4. Empty.up = None /\ Empty.hist = {} /\ None \notin Turn
  BY EmptyType, AdaptersAssumption
<1>5. CASE UNCHANGED dropped
  <2>1. MadeBy(Empty, live)
    BY <1>4, NothingMadeBy
  <2>2. turn[e].session = s /\ MadeBy(entry'[e], live)
    <3>1. CASE e = t /\ entry' = [entry EXCEPT ![t] = Empty]
      BY <1>a, <2>1, <3>1 DEF TableOK
    <3>2. CASE e = table[s] /\ UNCHANGED entry
      BY <1>a, <1>c, <1>4, <1>d, <3>2 DEF ForgetInv
    <3> QED
      BY <1>1, <3>1, <3>2
  <2>3. \A x \in Turn : entry'[x] = entry[x] \/ (turn[x].session = s /\ MadeBy(entry'[x], live))
    BY <1>a, <1>3, <2>1
  <2>4. \A x \in Session : \/ table'[x] = table[x]
                           \/ /\ x = s /\ table'[x] \in Turn /\ turn[table'[x]].session = s
                              /\ MadeBy(entry'[table'[x]], live)
    BY <1>2, <1>d, <2>2
  <2>5. v.at # "answered" => /\ MadeBy(v, live)
                             /\ v.ent # None => turn[v.ent].session = s /\ MadeBy(entry'[v.ent], live)
    BY <1>1, <2>2 DEF MadeBy
  <2> QED
    BY <1>a, <1>1, <1>5, <2>3, <2>4, <2>5, ForgetMoves
<1>6. CASE /\ turn[t].method = "start" /\ Running \cap Of(s) \subseteq {t}
           /\ dropped' = dropped \cup {u \in Of(s) : turn[u].at = "answered"}
  <2>1. e = t /\ entry'[t] = Empty /\ \A x \in Turn \ {t} : entry'[x] = entry[x]
    BY <1>1, <1>6 DEF TableOK
  <2>2. \A x \in Turn : turn'[x] = IF x = t THEN v ELSE turn[x]
    BY <1>1 DEF TurnsOK, Moves
  <2>3. \A x \in Turn : turn'[x].session = turn[x].session
    BY <1>1, <2>2 DEF Moves
  <2>4. \A x : x # s => Live(x, turn', dropped') = Live(x, turn, dropped)
    BY <1>6, <2>3, OthersStayLive
  <2>5. \A u \in dropped' : u \in Turn /\ turn'[u].at = "answered"
    BY <1>6, <1>c, <2>2 DEF ForgetInv, Of
  <2>6. ASSUME NEW x \in Session, table'[x] # None
        PROVE  /\ turn'[table'[x]].session = x
               /\ MadeBy(entry'[table'[x]], Live(x, turn', dropped'))
    <3>1. CASE x = s
      BY <1>2, <1>4, <1>a, <2>1, <2>3, <3>1, NothingMadeBy
    <3>2. CASE x # s
      <4>1. PICK f : f = table[x]
        OBVIOUS
      <4>2. f \in Turn /\ turn[f].session = x /\ MadeBy(entry[f], Live(x, turn, dropped))
        BY <1>2, <2>6, <3>2, <4>1 DEF ForgetInv, TableOK
      <4>3. f # t
        BY <1>a, <3>2, <4>2
      <4> QED
        BY <1>2, <2>1, <2>3, <2>4, <3>2, <4>1, <4>2, <4>3
    <3> QED
      BY <3>1, <3>2
  <2>7. ASSUME NEW x \in Running'
        PROVE  /\ MadeBy(turn'[x], Live(turn'[x].session, turn', dropped'))
               /\ turn'[x].ent # None =>
                     /\ turn'[turn'[x].ent].session = turn'[x].session
                     /\ MadeBy(entry'[turn'[x].ent], Live(turn'[x].session, turn', dropped'))
    <3>1. x \in Turn
      BY DEF Running
    <3>2. CASE x = t
      <4>1. v.at # "answered"
        BY <2>2, <3>2 DEF Running
      <4>2. v.ent = t /\ v.up = None /\ v.hist = {}
        BY <1>1, <1>4, <2>1, <4>1
      <4> QED
        BY <1>4, <2>1, <2>2, <2>3, <3>2, <4>2, NothingMadeBy
    <3>3. CASE x # t
      <4>1. turn'[x] = turn[x] /\ x \in Running
        BY <2>2, <3>1, <3>3 DEF Running
      <4>2. PICK y, f : y = turn[x].session /\ f = turn[x].ent
        OBVIOUS
      <4>3. y # s
        BY <1>6, <3>1, <3>3, <4>1, <4>2 DEF Of
      <4>4. f \in Turn \cup {None}
        BY <3>1, <4>2 DEF TurnsOK, TurnType
      <4>5. /\ MadeBy(turn[x], Live(y, turn, dropped))
            /\ f # None => turn[f].session = y /\ MadeBy(entry[f], Live(y, turn, dropped))
        BY <4>1, <4>2 DEF ForgetInv
      <4>6. f # None => f \in Turn /\ f # t
        BY <1>a, <4>3, <4>4, <4>5
      <4> QED
        BY <2>1, <2>3, <2>4, <4>1, <4>2, <4>3, <4>5, <4>6
    <3> QED
      BY <3>2, <3>3
  <2> QED
    BY <2>5, <2>6, <2>7 DEF ForgetInv
<1> QED
  BY <1>5, <1>6, <1>c DEF Forget

\* Closing a session takes its entry out of the table.
LEMMA ForgetClose ==
    ASSUME TurnsOK, TableOK, ForgetInv, NEW s \in Session, Close(s)
    PROVE  ForgetInv'
<1>1. /\ table' = [table EXCEPT ![s] = None] /\ UNCHANGED <<turn, entry>>
      /\ dropped' = IF Running \cap Of(s) \subseteq {None}
                    THEN dropped \cup {u \in Of(s) : turn[u].at = "answered"} ELSE dropped
  BY DEF Close, closeSession, Forget
<1>2. \A x : x # s => Live(x, turn', dropped') = Live(x, turn, dropped)
  BY <1>1, OthersStayLive
<1>3. \A u \in dropped' : u \in Turn /\ turn'[u].at = "answered"
  BY <1>1 DEF ForgetInv, Of
<1>4. \A x \in Session : table'[x] # None =>
         turn'[table'[x]].session = x /\ MadeBy(entry'[table'[x]], Live(x, turn', dropped'))
  <2>1. \A x \in Session : table'[x] = IF x = s THEN None ELSE table[x]
    BY <1>1 DEF TableOK
  <2> QED
    BY <1>1, <1>2, <2>1 DEF ForgetInv
<1>5. ASSUME NEW x \in Running
      PROVE  Live(turn[x].session, turn', dropped') = Live(turn[x].session, turn, dropped)
  <2>1. CASE turn[x].session = s
    <3>1. x \in Running \cap Of(s) /\ x # None
      BY <2>1, AdaptersAssumption DEF Of, Running
    <3>2. dropped' = dropped
      BY <1>1, <3>1
    <3> QED
      BY <1>1, <3>2
  <2> QED
    BY <1>2, <2>1
<1>6. \A x \in Running :
        /\ MadeBy(turn[x], Live(turn[x].session, turn', dropped'))
        /\ turn[x].ent # None =>
              /\ turn[turn[x].ent].session = turn[x].session
              /\ MadeBy(entry[turn[x].ent], Live(turn[x].session, turn', dropped'))
  BY <1>5 DEF ForgetInv
<1> QED
  BY <1>1, <1>3, <1>4, <1>6 DEF ForgetInv, Running

\* A new turn holds nothing, and a text changes nothing of this.
LEMMA ForgetArrives ==
    ASSUME TurnsOK, TableOK, ForgetInv, UNCHANGED <<table, entry, dropped>>, NEW t,
           \A x \in Turn \ {t} : /\ turn'[x].at = turn[x].at /\ turn'[x].session = turn[x].session
                                 /\ SameHold(turn'[x], turn[x]),
           t \in Turn => /\ turn[t].at = "idle" /\ turn'[t].ent = None /\ turn'[t].up = None
                         /\ turn'[t].hist = {}
    PROVE  ForgetInv'
<1>1. ASSUME NEW x \in Session PROVE Live(x, turn, dropped) \subseteq Live(x, turn', dropped')
  <2>1. t \in Turn => turn[t].session # x
    BY AdaptersAssumption DEF TurnsOK, TurnOK
  <2> QED
    BY <2>1 DEF Live
<1>2. \A r, a, b : MadeBy(r, a) /\ a \subseteq b => MadeBy(r, b)
  BY DEF MadeBy
<1>3. ASSUME NEW x \in Turn, NEW y \in Session, turn[x].session = y
      PROVE  x # t /\ turn'[x].session = y
  BY <1>3, AdaptersAssumption DEF TurnsOK, TurnOK
<1>4. \A u \in dropped' : u \in Turn /\ turn'[u].at = "answered"
  BY DEF ForgetInv
<1>5. ASSUME NEW x \in Session, table'[x] # None
      PROVE  turn'[table'[x]].session = x /\ MadeBy(entry'[table'[x]], Live(x, turn', dropped'))
  <2>1. PICK f : f = table[x]
    OBVIOUS
  <2>2. f \in Turn /\ turn[f].session = x /\ MadeBy(entry[f], Live(x, turn, dropped))
    BY <1>5, <2>1 DEF ForgetInv, TableOK
  <2> QED
    BY <1>1, <1>2, <1>3, <2>1, <2>2
<1>6. ASSUME NEW x \in Running'
      PROVE  /\ MadeBy(turn'[x], Live(turn'[x].session, turn', dropped'))
             /\ turn'[x].ent # None =>
                   /\ turn'[turn'[x].ent].session = turn'[x].session
                   /\ MadeBy(entry'[turn'[x].ent], Live(turn'[x].session, turn', dropped'))
  <2>1. x \in Turn
    BY DEF Running
  <2>2. CASE x = t
    BY <2>1, <2>2, NothingMadeBy
  <2>3. CASE x # t
    <3>1. x \in Running /\ turn'[x].session = turn[x].session /\ SameHold(turn'[x], turn[x])
      BY <2>1, <2>3 DEF Running
    <3>2. PICK y, f : y = turn[x].session /\ f = turn[x].ent
      OBVIOUS
    <3>3. y \in Session /\ f \in Turn \cup {None}
      BY <2>1, <3>1, <3>2 DEF Running, TurnsOK, TurnOK, TurnType
    <3>4. /\ MadeBy(turn[x], Live(y, turn, dropped))
          /\ f # None => turn[f].session = y /\ MadeBy(entry[f], Live(y, turn, dropped))
      BY <3>1, <3>2 DEF ForgetInv
    <3>5. MadeBy(turn'[x], Live(y, turn', dropped'))
      BY <1>1, <1>2, <3>1, <3>3, <3>4 DEF SameHold, MadeBy
    <3>6. f # None => turn'[f].session = y /\ MadeBy(entry'[f], Live(y, turn', dropped'))
      BY <1>1, <1>2, <1>3, <3>3, <3>4
    <3> QED
      BY <3>1, <3>2, <3>5, <3>6 DEF SameHold
  <2> QED
    BY <2>2, <2>3
<1> QED
  BY <1>4, <1>5, <1>6 DEF ForgetInv

LEMMA ForgetStep ==
    TurnsOK /\ TableOK /\ WireTypes /\ PipeInv /\ ForgetInv /\ [AdaptersNext]_avars => ForgetInv'
<1> SUFFICES ASSUME TurnsOK, TableOK, WireTypes, PipeInv, ForgetInv, [AdaptersNext]_avars
             PROVE  ForgetInv'
  OBVIOUS
<1>1. ASSUME NEW t \in Turn, ReadText(t) PROVE ForgetInv'
  <2>1. PICK line : line = Head(pipe)
    OBVIOUS
  <2>2. pipe # <<>> /\ pipe \in Seq(Line)
    BY <1>1 DEF ReadText, WireTypes
  <2>3. Head(pipe) \in Line
    BY <2>2
  <2>4. line \in Line /\ HandlerOK /\ handler \in Turn \cup {None}
    BY <2>1, <2>3 DEF PipeInv, WireTypes
  <2>5. /\ UNCHANGED <<table, entry, dropped>>
        /\ \A x \in Turn : /\ turn'[x].at = turn[x].at /\ turn'[x].session = turn[x].session
                           /\ SameHold(turn'[x], turn[x])
    BY <1>1, <2>1, <2>4, ReadTextIs
  <2>6. None \notin Turn
    BY AdaptersAssumption
  <2> QED
    BY <2>5, <2>6, ForgetArrives
<1>2. ASSUME NEW t \in Turn, Serve(t), ~ReadText(t) PROVE ForgetInv'
  BY <1>2, ForgetLookup, ForgetServes
<1>3. ASSUME NEW t \in Turn, Receive(t) PROVE ForgetInv'
  BY <1>3, ReceiveIs, ForgetArrives
<1>4. ASSUME NEW s \in Session, Close(s) PROVE ForgetInv'
  BY <1>4, ForgetClose
<1>5. CASE UNCHANGED <<turn, table, entry, dropped>>
  BY <1>5 DEF ForgetInv, Running
<1>6. ASSUME NEW t \in Turn, ChildResponds(t) \/ ChildTalks(t) \/ ChildTalksLate(t)
                               \/ ReadTimesOut(t)
      PROVE  UNCHANGED <<turn, table, entry, dropped>>
  BY <1>6 DEF ChildResponds, ChildTalks, ChildTalksLate, ReadTimesOut
<1>7. ChildExits \/ UNCHANGED avars => UNCHANGED <<turn, table, entry, dropped>>
  BY DEF ChildExits, avars
<1> QED
  BY <1>1, <1>2, <1>3, <1>4, <1>5, <1>6, <1>7 DEF AdaptersNext

-----------------------------------------------------------------------------
(* The invariant and the theorems *)

AdaptersInv ==
    TurnsOK /\ TableOK /\ WireTypes /\ PipeInv /\ AloneInv /\ ForgetInv /\ finished \subseteq Turn

LEMMA FinishedStep == finished \subseteq Turn /\ [AdaptersNext]_avars => finished' \subseteq Turn
<1> SUFFICES ASSUME finished \subseteq Turn, [AdaptersNext]_avars PROVE finished' \subseteq Turn
  OBVIOUS
<1>1. ASSUME NEW t \in Turn, ReadResponse(t) PROVE finished' \subseteq Turn
  BY <1>1 DEF ReadResponse
<1>2. ASSUME NEW t \in Turn, Serve(t), ~ReadResponse(t) PROVE UNCHANGED finished
  BY <1>2 DEF Serve, Call, AlreadyInitialized, ReadText, ReadFails, Lookup, Publish, SetHandler,
              Record, UnsetHandler, RunCommand, Start, CreateSession, SendMessage, MessageReturns
<1>3. ASSUME NEW t \in Turn, \/ Receive(t) \/ ChildResponds(t) \/ ChildTalks(t)
                             \/ ChildTalksLate(t) \/ ReadTimesOut(t)
      PROVE  UNCHANGED finished
  BY <1>3 DEF Receive, ChildResponds, ChildTalks, ChildTalksLate, ReadTimesOut
<1>4. ChildExits \/ (\E s \in Session : Close(s)) \/ UNCHANGED avars => UNCHANGED finished
  BY DEF ChildExits, Close, avars
<1> QED
  BY <1>1, <1>2, <1>3, <1>4 DEF AdaptersNext

LEMMA AdaptersInitially == AdaptersInit => AdaptersInv
<1> SUFFICES ASSUME AdaptersInit PROVE AdaptersInv
  OBVIOUS
<1>1. PICK i : i = NewTurn
  OBVIOUS
<1>2. /\ i \in TurnType /\ i.at = "idle" /\ i.session = None /\ i.heard = {}
      /\ i.ent = None /\ i.up = None /\ i.hist = {}
  BY <1>1 DEF NewTurn, TurnType, Steps
<1>3. turn \in [Turn -> TurnType] /\ \A t \in Turn : turn[t] = i
  BY <1>1, <1>2 DEF AdaptersInit
<1>4. TurnsOK
  BY <1>2, <1>3 DEF TurnsOK, TurnOK
<1>5. TableOK
  BY EmptyType DEF AdaptersInit, TableOK
<1>6. WireTypes
  <2>1. pipe \in Seq(Line) /\ Len(pipe) = 0
    BY DEF AdaptersInit
  <2>2. ready \in BOOLEAN /\ stuck \in BOOLEAN /\ ~stuck
    BY Zenon DEF AdaptersInit
  <2>3. /\ adapter \in Adapter /\ child \in {"off", "up", "dead"}
        /\ lock \in Turn \cup {None} /\ handler \in Turn \cup {None}
    BY DEF AdaptersInit
  <2> QED
    BY <2>1, <2>2, <2>3 DEF WireTypes
<1>7. PipeInv
  <2>1. LockOK /\ HandlerOK
    BY DEF AdaptersInit, LockOK, HandlerOK
  <2>2. \A t \in Turn : turn[t].at = "idle"
    BY <1>2, <1>3
  <2>3. Own(lock)
    BY DEF AdaptersInit, Own
  <2> QED
    BY <2>1, <2>2, <2>3 DEF AdaptersInit, PipeInv
<1>8. Running = {}
  BY <1>2, <1>3 DEF Running
<1>9. AloneInv
  BY <1>2, <1>3, <1>8 DEF AloneInv, AloneHearsItself
<1>10. ForgetInv
  BY <1>8 DEF AdaptersInit, ForgetInv
<1>11. finished \subseteq Turn
  BY DEF AdaptersInit
<1> QED
  BY <1>4, <1>5, <1>6, <1>7, <1>9, <1>10, <1>11 DEF AdaptersInv

LEMMA AdaptersInvariant == AdaptersSpec => []AdaptersInv
<1>1. AdaptersInv /\ [AdaptersNext]_avars => AdaptersInv'
  BY TypesStep, AloneStep, ForgetStep, FinishedStep DEF AdaptersInv
<1> QED
  BY <1>1, AdaptersInitially, PTL DEF AdaptersSpec

\* Types: the table, the records, the turns, the mutex and the pipe keep theirs; at most
\* two lines of the child are unread, and only a call that holds c.mu can be stuck.
THEOREM AdaptersTypes == AdaptersSpec => []AdaptersTypeOK
<1>1. AdaptersInv => AdaptersTypeOK
  <2> SUFFICES ASSUME AdaptersInv PROVE AdaptersTypeOK
    OBVIOUS
  <2>1. dropped \subseteq Turn /\ finished \subseteq Turn
    BY DEF AdaptersInv, ForgetInv
  <2>2. TurnsOK /\ TableOK /\ WireTypes
    BY DEF AdaptersInv
  <2> QED
    BY <2>1, <2>2 DEF AdaptersTypeOK, TurnsOK, TurnType, TableOK, EntryType, WireTypes, Line
<1> QED
  BY <1>1, AdaptersInvariant, PTL

\* What the handler of a turn that overlaps no other one is given is the turn's own text,
\* or text the child wrote after the drain of an earlier prompt: nothing that came before
\* or within the drain is left over, although all turns share the pipe and the handler.
THEOREM LoneTurnHearsItself == AdaptersSpec => []AloneHearsItself
<1>1. AdaptersInv => AloneHearsItself
  BY DEF AdaptersInv, AloneInv
<1> QED
  BY <1>1, AdaptersInvariant, PTL

\* After a session was closed, or started anew, with no turn of it in flight, no turn
\* continues its upstream session or sees its history: not by the table, not by a copy
\* of hermes and gemini, and not by a pointer that a turn of opencode keeps.
THEOREM ClosedSessionsStayForgotten == AdaptersSpec => []ClosedIsForgotten
<1>1. AdaptersInv => ClosedIsForgotten
  <2> SUFFICES ASSUME AdaptersInv, NEW t \in Running
               PROVE  turn[t].up \notin dropped /\ turn[t].hist \cap dropped = {}
    BY DEF ClosedIsForgotten
  <2>1. MadeBy(turn[t], Live(turn[t].session, turn, dropped)) /\ None \notin dropped
    BY AdaptersAssumption DEF AdaptersInv, ForgetInv
  <2> QED
    BY <2>1 DEF MadeBy, Live
<1> QED
  BY <1>1, AdaptersInvariant, PTL
=============================================================================
