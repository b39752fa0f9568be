--------------------------- MODULE ProviderAdapters ---------------------------
(***************************************************************************)
(* The adapters hermes-acp-adapter, gemini-acp-adapter and                 *)
(* opencode-acp-adapter: each wraps one child process and keeps a table of *)
(* bridge sessions.  A process runs one of them.                           *)
(*   hermes   JSON-RPC on the child's pipes under one mutex; a session has *)
(*            an upstream session; text arrives as notifications that go   *)
(*            to the one handler of the client                             *)
(*   gemini   the pipes for the handshake only; a turn runs a command with *)
(*            the history that the adapter keeps                           *)
(*   opencode HTTP to the child; a session has an upstream session         *)
(* A turn creates at most one table entry and one upstream session, so the *)
(* turn names them.  A turn that is given a pointer to an entry keeps it   *)
(* in ent; hermes and gemini give a message a copy (up, hist).             *)
(***************************************************************************)
EXTENDS Naturals, Sequences

CONSTANTS
    Adapter, \* the adapters to be checked
    Session, \* bridge sessions
    Turn,    \* session.start and session.message requests
    None

ASSUME AdaptersAssumption ==
    /\ Adapter \subseteq {"hermes", "gemini", "opencode"}
    /\ None \notin Session \cup Turn

VARIABLES
    adapter, \* which adapter this process is
    child,   \* off; up; dead: exited while cmd is still set
    ready,   \* c.initialized
    lock,    \* c.mu: the turn whose call is on the pipes
    stuck,   \* the read of that call timed out; it now reads stderr to its end
    pipe,    \* lines of the child that were not read yet
    finished, \* turns whose prompt the child has responded to
    handler, \* c.notificationHandler
    table,   \* s.sessions
    entry,   \* the sessions' records, by the turn that created them
    turn,    \* the goroutines of the requests
    dropped  \* turns of a session that was closed or restarted with no turn in flight

avars == <<adapter, child, ready, lock, stuck, pipe, finished, handler, table, entry, turn,
           dropped>>

Empty == [up |-> None, hist |-> {}]

Calls == {"init", "new", "model", "prompt"}
Steps == Calls \cup {"idle", "lookup", "publish", "handler", "history", "unset",
                     "run", "create", "send", "sent", "answered"}

\* heard: the lines given to the turn's handler while no other turn was in flight.
NewTurn == [at |-> "idle", session |-> None, method |-> "start", ent |-> None,
            up |-> None, hist |-> {}, heard |-> {}, alone |-> TRUE]

AdaptersInit ==
    /\ adapter \in Adapter
    /\ child = "off" /\ ready = FALSE
    /\ lock = None /\ stuck = FALSE
    /\ pipe = <<>> /\ finished = {}
    /\ handler = None
    /\ table = [s \in Session |-> None]
    /\ entry = [t \in Turn |-> Empty]
    /\ turn = [t \in Turn |-> NewTurn]
    /\ dropped = {}

Running == {t \in Turn : turn[t].at \notin {"idle", "answered"}}
Of(s) == {t \in Turn : turn[t].session = s}

Set(t, record) == turn' = [turn EXCEPT ![t] = record]
GoTo(t, step) == Set(t, [turn[t] EXCEPT !.at = step])
Answer(t) == Set(t, [NewTurn EXCEPT !.at = "answered", !.session = turn[t].session,
                                    !.heard = IF turn[t].alone THEN turn[t].heard ELSE {}])

\* A request arrives; it and the turns in flight are not alone.
Receive(t) ==
    /\ turn[t].at = "idle"
    /\ \E s \in Session, method \in {"start", "message"} :
          turn' = [u \in Turn |->
              IF u = t THEN [NewTurn EXCEPT !.at = "init", !.session = s, !.method = method,
                                            !.alone = (Running = {})]
              ELSE IF u \in Running THEN [turn[u] EXCEPT !.alone = FALSE, !.heard = {}]
              ELSE turn[u]]
    /\ UNCHANGED <<adapter, child, ready, lock, stuck, pipe, handler, table,
                   entry, finished, dropped>>

-----------------------------------------------------------------------------
(* The session tables *)

\* What remains of session s is out of reach once no turn holds on to it.
Forget(t, s) ==
    dropped' = IF Running \cap Of(s) \subseteq {t}
               THEN dropped \cup {u \in Of(s) : turn[u].at = "answered"} ELSE dropped

\* getOrCreateSession, and resetSession for a start.
EntryFor(t) ==
    IF turn[t].method = "start" \/ table[turn[t].session] = None THEN t
    ELSE table[turn[t].session]

AfterLookup(up) ==
    CASE adapter = "hermes" -> IF up = None THEN "new" ELSE "publish"
      [] adapter = "gemini" -> "run"
      [] adapter = "opencode" -> IF up = None THEN "create" ELSE "send"

\* A request without a prompt fails here; opencode looks at the prompt first.
Lookup(t) ==
    LET s == turn[t].session
        e == EntryFor(t)
        found == IF e = t THEN Empty ELSE entry[e] IN
    /\ turn[t].at = "lookup"
    /\ table' = [table EXCEPT ![s] = e]
    /\ entry' = [entry EXCEPT ![e] = found]
    /\ IF turn[t].method = "start" THEN Forget(t, s) ELSE UNCHANGED dropped
    /\ \/ Set(t, [turn[t] EXCEPT !.at = AfterLookup(found.up), !.ent = e,
                                 !.up = found.up, !.hist = found.hist])
       \/ adapter # "opencode" /\ Answer(t)
    /\ UNCHANGED <<adapter, child, ready, lock, stuck, pipe, handler, finished>>

\* Mutant: closing clears the record of what was said and keeps the rest.
closeSessionKeeps(s) ==
    /\ UNCHANGED table
    /\ entry' = [entry EXCEPT ![table[s]].hist = {}]

closeSession(s) ==
    /\ table' = [table EXCEPT ![s] = None]
    /\ UNCHANGED entry

Close(s) ==
    /\ table[s] # None
    /\ closeSession(s)
    /\ Forget(None, s)
    /\ UNCHANGED <<adapter, child, ready, lock, stuck, pipe, handler, turn, finished>>

\* The record of t's session; one that is gone is created again.
Kept(t) ==
    LET e == table[turn[t].session] IN IF e = None THEN Empty ELSE entry[e]

Write(t, record) ==
    LET s == turn[t].session
        e == IF table[s] = None THEN t ELSE table[s] IN
    /\ table' = [table EXCEPT ![s] = e]
    /\ entry' = [entry EXCEPT ![e] = record]

-----------------------------------------------------------------------------
(* Calls on the pipes: hermes, and the handshake of gemini *)

\* Initialize and Call up to the read.  A child that exited is never started again:
\* the write to its pipe fails.
Call(t) ==
    /\ adapter # "opencode"
    /\ turn[t].at \in Calls /\ lock = None
    /\ \/ child = "off" /\ Answer(t) /\ UNCHANGED <<child, lock>>
       \/ child # "dead" /\ child' = "up" /\ lock' = t /\ UNCHANGED turn
       \/ /\ child = "dead"
          /\ IF turn[t].at = "prompt" THEN GoTo(t, "unset") ELSE Answer(t)
          /\ UNCHANGED <<child, lock>>
    /\ (turn[t].at = "init" => ~ready)
    /\ UNCHANGED <<adapter, ready, stuck, pipe, handler, table, entry, finished, dropped>>

\* The handshake was made before; ensureStarted still looks for a child.
AlreadyInitialized(t) ==
    /\ adapter # "opencode"
    /\ turn[t].at = "init" /\ lock = None /\ ready
    /\ GoTo(t, "lookup")
    /\ UNCHANGED <<adapter, child, ready, lock, stuck, pipe, handler, table,
                   entry, finished, dropped>>

Text == {"text", "late"}
Unread(kinds) == {i \in 1..Len(pipe) : pipe[i].kind \in kinds}
Says(t, kind) == pipe' = Append(pipe, [kind |-> kind, by |-> t])

\* The child responds to the call it works on.
ChildResponds(t) ==
    /\ lock = t /\ child = "up" /\ Unread({"response"}) = {}
    /\ Says(t, "response")
    /\ UNCHANGED <<adapter, child, ready, lock, stuck, finished, handler, table, entry,
                   turn, dropped>>

\* Text of a prompt, before its response or within the two seconds of the drain.  One
\* unread text at a time is enough: the lines are read in their order.
ChildTalks(t) ==
    /\ lock = t /\ child = "up" /\ turn[t].at = "prompt"
    /\ Unread(Text) = {}
    /\ Says(t, "text")
    /\ UNCHANGED <<adapter, child, ready, lock, stuck, finished, handler, table, entry,
                   turn, dropped>>

\* Text of a prompt after the drain of its response, with the mutex free or held by
\* the call of another turn.
ChildTalksLate(t) ==
    /\ t \in finished /\ child = "up"
    /\ Unread(Text) = {}
    /\ Says(t, "late")
    /\ UNCHANGED <<adapter, child, ready, lock, stuck, finished, handler, table, entry,
                   turn, dropped>>

\* A notification is given to whatever handler is set.
ReadText(t) ==
    /\ lock = t /\ ~stuck /\ pipe # <<>> /\ Head(pipe).kind \in Text
    /\ pipe' = Tail(pipe)
    /\ turn' = IF handler = None \/ ~turn[handler].alone THEN turn
               ELSE [turn EXCEPT ![handler].heard = @ \cup {Head(pipe)}]
    /\ UNCHANGED <<adapter, child, ready, lock, stuck, handler, table,
                   entry, finished, dropped>>

\* Mutant: the call returns with its response.
drainNothing == Tail(pipe)

\* drainNotificationsLocked reads and discards: a line without an id has the id "<nil>".
\* It ends after two seconds; what the child says then is in the pipe for the next call.
drain == <<>>

\* What the turn does with a result: the handshake is done, a session id is taken (by
\* a start also into the record it points at), the model is set, the text is complete.
Return(t) ==
    CASE turn[t].at = "init" ->
            /\ ready' = TRUE
            /\ GoTo(t, "lookup")
            /\ UNCHANGED <<table, entry>>
      [] turn[t].at = "new" ->
            /\ Set(t, [turn[t] EXCEPT !.at = "publish", !.up = t])
            /\ entry' = IF turn[t].method = "start" THEN [entry EXCEPT ![t].up = t] ELSE entry
            /\ UNCHANGED <<ready, table>>
      [] turn[t].at = "model" ->
            /\ GoTo(t, "handler")
            /\ Write(t, Kept(t))
            /\ UNCHANGED ready
      [] turn[t].at = "prompt" ->
            /\ \E step \in {"history", "unset"} : GoTo(t, step)
            /\ UNCHANGED <<ready, table, entry>>

\* session/new may answer without an id.
ReadResponse(t) ==
    /\ lock = t /\ ~stuck /\ pipe # <<>> /\ Head(pipe).kind = "response"
    /\ pipe' = drain
    /\ lock' = None
    /\ finished' = IF turn[t].at = "prompt" THEN finished \cup {t} ELSE finished
    /\ \/ Return(t)
       \/ turn[t].at \in {"init", "new"} /\ Answer(t) /\ UNCHANGED <<ready, table, entry>>
    /\ UNCHANGED <<adapter, child, stuck, handler, dropped>>

\* No line within the deadline: hermes reads stderr to its end, which a living child
\* does not reach, and holds the mutex; gemini has no deadline.
ReadTimesOut(t) ==
    /\ adapter = "hermes" /\ lock = t /\ child = "up" /\ pipe = <<>>
    /\ stuck' = TRUE
    /\ UNCHANGED <<adapter, child, ready, lock, pipe, handler, table, entry,
                   turn, finished, dropped>>

\* Mutant: the error returns without the unlock.
UnlockNever == UNCHANGED <<lock, stuck>>

\* The deferred unlock, also of a call that was stuck until the child exited.
Unlock == lock' = None /\ stuck' = FALSE

\* The pipes of a child that exited are at their end.
ReadFails(t) ==
    /\ lock = t /\ child = "dead" /\ (pipe = <<>> \/ stuck)
    /\ Unlock
    /\ IF turn[t].at = "prompt" THEN GoTo(t, "unset") ELSE Answer(t)
    /\ UNCHANGED <<adapter, child, ready, pipe, handler, table, entry, finished, dropped>>

-----------------------------------------------------------------------------
(* A turn of hermes *)

\* The upstream session is written to the table, the model is set if one is configured.
Publish(t) ==
    /\ turn[t].at = "publish"
    /\ Write(t, [Kept(t) EXCEPT !.up = turn[t].up])
    /\ \E step \in {"model", "handler"} : GoTo(t, step)
    /\ UNCHANGED <<adapter, child, ready, lock, stuck, pipe, handler, finished, dropped>>

SetHandler(t) ==
    /\ turn[t].at = "handler" /\ lock = None
    /\ handler' = t
    /\ GoTo(t, "prompt")
    /\ UNCHANGED <<adapter, child, ready, lock, stuck, pipe, table, entry, finished, dropped>>

\* An answer with text is recorded.
Record(t) ==
    /\ turn[t].at = "history"
    /\ Write(t, [Kept(t) EXCEPT !.hist = @ \cup {t}])
    /\ GoTo(t, "unset")
    /\ UNCHANGED <<adapter, child, ready, lock, stuck, pipe, handler, finished, dropped>>

\* The deferred SetNotificationHandler(nil), whoever's handler is set.
UnsetHandler(t) ==
    /\ turn[t].at = "unset" /\ lock = None
    /\ handler' = None
    /\ Answer(t)
    /\ UNCHANGED <<adapter, child, ready, lock, stuck, pipe, table, entry, finished, dropped>>

-----------------------------------------------------------------------------
(* A turn of gemini, and one of opencode *)

\* The command runs with the history that was read; what it returns replaces the record.
RunCommand(t) ==
    /\ turn[t].at = "run"
    /\ \/ Write(t, [Kept(t) EXCEPT !.hist = turn[t].hist \cup {t}])
       \/ UNCHANGED <<table, entry>>
    /\ Answer(t)
    /\ UNCHANGED <<adapter, child, ready, lock, stuck, pipe, handler, finished, dropped>>

\* ensureStarted and the health check.  cmd stays set when the child is not ready in time.
Start(t) ==
    /\ adapter = "opencode" /\ turn[t].at = "init"
    /\ \/ child # "dead" /\ child' = "up" /\ GoTo(t, "lookup")
       \/ child' \in {child, IF child = "off" THEN "up" ELSE child} /\ Answer(t)
    /\ UNCHANGED <<adapter, ready, lock, stuck, pipe, handler, table,
                   entry, finished, dropped>>

\* CreateSession; the id goes into the record the turn points at, and that record into
\* the table.
CreateSession(t) ==
    /\ turn[t].at = "create"
    /\ \/ /\ child = "up"
          /\ entry' = [entry EXCEPT ![turn[t].ent].up = t]
          /\ table' = [table EXCEPT ![turn[t].session] = turn[t].ent]
          /\ GoTo(t, "send")
       \/ Answer(t) /\ UNCHANGED <<table, entry>>
    /\ UNCHANGED <<adapter, child, ready, lock, stuck, pipe, handler, finished, dropped>>

SendMessage(t) ==
    /\ turn[t].at = "send"
    /\ Set(t, [turn[t] EXCEPT !.at = "sent", !.up = entry[turn[t].ent].up])
    /\ UNCHANGED <<adapter, child, ready, lock, stuck, pipe, handler, table,
                   entry, finished, dropped>>

MessageReturns(t) ==
    /\ turn[t].at = "sent"
    /\ \/ child = "up" /\ table' = [table EXCEPT ![turn[t].session] = turn[t].ent]
       \/ UNCHANGED table
    /\ Answer(t)
    /\ UNCHANGED <<adapter, child, ready, lock, stuck, pipe, handler,
                   entry, finished, dropped>>

ChildExits ==
    /\ child = "up"
    /\ child' = "dead"
    /\ UNCHANGED <<adapter, ready, lock, stuck, pipe, handler, table, entry,
                   turn, finished, dropped>>

-----------------------------------------------------------------------------
Serve(t) ==
    \/ Call(t) \/ AlreadyInitialized(t) \/ ReadText(t) \/ ReadResponse(t) \/ ReadFails(t)
    \/ Lookup(t) \/ Publish(t) \/ SetHandler(t) \/ Record(t) \/ UnsetHandler(t)
    \/ RunCommand(t)
    \/ Start(t) \/ CreateSession(t) \/ SendMessage(t) \/ MessageReturns(t)

AdaptersNext ==
    \/ ChildExits
    \/ \E s \in Session : Close(s)
    \/ \E t \in Turn : \/ Receive(t) \/ Serve(t)
                       \/ ChildResponds(t) \/ ChildTalks(t) \/ ChildTalksLate(t)
                       \/ ReadTimesOut(t)

AdaptersSpec == AdaptersInit /\ [][AdaptersNext]_avars

\* Goroutines run and get the mutex in the end (Go's mutex is starvation free), and a
\* child that lives answers or lets the read time out.
AdaptersFairSpec ==
    /\ AdaptersSpec
    /\ \A t \in Turn : SF_avars(Serve(t)) /\ WF_avars(ChildResponds(t))

Line == [kind : Text \cup {"response"}, by : Turn]

AdaptersTypeOK ==
    /\ adapter \in Adapter
    /\ child \in {"off", "up", "dead"} /\ ready \in BOOLEAN
    /\ lock \in Turn \cup {None} /\ stuck \in BOOLEAN /\ (stuck => lock # None)
    /\ pipe \in Seq(Line) /\ Len(pipe) <= 2 /\ finished \subseteq Turn
    /\ handler \in Turn \cup {None}
    /\ table \in [Session -> Turn \cup {None}]
    /\ entry \in [Turn -> [up : Turn \cup {None}, hist : SUBSET Turn]]
    /\ turn \in [Turn -> [at : Steps, session : Session \cup {None}, method : {"start", "message"},
                          ent : Turn \cup {None}, up : Turn \cup {None}, hist : SUBSET Turn,
                          heard : SUBSET Line, alone : BOOLEAN]]
    /\ dropped \subseteq Turn

\* All turns share one handler that is not told which upstream session a text is from.
\* Still the answer of a turn that overlaps no other one has foreign text only of a child
\* that went on talking more than two seconds after the response to an earlier prompt:
\* what it said by then was drained, and what another turn's call reads is its own.
AloneHearsItself ==
    \A t \in Turn : turn[t].alone =>
        \A line \in turn[t].heard : line.by = t \/ line.kind = "late"

\* A session that was closed, or started anew, while it had no turn in flight is
\* forgotten: no later turn continues its upstream session or sees its history.
ClosedIsForgotten ==
    \A t \in Running : turn[t].up \notin dropped /\ turn[t].hist \cap dropped = {}

\* Every request is answered, with the mutex, the handler and the table all turns share,
\* a dead child and turns that fail, unless a call of hermes whose read timed out reads
\* stderr with the mutex held.  That a living child responds is assumed: gemini waits
\* for a silent one without a deadline, and with the mutex held.
TurnsEnd ==
    \A t \in Turn : turn[t].at = "init" ~> turn[t].at = "answered" \/ stuck
=============================================================================
