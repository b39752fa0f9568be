--------------------------- MODULE ProviderCompat ---------------------------
(***************************************************************************)
(* The provider compatibility layer: the agent path of                     *)
(* SessionOrchestrator.Process (src/internal/acp/orchestrator.go) and the  *)
(* compats behind it (provider_compat.go, dsh_adapter.go,                  *)
(* dsbot_adapter.go).  A turn, session.start or session.message, runs in   *)
(* its own goroutine against the one provider of the instance:             *)
(*                                                                         *)
(*   codexWS    Codex over one WebSocket per call: initialize, then        *)
(*              thread/start or thread/resume, then turn/start, whose      *)
(*              answer may only say that the turn is in progress           *)
(*   codexHTTP  the same over HTTP, without initialize and without a wait  *)
(*   acpWS      gemini, opencode, hermes and ACP agents: one socket, one   *)
(*              request; cancelling the run closes the socket              *)
(*   acpHTTP    the same over HTTP                                         *)
(*   dsh,dsbot  HTTP executors with a session table of their own           *)
(*                                                                         *)
(* Codex threads are remembered in one map under the session id and the    *)
(* thread id of the request.  A provider thread, and a bridge session      *)
(* record, is named after the turn that created it.                        *)
(***************************************************************************)
EXTENDS Naturals, Sequences

CONSTANTS
    Turn,       \* turns, one goroutine of the front end each
    Session,    \* session ids
    Thread,     \* thread ids a request may name
    NoId,       \* the empty id, of a request that does not give one
    None,       \* no record, no thread, no entry
    Kinds       \* the providers of the instance

ASSUME NoIdIsNone == NoId \notin Session \cup Thread /\ None \notin Turn

Id == Session \cup Thread \cup {NoId}

\* The session and the thread of a request: both may be left out, and the
\* thread is the session when only that is given.
Names == (Session \X Thread) \cup {<<s, s>> : s \in Session} \cup ({NoId} \X (Thread \cup {NoId}))

VARIABLES
    kind,       \* the provider
    sessions,   \* Server.sessions: id -> its record
    task,       \* task state of each record
    compatOf,   \* records whose sess.compat is set
    threads,    \* codexCompat.threads
    store,      \* sessions of dshAdapter and dsbotAdapter: id -> status
    turn,       \* the turns
    up,         \* what the provider does for each turn
    used        \* history: the ids each thread was remembered under

vars == <<kind, sessions, task, compatOf, threads, store, turn, up, used>>

\* A message says which turn it is about, on which thread, and whether it
\* gives the id that the code reads from it.
NoMsg == [m |-> "none", of |-> None, on |-> None, named |-> FALSE]
Msg(m, t, named) == [m |-> m, of |-> t, on |-> turn[t].thread, named |-> named]

\* by is history: the notification that ended the call, if one did.
Idle == [pc |-> "idle", method |-> "session.start", sid |-> NoId, thr |-> NoId,
         rec |-> None, ctx |-> "live", step |-> "none", thread |-> None,
         sock |-> FALSE, pending |-> "no", inbox |-> <<>>, outcome |-> "none",
         by |-> NoMsg]

CompatInit ==
    /\ kind \in Kinds
    /\ sessions = [i \in Id |-> None]
    /\ task = [t \in Turn |-> "none"]
    /\ compatOf = {}
    /\ threads = [i \in Id |-> None]
    /\ store = [i \in Id |-> "none"]
    /\ turn = [t \in Turn |-> Idle]
    /\ up = [t \in Turn |-> "idle"]
    /\ used = [x \in Turn |-> {}]

Codex == kind \in {"codexWS", "codexHTTP"}
OnSocket == kind \in {"codexWS", "acpWS"}
Recorded == kind \in {"dsh", "dsbot"}

InCall(t) == turn[t].pc = "call"
InFlight(t) == turn[t].pc \notin {"idle", "done"}

----------------------------------------------------------------------------
\* The maps.

\* Mutant: the empty id is a key too.
KeysAll(s, h) == {s, h}

\* A thread is kept under both ids of the request, never under the empty one.
Keys(s, h) == {s, h} \ {NoId}

\* The session's entry, else the thread's.
lookupThread(s, h) ==
    IF s \in Keys(s, h) /\ threads[s] # None THEN threads[s]
    ELSE IF h \in Keys(s, h) THEN threads[h] ELSE None

rememberThread(s, h, x) ==
    /\ threads' = [i \in Id |-> IF i \in Keys(s, h) THEN x ELSE threads[i]]
    /\ used' = [used EXCEPT ![x] = @ \cup Keys(s, h)]

\* A session.start of dsh or dsbot writes the session's entry, a
\* session.message updates the entry if there is one.
Stored(t) ==
    IF Recorded /\ (turn[t].method = "session.start" \/ store[turn[t].sid] # "none")
    THEN [store EXCEPT ![turn[t].sid] = "completed"]
    ELSE store

----------------------------------------------------------------------------
\* The turn in the orchestrator.

\* Process up to the choice of the compat: the session's record is found or
\* made, and its task set to running.
Begin(t, m, name) ==
    LET s == name[1]
        rec == IF sessions[s] = None THEN t ELSE sessions[s]
    IN /\ turn[t].pc = "idle"
       /\ turn' = [turn EXCEPT ![t] = [@ EXCEPT !.pc = "begun", !.method = m,
                      !.sid = s, !.thr = name[2], !.rec = rec]]
       /\ sessions' = [sessions EXCEPT ![s] = rec]
       /\ task' = [task EXCEPT ![rec] = "running"]
       /\ UNCHANGED <<kind, compatOf, threads, store, up, used>>

\* The compat is published in the record; cancels before this are lost.  The
\* router only names providers of the fixed list the server has compats for, so
\* the refusal of an unknown one, which would leave the record running, has no
\* case.
UseCompat(t) ==
    /\ turn[t].pc = "begun"
    /\ compatOf' = compatOf \cup {turn[t].rec}
    /\ turn' = [turn EXCEPT ![t].pc = "ready"]
    /\ UNCHANGED <<kind, sessions, task, threads, store, up, used>>

\* What a call that fails makes of the turn: dsbot answers every failure with
\* a completed result of its own making.
FailedAs(t) == IF kind = "dsbot" THEN "mock" ELSE "error"

Ended(r, out) == [r EXCEPT !.pc = "ended", !.sock = FALSE, !.inbox = <<>>, !.outcome = out]
End(t, out) == Ended(turn[t], out)

FirstStep == IF Codex THEN "thread" ELSE "turn"

\* StartSession or SendMessage: a Codex message looks its thread up and is
\* refused without one; then the socket is dialled, for Codex initialize is
\* exchanged on it, and the first request is sent.
Open(t) ==
    LET x == lookupThread(turn[t].sid, turn[t].thr)
        continues == Codex /\ turn[t].method = "session.message"
    IN /\ turn[t].pc = "ready"
       /\ IF continues /\ x = None
          THEN /\ turn' = [turn EXCEPT ![t] = End(t, "unavailable")]
               /\ UNCHANGED up
          ELSE /\ turn' = [turn EXCEPT ![t] = [@ EXCEPT !.pc = "call",
                      !.sock = OnSocket, !.step = FirstStep,
                      !.thread = IF continues THEN x ELSE None]]
               /\ up' = [up EXCEPT ![t] = "working"]
       /\ UNCHANGED <<kind, sessions, task, compatOf, threads, store, used>>

\* The dial, or initialize, fails.
OpenFails(t) ==
    /\ turn[t].pc = "ready"
    /\ turn' = [turn EXCEPT ![t] = End(t, FailedAs(t))]
    /\ store' = IF kind = "dsbot" THEN Stored(t) ELSE store
    /\ UNCHANGED <<kind, sessions, task, compatOf, threads, up, used>>

\* Mutant: a failure leaves the record as it is.
SettledAsOnlyResults(t) ==
    IF turn[t].outcome \in {"error", "unavailable"} THEN task[turn[t].rec] ELSE "completed"

\* The end of Process: the failure, or normalizeResult.
SettledAs(t) == IF turn[t].outcome \in {"error", "unavailable"} THEN "failed" ELSE "completed"

\* A record that no session and no turn refers to is gone.
Garbage(r, ss, tt) ==
    /\ \A s \in Id : ss[s] # r
    /\ \A t \in Turn : tt[t].rec # r

\* A turn that Codex was asked for goes on when nobody waits for it; any other
\* ends with its connection.
GoesOn(t) == Codex /\ turn[t].step = "turn" /\ up[t] \in {"working", "approved", "running"}

Settle(t) ==
    LET r == turn[t].rec
    IN /\ turn[t].pc = "ended"
       /\ turn' = [turn EXCEPT ![t] =
                      IF GoesOn(t)
                      THEN [Idle EXCEPT !.pc = "done", !.sid = turn[t].sid,
                               !.thr = turn[t].thr, !.thread = turn[t].thread]
                      ELSE [Idle EXCEPT !.pc = "done"]]
       /\ task' = [task EXCEPT ![r] = IF Garbage(r, sessions, turn') THEN "none" ELSE SettledAs(t)]
       /\ compatOf' = IF Garbage(r, sessions, turn') THEN compatOf \ {r} ELSE compatOf
       /\ up' = [up EXCEPT ![t] = IF GoesOn(t) THEN "running" ELSE "idle"]
       /\ UNCHANGED <<kind, sessions, threads, store, used>>

----------------------------------------------------------------------------
\* The call: writeAndReadWSRPC, callWSRPC, callHTTPRPC and dispatchHTTP.

Rest(t) == [turn[t] EXCEPT !.inbox = Tail(@)]

\* The Codex loop looks at the context between two messages, and only there.
Continue(t, r) == IF kind = "codexWS" /\ r.ctx = "done" THEN Ended(r, "error") ELSE r

\* Mutant: the notification's turn is not compared.
isCodexTurnCompletedAny(t, msg) == turn[t].pending # "no"

\* Is the notification the end of the turn the call waits for?  The ids are
\* compared if both the answer and the notification give one; otherwise any
\* end of a turn will do.
isCodexTurnCompleted(t, msg) ==
    /\ turn[t].pending # "no"
    /\ turn[t].pending = "unnamed" \/ ~msg.named \/ msg.of = t

\* A permission request is approved at once, if the socket is still there.
Approved(t) == turn[t].sock

ReadPermission(t) ==
    /\ InCall(t) /\ turn[t].inbox # <<>> /\ Head(turn[t].inbox).m = "permission"
    /\ turn' = [turn EXCEPT ![t] = Continue(t, Rest(t))]
    /\ up' = [up EXCEPT ![t] = IF @ = "asks" /\ Approved(t) THEN "approved" ELSE @]
    /\ UNCHANGED <<kind, sessions, task, compatOf, threads, store, used>>

\* A turn/completed notification.
ReadCompleted(t) ==
    /\ InCall(t) /\ turn[t].inbox # <<>> /\ Head(turn[t].inbox).m = "completed"
    /\ turn' = [turn EXCEPT ![t] =
                   IF isCodexTurnCompleted(t, Head(turn[t].inbox))
                   THEN [End(t, "result") EXCEPT !.by = Head(turn[t].inbox)]
                   ELSE Continue(t, Rest(t))]
    /\ UNCHANGED <<kind, sessions, task, compatOf, threads, store, up, used>>

\* thread/start or thread/resume answered.  The thread's id is remembered; it
\* may be missing from the answer to resume only.  turn/start follows, and is
\* sent before the context is looked at.
ReadThread(t) ==
    /\ InCall(t) /\ turn[t].inbox # <<>> /\ Head(turn[t].inbox).m = "thread"
    /\ LET named == Head(turn[t].inbox).named
           x == IF turn[t].thread = None THEN t ELSE turn[t].thread
       IN IF named \/ turn[t].thread # None
          THEN /\ IF named THEN rememberThread(turn[t].sid, turn[t].thr, x)
                           ELSE UNCHANGED <<threads, used>>
               /\ turn' = [turn EXCEPT ![t] =
                              Continue(t, [Rest(t) EXCEPT !.step = "turn", !.thread = x])]
               /\ up' = [up EXCEPT ![t] = "working"]
          ELSE /\ turn' = [turn EXCEPT ![t] = End(t, "error")]
               /\ UNCHANGED <<threads, used, up>>
    /\ UNCHANGED <<kind, sessions, task, compatOf, store>>

\* The answer to the last request.  A Codex turn in progress is waited for on
\* a socket; over HTTP it is an answer without text, hence a failure result.
ReadAnswer(t) ==
    /\ InCall(t) /\ turn[t].inbox # <<>> /\ Head(turn[t].inbox).m \in {"progress", "answer"}
    /\ LET m == Head(turn[t].inbox).m
           id == IF Head(turn[t].inbox).named THEN "named" ELSE "unnamed"
       IN IF m = "progress" /\ kind = "codexWS"
          THEN /\ turn' = [turn EXCEPT ![t] = Continue(t, [Rest(t) EXCEPT !.pending = id])]
               /\ UNCHANGED store
          ELSE /\ turn' = [turn EXCEPT ![t] = End(t, IF m = "answer" THEN "result" ELSE "empty")]
               /\ store' = Stored(t)
    /\ UNCHANGED <<kind, sessions, task, compatOf, threads, up, used>>

\* The provider answers with an error, the socket is gone, the read deadline
\* of Codex or the timeout of the HTTP client passes, or the cancelled context
\* ends the HTTP request.
MayFail(t) ==
    \/ turn[t].inbox # <<>> /\ Head(turn[t].inbox).m = "error"
    \/ OnSocket /\ ~turn[t].sock
    \/ kind = "codexWS" /\ turn[t].inbox = <<>>
    \/ ~OnSocket

CallFails(t) ==
    /\ InCall(t)
    /\ MayFail(t)
    /\ turn' = [turn EXCEPT ![t] = End(t, FailedAs(t))]
    /\ store' = IF kind = "dsbot" THEN Stored(t) ELSE store
    /\ UNCHANGED <<kind, sessions, task, compatOf, threads, up, used>>

\* Mutant: only the dial listens to the context.
ClosesOnCancelNever(t) == FALSE

\* The AfterFunc of callWSRPC: a cancelled context closes the socket.
ClosesOnCancel(t) == kind = "acpWS" /\ turn[t].ctx = "done"

CloseOnCancel(t) ==
    /\ InCall(t) /\ turn[t].sock
    /\ ClosesOnCancel(t)
    /\ turn' = [turn EXCEPT ![t].sock = FALSE]
    /\ UNCHANGED <<kind, sessions, task, compatOf, threads, store, up, used>>

----------------------------------------------------------------------------
\* Requests about a running session.

\* The caller goes away or gives up while a socket is read; over HTTP, and in
\* a dial, the cancelled context is one of the ways to fail.
CtxDone(t) ==
    /\ InCall(t) /\ OnSocket /\ turn[t].ctx = "live"
    /\ turn' = [turn EXCEPT ![t].ctx = "done"]
    /\ UNCHANGED <<kind, sessions, task, compatOf, threads, store, up, used>>

\* The waiting turns the provider stops, with an error: those on the session's
\* thread, or those of the session.
Stopped(s) ==
    {t \in Turn : /\ InCall(t) /\ up[t] \in {"working", "approved", "running", "asks"}
                  /\ IF Codex THEN threads[s] # None /\ turn[t].thread = threads[s]
                     ELSE turn[t].sid = s}

\* session.cancel: the record's task, the compat's own entry, and a call to
\* the provider that may not arrive.
CancelSession(s) ==
    /\ sessions[s] # None /\ sessions[s] \in compatOf
    /\ task' = [task EXCEPT ![sessions[s]] = "cancelled"]
    /\ store' = IF store[s] = "none" THEN store ELSE [store EXCEPT ![s] = "cancelled"]
    /\ \E stopped \in {{}, Stopped(s)} :
          /\ up' = [t \in Turn |-> IF t \in stopped THEN "failed" ELSE up[t]]
          /\ turn' = [t \in Turn |-> IF t \in stopped
                                     THEN [turn[t] EXCEPT !.inbox = Append(@, Msg("error", t, TRUE))]
                                     ELSE turn[t]]
    /\ UNCHANGED <<kind, sessions, compatOf, threads, used>>

\* session.close: the record goes; no compat is told.
CloseSession(s) ==
    LET r == sessions[s]
    IN /\ r # None
       /\ sessions' = [sessions EXCEPT ![s] = None]
       /\ task' = [task EXCEPT ![r] = IF Garbage(r, sessions', turn) THEN "none" ELSE @]
       /\ compatOf' = IF Garbage(r, sessions', turn) THEN compatOf \ {r} ELSE compatOf
       /\ UNCHANGED <<kind, threads, store, turn, up, used>>

----------------------------------------------------------------------------
\* The provider, external.

Send(t, msg) == [turn EXCEPT ![t].inbox = Append(@, msg)]

\* It answers the request it works on; a turn of Codex may go on after that.
\* What Codex sends may come without the id of the thread or of the turn.
ProviderAnswers(t) ==
    /\ up[t] \in {"working", "approved"} /\ InCall(t) /\ turn[t].inbox = <<>>
    /\ IF turn[t].step # "turn"
       THEN \E m \in {"thread", "error"}, named \in BOOLEAN :
               /\ m = "error" => named
               /\ turn' = Send(t, Msg(m, t, named)) /\ up' = [up EXCEPT ![t] = "idle"]
       ELSE \/ /\ turn' = Send(t, Msg("answer", t, TRUE))
               /\ up' = [up EXCEPT ![t] = "finished"]
            \/ /\ turn' = Send(t, Msg("error", t, TRUE))
               /\ up' = [up EXCEPT ![t] = "failed"]
            \/ /\ Codex
               /\ \E named \in BOOLEAN : turn' = Send(t, Msg("progress", t, named))
               /\ up' = [up EXCEPT ![t] = "running"]
    /\ UNCHANGED <<kind, sessions, task, compatOf, threads, store, used>>

\* It asks for a permission, over a socket and at most once a turn, and waits.
ProviderAsks(t) ==
    /\ OnSocket /\ InCall(t) /\ up[t] = "working" /\ turn[t].step = "turn"
    /\ turn[t].inbox = <<>>
    /\ turn' = Send(t, Msg("permission", t, TRUE))
    /\ up' = [up EXCEPT ![t] = "asks"]
    /\ UNCHANGED <<kind, sessions, task, compatOf, threads, store, used>>

\* A turn of Codex ends: every socket on its thread is told.
ProviderCompletes(t) ==
    /\ up[t] = "running"
    /\ up' = [up EXCEPT ![t] = "finished"]
    /\ \E named \in BOOLEAN :
          turn' = [u \in Turn |->
                      IF InCall(u) /\ turn[u].sock /\ turn[u].step = "turn"
                         /\ turn[u].thread = turn[t].thread
                      THEN [turn[u] EXCEPT !.inbox = Append(@, Msg("completed", t, named))]
                      ELSE turn[u]]
    /\ UNCHANGED <<kind, sessions, task, compatOf, threads, store, used>>

\* It falls silent for good.  This matters on an ACP socket only: a Codex read
\* has its deadline and an HTTP call its timeout.
ProviderHangs(t) ==
    /\ kind = "acpWS" /\ InCall(t) /\ up[t] \in {"working", "approved", "asks"}
    /\ up' = [up EXCEPT ![t] = "hung"]
    /\ UNCHANGED <<kind, sessions, task, compatOf, threads, store, turn, used>>

\* The connection is lost, and the read fails.
SocketDrops(t) ==
    /\ InCall(t) /\ turn[t].sock
    /\ turn' = [turn EXCEPT ![t] = End(t, "error")]
    /\ UNCHANGED <<kind, sessions, task, compatOf, threads, store, up, used>>

----------------------------------------------------------------------------
\* The goroutine of a turn, and the provider working for it.
TurnStep(t) ==
    \/ UseCompat(t) \/ Open(t) \/ OpenFails(t) \/ ReadPermission(t) \/ ReadCompleted(t)
    \/ ReadThread(t) \/ ReadAnswer(t) \/ CallFails(t) \/ Settle(t)
ProviderStep(t) == ProviderAnswers(t) \/ ProviderCompletes(t)

CompatNext ==
    \/ \E t \in Turn, m \in {"session.start", "session.message"}, n \in Names : Begin(t, m, n)
    \/ \E t \in Turn : UseCompat(t)
    \/ \E t \in Turn : Open(t)
    \/ \E t \in Turn : OpenFails(t)
    \/ \E t \in Turn : ReadPermission(t)
    \/ \E t \in Turn : ReadCompleted(t)
    \/ \E t \in Turn : ReadThread(t)
    \/ \E t \in Turn : ReadAnswer(t)
    \/ \E t \in Turn : CallFails(t)
    \/ \E t \in Turn : CloseOnCancel(t)
    \/ \E t \in Turn : Settle(t)
    \/ \E t \in Turn : CtxDone(t)
    \/ \E s \in Session \cup {NoId} : CancelSession(s)
    \/ \E s \in Session \cup {NoId} : CloseSession(s)
    \/ \E t \in Turn : ProviderAnswers(t)
    \/ \E t \in Turn : ProviderAsks(t)
    \/ \E t \in Turn : ProviderCompletes(t)
    \/ \E t \in Turn : ProviderHangs(t)
    \/ \E t \in Turn : SocketDrops(t)

CompatSpec == CompatInit /\ [][CompatNext]_vars

\* The goroutine of a turn keeps going, the closing of a cancelled socket is a
\* goroutine of its own, and a provider that has not fallen silent answers.
CompatFairSpec ==
    /\ CompatSpec
    /\ \A t \in Turn :
          /\ WF_vars(TurnStep(t))
          /\ WF_vars(CloseOnCancel(t))
          /\ WF_vars(ProviderStep(t))

----------------------------------------------------------------------------
\* The type invariant.
CompatTypeOK ==
    /\ sessions \in [Id -> Turn \cup {None}] /\ threads \in [Id -> Turn \cup {None}]
    /\ \A s \in Id : store[s] \in {"none", "completed", "cancelled"}
    /\ task \in [Turn -> {"none", "running", "completed", "failed", "cancelled"}]
    /\ compatOf \subseteq Turn
    /\ up \in [Turn -> {"idle", "working", "asks", "approved", "running",
                         "finished", "failed", "hung"}]
    /\ \A t \in Turn :
          /\ turn[t].pc \in {"idle", "begun", "ready", "call", "ended", "done"}
          /\ turn[t].thread \in Turn \cup {None} /\ turn[t].rec \in Turn \cup {None}
          /\ turn[t].sock => InCall(t) /\ OnSocket
          /\ turn[t].outcome = "mock" => kind = "dsbot"

\* A turn is answered with a result only when the provider has finished that
\* very turn, or when the end of another turn on the same thread could not be
\* told apart, because the answer to turn/start or the notification came without
\* an id.  So no notification that names another turn, and no answer that only
\* says "in progress", is taken for its end.  The answers dsbot makes up itself
\* are not results.
ResultIsOwn ==
    \A t \in Turn :
       turn[t].outcome = "result" =>
          \/ up[t] = "finished"
          \/ /\ turn[t].by.m = "completed" /\ turn[t].by.on = turn[t].thread
             /\ turn[t].pending = "unnamed" \/ ~turn[t].by.named

\* A session record shows a running task only while some turn of that record
\* is in flight: every path out of Process to a provider the server has,
\* refusals and failures included, leaves the record settled, whatever cancels
\* and closes came between.
RunningHasTurn ==
    \A r \in Turn : task[r] = "running" => \E t \in Turn : InFlight(t) /\ turn[t].rec = r

\* A turn runs on a thread of its own making or on one that a request naming
\* the same session or thread used before: requests of unrelated sessions, and
\* requests without ids, never end up in one another's conversation.
ThreadIsOwn ==
    \A t \in Turn :
       turn[t].thread \notin {None, t}
          => (used[turn[t].thread] \cap {turn[t].sid, turn[t].thr}) \ {NoId} # {}

\* Every call to a provider returns, but for the one case the code leaves
\* open: a provider that falls silent on an ACP socket while the caller stays.
\* So permission requests are answered, a Codex turn in progress is seen to
\* end or runs into the read deadline, which every message sets anew, and a
\* cancelled caller is never kept.
CallsReturn ==
    \A t \in Turn :
       InCall(t) ~> \/ ~InCall(t)
                    \/ kind = "acpWS" /\ up[t] = "hung" /\ turn[t].ctx = "live"
=============================================================================
