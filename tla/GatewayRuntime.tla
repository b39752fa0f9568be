--------------------------- MODULE GatewayRuntime ---------------------------
(***************************************************************************)
(* One gateway session of the Manager (internal/gatewayruntime/runtime.go) *)
(* and the calls that open it for the Bridge's own device identity         *)
(* (internal/acp/gateway.go, gateway_identity.go).                         *)
(*                                                                         *)
(* connectMu serialises the callers of Connect, but not the goroutine of   *)
(* the reconnect timer; every other field is under mu, which no dial,      *)
(* write, read or channel send holds.  A step is one critical section.     *)
(* Each request has a response channel of capacity one in `pending`, keyed *)
(* by an id never used again: a requester of the model uses its channel    *)
(* anew only when no one holds the former one.                             *)
(***************************************************************************)
EXTENDS Naturals, FiniteSets

CONSTANTS
    Caller,     \* goroutines that call ensureProductionGatewayConnected
    Timer,      \* goroutines of a reconnect timer that fired
    Request,    \* goroutines that send a request on the session
    Leaver,     \* goroutines that call Disconnect
    Conn,       \* sockets
    MaxFaults,  \* faults of gateway, network and clock, and calls of Disconnect
    None

Attempter == Caller \cup Timer
Requester == Attempter \cup Request
Process == Requester \cup Leaver

Answers == {"ok", "denied", "mismatch", "handshake", "failed"}
Tokens == {"none", "good", "stale"}

ASSUME GatewayAssumption ==
    /\ IsFiniteSet(Process) /\ IsFiniteSet(Conn)
    /\ Caller \cap Timer = {} /\ Attempter \cap Request = {} /\ Requester \cap Leaver = {}
    /\ None \notin Process \cup Conn \cup Answers
    /\ MaxFaults \in Nat

VARIABLES
    conn,       \* session.conn
    status,     \* session.snapshot.Status
    manual,     \* session.manualDisconnect
    suppress,   \* session.suppressReconnect
    armed,      \* session.reconnectTimer is running
    config,     \* session.config: its device token
    connectMu,  \* who holds session.connectMu
    pending,    \* session.pending: whose channel is in the map
    inbox,      \* the response channels
    proc,       \* the goroutines that call
    reader,     \* the readLoop of each socket
    socket,     \* a socket is closed, open, or ready once connect is accepted
    unanswered, \* requests written and not answered by the gateway
    token,      \* bridgeGatewayIdentity.deviceToken and its file
    faults,
    dropped     \* history: the last socket went in resetConnAfterProtocolError

session == <<conn, status, manual, suppress, armed, config, connectMu, pending>>
remote == <<unanswered, faults>>
gatewayVars == <<session, inbox, proc, reader, socket, token, remote, dropped>>

ProcSteps == {"idle", "locking", "configured", "dialing", "challenge", "waiting", "got",
              "telling", "failing", "marking", "refused", "saving"}
ReaderSteps == {"ended", "reading", "sending", "dropping", "losing", "rescheduling"}
IdleProc == [at |-> "idle", conn |-> None, got |-> None, taken |-> {},
             token |-> "none", again |-> FALSE]
EndedReader == [at |-> "ended", to |-> None, got |-> None, taken |-> {}]

GatewayTypeOK ==
    /\ conn \in Conn \cup {None}
    /\ status \in {"offline", "connecting", "connected", "error"}
    /\ manual \in BOOLEAN /\ suppress \in BOOLEAN /\ armed \in BOOLEAN
    /\ config \in Tokens
    /\ connectMu \in Caller \cup {None}
    /\ pending \in SUBSET Requester
    /\ inbox \in [Requester -> Answers \cup {None}]
    /\ proc \in [Process -> [at : ProcSteps, conn : Conn \cup {None},
                             got : Answers \cup {None}, taken : SUBSET Requester,
                             token : Tokens, again : BOOLEAN]]
    /\ reader \in [Conn -> [at : ReaderSteps, to : Requester \cup {None},
                            got : Answers \cup {None}, taken : SUBSET Requester]]
    /\ socket \in [Conn -> {"closed", "open", "ready"}]
    /\ unanswered \in SUBSET Requester
    /\ token \in Tokens
    /\ faults \in 0..MaxFaults
    /\ dropped \in BOOLEAN

\* A token that went stale while the Bridge was down is the first of the faults.
GatewayInit ==
    /\ conn = None /\ status = "offline"
    /\ manual = FALSE /\ suppress = FALSE /\ armed = FALSE
    /\ config = "none" /\ connectMu = None
    /\ pending = {}
    /\ inbox = [x \in Requester |-> None]
    /\ proc = [p \in Process |-> IdleProc]
    /\ reader = [n \in Conn |-> EndedReader]
    /\ socket = [n \in Conn |-> "closed"]
    /\ unanswered = {}
    /\ token \in Tokens
    /\ faults = IF token = "stale" /\ MaxFaults > 0 THEN 1 ELSE 0
    /\ dropped = FALSE

Fault == faults < MaxFaults /\ faults' = faults + 1
GoTo(p, step) == proc' = [proc EXCEPT ![p].at = step]
Close(n) == socket' = [socket EXCEPT ![n] = "closed"]

\* Goroutines that still hold the former channel of x.
HoldsChannel(x) ==
    \/ \E p \in Process : x \in proc[p].taken
    \/ \E n \in Conn : reader[n].to = x \/ x \in reader[n].taken

\* A socket no goroutine and no field refers to.
Unused(n) ==
    /\ reader[n].at = "ended" /\ socket[n] = "closed" /\ conn # n
    /\ \A p \in Process : proc[p].conn # n

-----------------------------------------------------------------------------
(* ensureProductionGatewayConnected, connectOpenClawGateway *)

\* The request carries the device token kept for the Bridge's identity.
EnsureConnected(c) ==
    /\ proc[c].at = "idle"
    /\ proc' = [proc EXCEPT ![c].at = "locking", ![c].token = token]
    /\ UNCHANGED <<session, inbox, reader, socket, token, remote, dropped>>

sameConnectTarget(next) == config = next

\* An established connection to the same target is used as it is; otherwise
\* configure, under connectMu, forgets what earlier connections left behind.
Connect(c) ==
    /\ proc[c].at = "locking"
    /\ connectMu = None
    /\ IF conn # None /\ status = "connected" /\ sameConnectTarget(proc[c].token)
       THEN /\ proc' = [proc EXCEPT ![c] = IdleProc]
            /\ UNCHANGED session
       ELSE /\ connectMu' = c
            /\ config' = proc[c].token
            /\ manual' = FALSE /\ suppress' = FALSE /\ armed' = FALSE
            /\ status' = "offline"
            /\ proc' = [proc EXCEPT ![c].at = "configured", ![c].token = "none"]
            /\ UNCHANGED <<conn, pending>>
    /\ UNCHANGED <<inbox, reader, socket, token, remote, dropped>>

PublishConnecting(c) ==
    /\ proc[c].at = "configured"
    /\ status' = "connecting"
    /\ GoTo(c, "dialing")
    /\ UNCHANGED <<conn, manual, suppress, armed, config, connectMu, pending, inbox,
                   reader, socket, token, remote, dropped>>

\* The gateway wants the device paired anew; the shared token is assumed configured.
shouldRetryWithSharedToken(c) == proc[c].got = "mismatch" /\ ~proc[c].again

\* The stored token is cleared, whoever stored it, and the shared token tried.
RetryWithSharedToken(c) ==
    /\ proc[c].at = "refused"
    /\ IF shouldRetryWithSharedToken(c)
       THEN /\ token' = "none"
            /\ proc' = [proc EXCEPT ![c] = [IdleProc EXCEPT !.at = "locking", !.again = TRUE]]
       ELSE /\ proc' = [proc EXCEPT ![c] = IdleProc]
            /\ UNCHANGED token
    /\ UNCHANGED <<session, inbox, reader, socket, remote, dropped>>

SaveDeviceToken(c) ==
    /\ proc[c].at = "saving"
    /\ token' = proc[c].token
    /\ proc' = [proc EXCEPT ![c] = IdleProc]
    /\ UNCHANGED <<session, inbox, reader, socket, remote, dropped>>

-----------------------------------------------------------------------------
(* connectAttempt *)

\* The dial fails; or the new socket becomes the session's, and the one before is
\* left to itself.
Dial(p) ==
    /\ proc[p].at = "dialing"
    /\ \/ /\ Fault
          /\ proc' = [proc EXCEPT ![p].at = "failing", ![p].got = "failed"]
          /\ UNCHANGED <<conn, socket, reader, dropped>>
       \/ \E n \in Conn :
            /\ Unused(n)
            /\ conn' = n /\ dropped' = FALSE
            /\ reader' = [reader EXCEPT ![n].at = "reading"]
            /\ socket' = [socket EXCEPT ![n] = "open"]
            /\ proc' = [proc EXCEPT ![p].at = "challenge", ![p].conn = n]
            /\ UNCHANGED faults
    /\ UNCHANGED <<status, manual, suppress, armed, config, connectMu, pending, inbox,
                   token, unanswered>>

\* The challenge does not come in time or cannot be signed, or connect cannot be
\* written: its channel, in the map only during the write, is then read by nobody.
ChallengeFails(p) ==
    /\ proc[p].at = "challenge"
    /\ IF socket[proc[p].conn] = "closed" THEN UNCHANGED faults ELSE Fault
    /\ Close(proc[p].conn)
    /\ proc' = [proc EXCEPT ![p].at = "failing", ![p].got = "failed"]
    /\ UNCHANGED <<session, inbox, reader, token, unanswered, dropped>>

\* connect is sent on the attempt's own socket, with the token configured at this
\* moment, whether or not the session still has that socket.
SendConnect(p) ==
    /\ proc[p].at = "challenge"
    /\ socket[proc[p].conn] # "closed"
    /\ ~HoldsChannel(p)
    /\ pending' = pending \cup {p}
    /\ inbox' = [inbox EXCEPT ![p] = None]
    /\ unanswered' = unanswered \cup {p}
    /\ proc' = [proc EXCEPT ![p].at = "waiting", ![p].token = config]
    /\ UNCHANGED <<conn, status, manual, suppress, armed, config, connectMu, reader,
                   socket, token, faults, dropped>>

-----------------------------------------------------------------------------
(* requestRemoteOnConn *)

\* A request is refused when the session is not connected; its write fails on a
\* closed socket.
SendRequest(r) ==
    /\ proc[r].at = "idle"
    /\ conn # None /\ status = "connected"
    /\ socket[conn] # "closed"
    /\ ~HoldsChannel(r)
    /\ pending' = pending \cup {r}
    /\ inbox' = [inbox EXCEPT ![r] = None]
    /\ unanswered' = unanswered \cup {r}
    /\ proc' = [proc EXCEPT ![r].at = "waiting", ![r].conn = conn]
    /\ UNCHANGED <<conn, status, manual, suppress, armed, config, connectMu, reader,
                   socket, token, faults, dropped>>

\* Mutant: the map is emptied and nobody is told.
takePendingNone == {}

\* takePendingLocked: the channels whose owners are to be told.
takePending == pending

\* The select of the requester: a response, or the timer.
Await(x) ==
    /\ proc[x].at = "waiting"
    /\ \/ /\ inbox[x] # None
          /\ proc' = [proc EXCEPT ![x].at = "got", ![x].got = inbox[x], ![x].token = "none"]
          /\ inbox' = [inbox EXCEPT ![x] = None]
          /\ UNCHANGED faults
       \/ /\ Fault
          /\ proc' = [proc EXCEPT ![x].at = "got", ![x].got = "failed", ![x].token = "none"]
          /\ UNCHANGED inbox
    /\ pending' = pending \ {x}
    /\ unanswered' = unanswered \ {x}
    /\ UNCHANGED <<conn, status, manual, suppress, armed, config, connectMu, reader,
                   socket, token, dropped>>

\* resetConnAfterProtocolError: the socket that refused the request is given up,
\* unless it was replaced.  Nothing schedules a reconnect.
ResetConn(x) ==
    /\ proc[x].at = "got" /\ proc[x].got = "handshake"
    /\ IF conn = proc[x].conn
       THEN /\ conn' = None
            /\ status' = "error" /\ dropped' = TRUE
            /\ pending' = {}
            /\ proc' = [proc EXCEPT ![x].at = "telling", ![x].taken = takePending]
       ELSE /\ \E got \in {"failed", "denied"} : proc' = [proc EXCEPT ![x].got = got]
            /\ UNCHANGED <<conn, status, pending, dropped>>
    /\ UNCHANGED <<manual, suppress, armed, config, connectMu, inbox, reader, socket,
                   token, remote>>

closeFailed(x) ==
    IF x \in Attempter /\ proc[x].got # "ok" THEN Close(proc[x].conn) ELSE UNCHANGED socket

statusAfter(x) == IF x \in Attempter /\ proc[x].got = "ok" THEN "connected" ELSE status

\* The response of a request is in: a refusal suppresses reconnects whatever was
\* asked; a failed connect closes its socket.
Settle(x) ==
    LET ok == proc[x].got = "ok"
        failing == x \in Attempter /\ ~ok
    IN /\ proc[x].at = "got" /\ proc[x].got # "handshake"
       /\ suppress' = (suppress \/ proc[x].got \in {"denied", "mismatch"})
       /\ status' = statusAfter(x)
       /\ connectMu' = IF ok /\ connectMu = x THEN None ELSE connectMu
       /\ closeFailed(x)
       /\ proc' = [proc EXCEPT ![x] =
            CASE failing -> [@ EXCEPT !.at = "failing"]
              [] ok /\ x \in Caller -> [@ EXCEPT !.at = "saving", !.conn = None,
                                                    !.token = "good"]
              [] OTHER -> IdleProc]
       /\ UNCHANGED <<conn, manual, armed, config, pending, inbox, reader, token, remote,
                      dropped>>

-----------------------------------------------------------------------------
(* handleConnectFailure, scheduleReconnect *)

\* Mutant: a disconnect does not keep a failing attempt from trying again.
scheduleReconnectAfterManual == armed' = (armed \/ ~suppress)

scheduleReconnect == armed' = (armed \/ ~(manual \/ suppress))

\* Mutant: a failed attempt leaves the reconnect to the read loop.
AfterFailureNothing(p) == UNCHANGED <<suppress, armed>>

\* A refusal is final, any other failure is tried again.
AfterFailure(p) ==
    IF proc[p].got \in {"denied", "mismatch"}
    THEN suppress' = TRUE /\ UNCHANGED armed
    ELSE scheduleReconnect /\ UNCHANGED suppress

HandleConnectFailure(p) ==
    /\ proc[p].at = "failing"
    /\ AfterFailure(p)
    /\ GoTo(p, "marking")
    /\ UNCHANGED <<conn, status, manual, config, connectMu, pending, inbox, reader, socket,
                   token, remote, dropped>>

\* The snapshot is updated under mu taken anew, whatever another attempt has achieved
\* in between.
MarkFailed(p) ==
    /\ proc[p].at = "marking"
    /\ status' = "error"
    /\ connectMu' = IF connectMu = p THEN None ELSE connectMu
    /\ proc' = [proc EXCEPT ![p] =
         IF p \in Caller
         THEN [@ EXCEPT !.at = "refused", !.conn = None] ELSE IdleProc]
    /\ UNCHANGED <<conn, manual, suppress, armed, config, pending, inbox, reader, socket,
                   token, remote, dropped>>

TimerFires(t) ==
    /\ armed
    /\ proc[t].at = "idle"
    /\ armed' = FALSE
    /\ GoTo(t, "dialing")
    /\ UNCHANGED <<conn, status, manual, suppress, config, connectMu, pending, inbox,
                   reader, socket, token, remote, dropped>>

-----------------------------------------------------------------------------
(* disconnect *)

Disconnect(l) ==
    /\ proc[l].at = "idle"
    /\ Fault
    /\ manual' = TRUE /\ armed' = FALSE
    /\ conn' = None /\ pending' = {} /\ status' = "offline"
    /\ proc' = [proc EXCEPT ![l].at = "telling", ![l].conn = conn, ![l].taken = takePending]
    /\ UNCHANGED <<suppress, config, connectMu, inbox, reader, socket, token, unanswered,
                   dropped>>

\* Who took the channels tells their owners, one blocking send after the other;
\* then the socket is closed.
Tell(p) ==
    /\ proc[p].at = "telling"
    /\ \/ \E x \in proc[p].taken :
            /\ inbox[x] = None
            /\ inbox' = [inbox EXCEPT ![x] = "failed"]
            /\ proc' = [proc EXCEPT ![p].taken = @ \ {x}]
            /\ UNCHANGED socket
       \/ /\ proc[p].taken = {}
          /\ IF proc[p].conn = None THEN UNCHANGED socket ELSE Close(proc[p].conn)
          /\ \E got \in {"failed", "denied"} :
                proc' = [proc EXCEPT ![p] = IF p \in Leaver THEN IdleProc
                                            ELSE [@ EXCEPT !.at = "got", !.got = got]]
          /\ UNCHANGED inbox
    /\ UNCHANGED <<session, reader, token, remote, dropped>>

-----------------------------------------------------------------------------
(* readLoop, onConnLost *)

\* What the gateway may answer x on socket n; a token it has given up is never good.
Reply(n, x) ==
    IF x \in Request
    THEN IF socket[n] = "ready" THEN {"ok", "denied", "handshake"} ELSE {"handshake"}
    ELSE IF proc[x].token = "stale" THEN Answers \ {"ok"} ELSE Answers

\* The answer that takes no fault of the gateway.
Due(n, x) ==
    CASE x \in Attempter -> IF proc[x].token = "stale" THEN "mismatch" ELSE "ok"
      [] OTHER -> IF socket[n] = "ready" THEN "ok" ELSE "handshake"

\* A response is read and its channel looked up.
ReadResponse(n) ==
    /\ reader[n].at = "reading" /\ socket[n] # "closed"
    /\ \E x \in unanswered : \E got \in Reply(n, x) :
          /\ proc[x].conn = n
          /\ IF got = Due(n, x) THEN UNCHANGED faults ELSE Fault
          /\ unanswered' = unanswered \ {x}
          /\ socket' = IF x \in Attempter /\ got = "ok"
                       THEN [socket EXCEPT ![n] = "ready"] ELSE socket
          /\ reader' = IF x \in pending
                       THEN [reader EXCEPT ![n].at = "sending", ![n].to = x, ![n].got = got]
                       ELSE reader
    /\ UNCHANGED <<session, inbox, proc, token, dropped>>

Deliver(n) ==
    LET x == reader[n].to IN
    /\ reader[n].at = "sending"
    /\ inbox[x] = None
    /\ inbox' = [inbox EXCEPT ![x] = reader[n].got]
    /\ reader' = [reader EXCEPT ![n] = [EndedReader EXCEPT !.at = "reading"]]
    /\ UNCHANGED <<session, proc, socket, token, remote, dropped>>

\* onConnLost: the loss of the session's socket is everyone's loss.
ReadFails(n) ==
    /\ reader[n].at = "reading" /\ socket[n] = "closed"
    /\ IF conn = n
       THEN /\ conn' = None /\ pending' = {}
            /\ reader' = [reader EXCEPT ![n].taken = takePending,
                            ![n].at = IF manual \/ suppress THEN "dropping" ELSE "losing"]
       ELSE /\ reader' = [reader EXCEPT ![n] = EndedReader]
            /\ UNCHANGED <<conn, pending>>
    /\ UNCHANGED <<status, manual, suppress, armed, config, connectMu, inbox, proc,
                   socket, token, remote, dropped>>

TellLost(n) ==
    /\ reader[n].at \in {"dropping", "losing"}
    /\ \/ /\ \E x \in reader[n].taken :
               /\ inbox[x] = None
               /\ inbox' = [inbox EXCEPT ![x] = "failed"]
               /\ reader' = [reader EXCEPT ![n].taken = @ \ {x}]
          /\ UNCHANGED status
       \/ /\ reader[n].taken = {}
          /\ IF reader[n].at = "dropping"
             THEN reader' = [reader EXCEPT ![n] = EndedReader] /\ UNCHANGED status
             ELSE reader' = [reader EXCEPT ![n].at = "rescheduling"] /\ status' = "error"
          /\ UNCHANGED inbox
    /\ UNCHANGED <<conn, manual, suppress, armed, config, connectMu, pending, proc,
                   socket, token, remote, dropped>>

Reschedule(n) ==
    /\ reader[n].at = "rescheduling"
    /\ scheduleReconnect
    /\ reader' = [reader EXCEPT ![n] = EndedReader]
    /\ UNCHANGED <<conn, status, manual, suppress, config, connectMu, pending, inbox,
                   proc, socket, token, remote, dropped>>

-----------------------------------------------------------------------------
(* The gateway *)

RemoteClose(n) ==
    /\ socket[n] # "closed"
    /\ Fault
    /\ Close(n)
    /\ UNCHANGED <<session, inbox, proc, reader, token, unanswered, dropped>>

\* The device tokens issued so far are no longer accepted.
RotateToken ==
    LET Age(t) == IF t = "good" THEN "stale" ELSE t IN
    /\ Fault
    /\ token' = Age(token) /\ config' = Age(config)
    /\ proc' = [p \in Process |-> [proc[p] EXCEPT !.token = Age(@)]]
    /\ UNCHANGED <<conn, status, manual, suppress, armed, connectMu, pending, inbox,
                   reader, socket, unanswered, dropped>>

-----------------------------------------------------------------------------
RequestStep(x) == Await(x) \/ ResetConn(x) \/ Tell(x) \/ Settle(x)

AttemptStep(p) ==
    \/ Dial(p) \/ ChallengeFails(p) \/ SendConnect(p) \/ RequestStep(p)
    \/ HandleConnectFailure(p) \/ MarkFailed(p)

CallerStep(c) ==
    \/ Connect(c) \/ PublishConnecting(c) \/ AttemptStep(c)
    \/ RetryWithSharedToken(c) \/ SaveDeviceToken(c)

ReaderStep(n) ==
    ReadResponse(n) \/ Deliver(n) \/ ReadFails(n) \/ TellLost(n) \/ Reschedule(n)

GatewayNext ==
    \/ \E c \in Caller : EnsureConnected(c) \/ CallerStep(c)
    \/ \E t \in Timer : TimerFires(t) \/ AttemptStep(t)
    \/ \E r \in Request : SendRequest(r) \/ RequestStep(r)
    \/ \E l \in Leaver : Disconnect(l) \/ Tell(l)
    \/ \E n \in Conn : ReaderStep(n) \/ RemoteClose(n)
    \/ RotateToken

GatewaySpec == GatewayInit /\ [][GatewayNext]_gatewayVars

-----------------------------------------------------------------------------
(* Safety *)

\* Nothing is on its way that still changes the connection.  A read loop that is
\* blocked on the send of a response counts as on its way: it sees no loss until the
\* channel is read, and never does when the owner of the channel has gone.
Quiet ==
    /\ \A p \in Attempter \cup Leaver : proc[p].at \in {"idle", "locking", "refused", "saving"}
    /\ \A r \in Request : proc[r].at \in {"idle", "waiting"}
    /\ \A n \in Conn : reader[n].at \in {"ended", "reading"}

\* Who waits for a response is never forgotten: its channel is in the map, or
\* holds a response, or is held by a goroutine that is about to send one.
NoLostWaiter ==
    \A x \in Requester : proc[x].at = "waiting" =>
        x \in pending \/ inbox[x] # None \/ HoldsChannel(x)

\* A session that lost its connection is not stranded: unless it was disconnected,
\* refused or reset, its reconnect timer is running or it has a socket whose loss its
\* read loop will see, whatever attempts, losses and late failures overlapped.
NeverStranded ==
    Quiet /\ status # "offline" /\ ~manual /\ ~suppress /\ ~dropped =>
        armed \/ \E n \in Conn : conn = n /\ reader[n].at = "reading"

\* Once a client has disconnected, only a Connect starts another attempt.
DisconnectHolds ==
    [][\A t \in Timer : manual /\ manual' /\ proc[t].at = "idle" => proc'[t].at = "idle"]_gatewayVars
=============================================================================
