---------------------------- MODULE StreamFrontEnd ----------------------------
(***************************************************************************)
(* handleRPCWithTransform (http_handler.go) and its safeSSEStream: one RPC *)
(* request over HTTP, answered as JSON or as a stream of events.  Three    *)
(* goroutines write to the stream: the handler, the keepalive ticker, and  *)
(* a gateway session that kept the handler's notify function, and calls it *)
(* even after the handler returned.  A write passes three points: before   *)
(* the mutex, with the mutex, and the write to the connection itself.      *)
(* handleRequest is modelled by what it does to the stream: it sends       *)
(* notifications and returns a result or an error.                         *)
(***************************************************************************)
EXTENDS Routing

CONSTANTS
    MaxKeys, \* bound: the keys a request gives a value
    MaxOut   \* bound: events on the stream after which no tick or notification starts

ASSUME StreamAssumption == MaxKeys \in Nat /\ MaxOut \in Nat

VARIABLES
    rpc,    \* the request: endpoint, method, id, the form of the answer that it
            \* accepts, task (whose it is guessed to be), route
    step,   \* where the handler is
    stream, \* safeSSEStream.closed
    reqCtx, \* the context of the request
    mutex,  \* the holder of safeSSEStream.mu, or "none"
    writer, \* per goroutine the write it is in
    ticker, \* the keepalive goroutine: off, on, stopping or ended
    out,    \* the events written
    failed, \* writes that failed or panicked
    stray   \* writes to the ResponseWriter after the handler returned

streamVars == <<rpc, step, stream, reqCtx, mutex, writer, ticker, out, failed, stray>>

Goroutine == {"handler", "keepalive", "session"}
Notification == {"update", "raw", "oversized"}
Event == (Notification \ {"oversized"}) \cup {"accepted", "keepalive", "answer", "done"}
RPCMethods == {"session.start", "xworkmate.gateway.request", "other"}
Idle == [at |-> "idle", event |-> "none"]
NoRequest ==
    [endpoint |-> "none", method |-> "none", id |-> "none", accept |-> "json", task |-> "other",
     route |-> Unresolved("none")]

StreamInit ==
    /\ rpc = NoRequest /\ step = "new" /\ ticker = "off"
    /\ stream = "open" /\ reqCtx = "live" /\ failed = 0
    /\ mutex = "none" /\ stray = 0 /\ out = <<>>
    /\ writer = [g \in Goroutine |-> Idle]

BeginWrite(g, event) == writer' = [writer EXCEPT ![g] = [at |-> "check", event |-> event]]
EndWrite(g) == writer' = [writer EXCEPT ![g] = Idle]
Writing(g) == writer[g].at # "idle"
Streaming == rpc.accept = "events"

\* A request is refused before anything is streamed: CORS preflight, method,
\* origin, body, authorization, JSON, a conflict on /gateway/openclaw; or
\* another node answers it.
RefuseRequest ==
    /\ step = "new"
    /\ step' = "returned"
    /\ UNCHANGED <<rpc, stream, reqCtx, mutex, writer, ticker, out, failed, stray>>

\* The route is what handleRequest will resolve from these params.
AcceptRequest ==
    /\ step = "new"
    /\ \E p0 \in ParamsWith(MaxKeys), method \in RPCMethods, id \in {"none", "given"},
          endpoint \in {"/acp/rpc", "/gateway/openclaw"}, accept \in {"json", "events"} :
          LET p == IF endpoint = "/gateway/openclaw" THEN forceOpenClawGatewayRequest(p0) ELSE p0
              task == IF requestUsesOpenClawGatewaySubmit(p) THEN "openclaw" ELSE "other"
          IN  /\ endpoint = "/gateway/openclaw" =>
                    method = "session.start" /\ ~ConflictsWithOpenClaw(p0)
              /\ \E route \in IF method = "session.start" THEN {Resolve(p, w) : w \in World}
                               ELSE {Unresolved("none")} :
                    rpc' = [endpoint |-> endpoint, method |-> method, id |-> id,
                            accept |-> accept, task |-> task, route |-> route]
              /\ IF accept = "events" /\ task = "openclaw"
                 THEN BeginWrite("handler", "accepted") ELSE UNCHANGED writer
    /\ step' = "accepted"
    /\ UNCHANGED <<stream, reqCtx, mutex, ticker, out, failed, stray>>

\* Once "accepted" is written, or its write refused, the ticker is started.
StartKeepalive ==
    /\ step = "accepted" /\ ~Writing("handler")
    /\ ticker' = IF Streaming THEN "on" ELSE "off"
    /\ step' = "handling"
    /\ UNCHANGED <<rpc, stream, reqCtx, mutex, writer, out, failed, stray>>

\* gatewaySSEBridgeNotificationDropReason # "none".
Dropped(n) ==
    \/ n = "oversized"
    \/ n = "raw" /\ (rpc.task = "openclaw" \/ rpc.method = "xworkmate.gateway.request")

\* notify, from the handler or, also when it has returned, from the session.
WriteNotification(g, n) ==
    /\ g = "handler" => step = "handling"
    /\ g = "session" => step \notin {"new", "accepted"} /\ rpc # NoRequest
    /\ g \in {"handler", "session"} /\ ~Writing(g)
    /\ Streaming /\ ~Dropped(n)
    /\ Len(out) < MaxOut
    /\ BeginWrite(g, n)
    /\ UNCHANGED <<rpc, step, stream, reqCtx, mutex, ticker, out, failed, stray>>

\* The select of the ticker: a tick may win against a closed done channel.
Keepalive ==
    /\ ticker \in {"on", "stopping"} /\ ~Writing("keepalive")
    /\ \/ Len(out) < MaxOut /\ BeginWrite("keepalive", "keepalive") /\ UNCHANGED ticker
       \/ ticker = "stopping" /\ ticker' = "ended" /\ UNCHANGED writer
    /\ UNCHANGED <<rpc, step, stream, reqCtx, mutex, out, failed, stray>>

\* handleRequest, to which the route is local, returned: the ticker is told to
\* stop, not waited for.  A request without id has no answer; without a stream
\* the answer is JSON.
HandlerReturns ==
    /\ step = "handling" /\ ~Writing("handler")
    /\ rpc' = [rpc EXCEPT !.route = Unresolved("none")]
    /\ ticker' = IF ticker = "on" THEN "stopping" ELSE ticker
    /\ \/ /\ Streaming
          /\ step' = IF rpc.id = "given" THEN "answering" ELSE "finishing"
          /\ BeginWrite("handler", IF rpc.id = "given" THEN "answer" ELSE "done")
          /\ UNCHANGED out
       \/ /\ ~Streaming
          /\ step' = "closing"
          /\ out' = IF rpc.id = "given" THEN Append(out, "answer") ELSE out
          /\ UNCHANGED writer
    /\ UNCHANGED <<stream, reqCtx, mutex, failed, stray>>

WriteDone ==
    /\ step = "answering" /\ ~Writing("handler")
    /\ step' = "finishing" /\ BeginWrite("handler", "done")
    /\ UNCHANGED <<rpc, stream, reqCtx, mutex, ticker, out, failed, stray>>

\* The deferred close() sets the flag without the mutex.
CloseStream ==
    /\ \/ step = "closing"
       \/ step = "finishing" /\ ~Writing("handler")
    /\ step' = "returned" /\ stream' = "closed"
    /\ UNCHANGED <<rpc, reqCtx, mutex, writer, ticker, out, failed, stray>>

---------------------------------------------------------------------------
(* writeRaw *)

\* A write that is refused ends the keepalive goroutine.
Refused(g) ==
    /\ EndWrite(g)
    /\ ticker' = IF g = "keepalive" THEN "ended" ELSE ticker

CheckStream(g) ==
    /\ writer[g].at = "check"
    /\ IF stream = "closed" \/ reqCtx = "done"
       THEN Refused(g) /\ stream' = "closed"
       ELSE writer' = [writer EXCEPT ![g].at = "lock"] /\ UNCHANGED <<stream, ticker>>
    /\ UNCHANGED <<rpc, step, reqCtx, mutex, out, failed, stray>>

\* Mutant: closed is not read again with the mutex.
LockWithoutRecheck(g) ==
    /\ writer[g].at = "lock" /\ mutex = "none"
    /\ mutex' = g /\ writer' = [writer EXCEPT ![g].at = "write"]
    /\ UNCHANGED <<ticker, rpc, step, stream, reqCtx, out, failed, stray>>

LockStream(g) ==
    /\ writer[g].at = "lock" /\ mutex = "none"
    /\ IF stream = "closed"
       THEN Refused(g) /\ UNCHANGED mutex
       ELSE mutex' = g /\ writer' = [writer EXCEPT ![g].at = "write"] /\ UNCHANGED ticker
    /\ UNCHANGED <<rpc, step, stream, reqCtx, out, failed, stray>>

\* Mutant: a failed write leaves the stream open.
FailedWriteIgnored(g) ==
    /\ writer[g].at = "write" /\ mutex = g
    /\ mutex' = "none"
    /\ \/ out' = Append(out, writer[g].event) /\ EndWrite(g) /\ UNCHANGED <<failed, ticker>>
       \/ failed' = failed + 1 /\ Refused(g) /\ UNCHANGED out
    /\ stray' = IF step = "returned" THEN stray + 1 ELSE stray
    /\ UNCHANGED <<rpc, step, stream, reqCtx>>

\* The write can fail or panic at any time; then the stream is closed.
WriteStream(g) ==
    /\ writer[g].at = "write" /\ mutex = g
    /\ mutex' = "none"
    /\ \/ out' = Append(out, writer[g].event) /\ EndWrite(g) /\ UNCHANGED <<stream, failed, ticker>>
       \/ stream' = "closed" /\ failed' = failed + 1 /\ Refused(g) /\ UNCHANGED out
    /\ stray' = IF step = "returned" THEN stray + 1 ELSE stray
    /\ UNCHANGED <<rpc, step, reqCtx>>

\* The client disconnects, or the server cancels the context after the return.
ClientGone ==
    /\ step # "new" /\ reqCtx = "live" /\ reqCtx' = "done"
    /\ UNCHANGED <<rpc, step, stream, mutex, writer, ticker, out, failed, stray>>

StreamNext ==
    \/ RefuseRequest \/ AcceptRequest \/ StartKeepalive \/ Keepalive
    \/ HandlerReturns \/ WriteDone \/ CloseStream \/ ClientGone
    \/ \E g \in Goroutine :
          \/ CheckStream(g) \/ LockStream(g) \/ WriteStream(g)
          \/ \E n \in Notification : WriteNotification(g, n)

StreamSpec == StreamInit /\ [][StreamNext]_streamVars

---------------------------------------------------------------------------
(* Properties *)

\* The types; the mutex is held by the goroutine that writes, and by no other;
\* nothing oversized is written.
StreamTypeOK ==
    /\ step \in {"new", "accepted", "handling", "answering", "finishing", "closing", "returned"}
    /\ stream \in {"open", "closed"} /\ reqCtx \in {"live", "done"}
    /\ failed \in Nat /\ stray \in Nat
    /\ mutex \in Goroutine \cup {"none"}
    /\ ticker \in {"off", "on", "stopping", "ended"}
    /\ \A g \in Goroutine :
          /\ writer[g].at \in {"idle", "check", "lock", "write"}
          /\ mutex = g <=> writer[g].at = "write"
    /\ out \in Seq(Event)

\* A client that reads [DONE] has read the answer before it: the answer is
\* not lost to a failed or refused write whose successor gets through.
DoneFollowsAnswer ==
    \A i \in DOMAIN out :
       out[i] = "done" /\ rpc.id = "given" => \E j \in 1..(i - 1) : out[j] = "answer"

\* After the handler returned at most one more write touches the
\* ResponseWriter, the one that held the mutex when close() was called;
\* keepalives and notifications that come or wait later write nothing.
OneStrayWrite == stray <= 1

\* Whatever keys a request sent there carries, what is resolved for it is the
\* OpenClaw gateway, also where the environment prefers another router; only
\* role routing is answered as unavailable.
EndpointRunsOnOpenClaw ==
    rpc.endpoint = "/gateway/openclaw" /\ step \in {"accepted", "handling"} =>
       \/ rpc.route.status = "unavailable" /\ rpc.route.target = ""
       \/ rpc.route.target = "gateway" /\ rpc.route.gateway = "openclaw"

\* A failed write is the last thing on a stream: no goroutine continues an
\* event stream that has a hole.
NothingAfterFailure == [][failed > 0 => out' = out]_streamVars
=============================================================================
