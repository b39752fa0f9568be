------------------------ MODULE GatewayRuntimeProofs ------------------------
(***************************************************************************)
(* Proofs about GatewayRuntime, for any number of callers, timers,         *)
(* requests, disconnecting clients and sockets.                            *)
(***************************************************************************)
EXTENDS GatewayRuntime, TLAPS

ProcType == [at : ProcSteps, conn : Conn \cup {None}, got : Answers \cup {None},
             taken : SUBSET Requester, token : Tokens, again : BOOLEAN]
ReaderType == [at : ReaderSteps, to : Requester \cup {None},
               got : Answers \cup {None}, taken : SUBSET Requester]

Procs == [Process -> ProcType]
Readers == [Conn -> ReaderType]

\* A goroutine and a read loop at rest are typed.
LEMMA RestingTypes == IdleProc \in ProcType /\ EndedReader \in ReaderType
BY DEF IdleProc, EndedReader, ProcType, ReaderType, ProcSteps, ReaderSteps, Tokens

\* Updates of single fields of a goroutine keep its type.
LEMMA ProcFields ==
    ASSUME NEW f \in Procs, NEW p \in Process
    PROVE  /\ \A a \in ProcSteps : [f EXCEPT ![p].at = a] \in Procs
           /\ \A n \in Conn \cup {None} : [f EXCEPT ![p].conn = n] \in Procs
           /\ \A g \in Answers \cup {None} : [f EXCEPT ![p].got = g] \in Procs
           /\ \A t \in SUBSET Requester : [f EXCEPT ![p].taken = t] \in Procs
           /\ \A k \in Tokens : [f EXCEPT ![p].token = k] \in Procs
           /\ \A v \in ProcType : [f EXCEPT ![p] = v] \in Procs
BY DEF ProcType, Procs

\* So do the combinations the actions make.
LEMMA ProcUpdates ==
    ASSUME NEW f \in Procs, NEW p \in Process
    PROVE  /\ \A a \in ProcSteps, n \in Conn \cup {None}, t \in SUBSET Requester :
                 [f EXCEPT ![p].at = a, ![p].conn = n, ![p].taken = t] \in Procs
           /\ \A a \in ProcSteps, n \in Conn \cup {None} :
                 [f EXCEPT ![p].at = a, ![p].conn = n] \in Procs
           /\ \A a \in ProcSteps, t \in SUBSET Requester :
                 [f EXCEPT ![p].at = a, ![p].taken = t] \in Procs
           /\ \A a \in ProcSteps, k \in Tokens :
                 [f EXCEPT ![p].at = a, ![p].token = k] \in Procs
           /\ \A a \in ProcSteps, g \in Answers \cup {None} :
                 [f EXCEPT ![p].at = a, ![p].got = g] \in Procs
           /\ \A a \in ProcSteps, g \in Answers \cup {None}, k \in Tokens :
                 [f EXCEPT ![p].at = a, ![p].got = g, ![p].token = k] \in Procs
BY ProcFields

\* Updates of a whole goroutine record.
LEMMA ProcRecords ==
    ASSUME NEW v \in ProcType
    PROVE  /\ [v EXCEPT !.at = "failing"] \in ProcType
           /\ [v EXCEPT !.at = "saving", !.conn = None, !.token = "good"] \in ProcType
           /\ [v EXCEPT !.at = "refused", !.conn = None] \in ProcType
           /\ \A g \in Answers : [v EXCEPT !.at = "got", !.got = g] \in ProcType
           /\ [v EXCEPT !.at = "locking", !.again = TRUE] \in ProcType
           /\ \A k \in Tokens : [v EXCEPT !.token = k] \in ProcType
BY DEF ProcType, ProcSteps, Tokens

\* Updates of a read loop.
LEMMA ReaderUpdates ==
    ASSUME NEW f \in Readers, NEW n \in Conn
    PROVE  /\ \A a \in ReaderSteps : [f EXCEPT ![n].at = a] \in Readers
           /\ \A t \in SUBSET Requester : [f EXCEPT ![n].taken = t] \in Readers
           /\ \A t \in SUBSET Requester, a \in ReaderSteps :
                 [f EXCEPT ![n].taken = t, ![n].at = a] \in Readers
           /\ \A a \in ReaderSteps, x \in Requester, g \in Answers :
                 [f EXCEPT ![n].at = a, ![n].to = x, ![n].got = g] \in Readers
           /\ \A v \in ReaderType : [f EXCEPT ![n] = v] \in Readers
BY DEF ReaderType, Readers

\* The fields the session keeps under mu, and what the Bridge keeps beside it.
SessionType ==
    /\ conn \in Conn \cup {None}
    /\ status \in {"offline", "connecting", "connected", "error"}
    /\ manual \in BOOLEAN /\ suppress \in BOOLEAN /\ armed \in BOOLEAN
    /\ config \in Tokens
    /\ connectMu \in Caller \cup {None}
    /\ pending \in SUBSET Requester
    /\ socket \in [Conn -> {"closed", "open", "ready"}]
    /\ token \in Tokens
    /\ faults \in 0..MaxFaults
    /\ dropped \in BOOLEAN

\* The goroutines and what they exchange.
GoroutineType ==
    /\ inbox \in [Requester -> Answers \cup {None}]
    /\ proc \in Procs
    /\ reader \in Readers
    /\ unanswered \in SUBSET Requester

LEMMA TypeParts == GatewayTypeOK <=> SessionType /\ GoroutineType
BY DEF GatewayTypeOK, SessionType, GoroutineType, ProcType, ReaderType, Procs, Readers

\* The steps of a caller outside its attempt.
CallerOutside(c) ==
    \/ EnsureConnected(c) \/ Connect(c) \/ PublishConnecting(c)
    \/ RetryWithSharedToken(c) \/ SaveDeviceToken(c)

\* Every step keeps the types of the session.
LEMMA SessionTypeStep ==
    ASSUME GatewayTypeOK, GatewayNext PROVE SessionType'
<1> USE GatewayAssumption
    DEF GatewayTypeOK, SessionType, session, remote, Attempter, Requester, Process,
        Fault, Close, Tokens
<1>1. ASSUME NEW c \in Caller, CallerOutside(c) PROVE SessionType'
  <2>1. CASE EnsureConnected(c)
    BY <2>1 DEF EnsureConnected
  <2>2. CASE Connect(c)
    BY <2>2 DEF Connect
  <2>3. CASE RetryWithSharedToken(c)
    BY <2>3 DEF RetryWithSharedToken
  <2>4. CASE SaveDeviceToken(c)
    BY <2>4, TypeParts DEF SaveDeviceToken, GoroutineType, Procs, ProcType
  <2>5. CASE PublishConnecting(c)
    BY <2>5 DEF PublishConnecting
  <2> QED
    BY <1>1, <2>1, <2>2, <2>3, <2>4, <2>5 DEF CallerOutside
<1>2. ASSUME NEW p \in Attempter, Dial(p) \/ ChallengeFails(p) \/ SendConnect(p)
      PROVE  SessionType'
  <2>1. CASE Dial(p)
    <3>1. /\ UNCHANGED conn \/ \E n \in Conn : conn' = n
          /\ UNCHANGED dropped \/ dropped' = FALSE
          /\ UNCHANGED socket \/ \E n \in Conn : socket' = [socket EXCEPT ![n] = "open"]
      BY <2>1 DEF Dial
    <3>2. /\ conn' \in Conn \cup {None} /\ dropped' \in BOOLEAN
          /\ socket' \in [Conn -> {"closed", "open", "ready"}]
      BY <3>1
    <3>3. faults' \in 0..MaxFaults
      BY <2>1 DEF Dial
    <3> QED
      BY <2>1, <3>2, <3>3 DEF Dial
  <2>2. CASE ChallengeFails(p)
    <3>1. faults' \in 0..MaxFaults
      BY <2>2 DEF ChallengeFails
    <3>2. \E n : socket' = [socket EXCEPT ![n] = "closed"]
      BY <2>2 DEF ChallengeFails
    <3>3. socket' \in [Conn -> {"closed", "open", "ready"}]
      BY <3>2
    <3> QED
      BY <2>2, <3>1, <3>3 DEF ChallengeFails
  <2>3. CASE SendConnect(p)
    BY <2>3 DEF SendConnect
  <2> QED
    BY <1>2, <2>1, <2>2, <2>3
<1>3. ASSUME NEW p \in Attempter, HandleConnectFailure(p) PROVE SessionType'
  BY <1>3 DEF HandleConnectFailure, AfterFailure, scheduleReconnect
<1>4. ASSUME NEW p \in Attempter, MarkFailed(p) PROVE SessionType'
  BY <1>4 DEF MarkFailed
<1>5. ASSUME NEW x \in Requester, Await(x) PROVE SessionType'
  BY <1>5 DEF Await
<1>6. ASSUME NEW x \in Requester, ResetConn(x) PROVE SessionType'
  BY <1>6 DEF ResetConn
<1>7. ASSUME NEW x \in Requester, Settle(x) PROVE SessionType'
  BY <1>7 DEF Settle, statusAfter, closeFailed
<1>8. ASSUME NEW p \in Process, Tell(p) PROVE SessionType'
  BY <1>8 DEF Tell
<1>9. ASSUME NEW t \in Timer, TimerFires(t) PROVE SessionType'
  BY <1>9 DEF TimerFires
<1>10. ASSUME NEW r \in Request, SendRequest(r) PROVE SessionType'
  BY <1>10 DEF SendRequest
<1>11. ASSUME NEW l \in Leaver, Disconnect(l) PROVE SessionType'
  <2>1. faults' \in 0..MaxFaults
    BY <1>11 DEF Disconnect
  <2> QED
    BY <1>11, <2>1 DEF Disconnect
<1>12. ASSUME NEW n \in Conn, ReadResponse(n) PROVE SessionType'
  BY <1>12 DEF ReadResponse
<1>13. ASSUME NEW n \in Conn, Deliver(n) \/ ReadFails(n) \/ TellLost(n) PROVE SessionType'
  BY <1>13 DEF Deliver, ReadFails, TellLost
<1>14. ASSUME NEW n \in Conn, Reschedule(n) PROVE SessionType'
  BY <1>14 DEF Reschedule, scheduleReconnect
<1>15. ASSUME NEW n \in Conn, RemoteClose(n) PROVE SessionType'
  BY <1>15 DEF RemoteClose
<1>16. CASE RotateToken
  BY <1>16 DEF RotateToken
<1> QED
  BY <1>1, <1>2, <1>3, <1>4, <1>5, <1>6, <1>7, <1>8, <1>9, <1>10, <1>11, <1>12,
     <1>13, <1>14, <1>15, <1>16
     DEF GatewayNext, CallerStep, CallerOutside, AttemptStep, RequestStep, ReaderStep

\* Every step keeps the types of the goroutines.
LEMMA GoroutineTypeStep ==
    ASSUME SessionType, GoroutineType, GatewayNext PROVE GoroutineType'
<1>a. /\ "idle" \in ProcSteps /\ "locking" \in ProcSteps /\ "configured" \in ProcSteps
      /\ "dialing" \in ProcSteps /\ "challenge" \in ProcSteps
      /\ "waiting" \in ProcSteps /\ "got" \in ProcSteps /\ "telling" \in ProcSteps
      /\ "failing" \in ProcSteps /\ "marking" \in ProcSteps
      /\ "none" \in Tokens /\ "good" \in Tokens
      /\ "failed" \in Answers /\ "denied" \in Answers
      /\ "reading" \in ReaderSteps /\ "sending" \in ReaderSteps
      /\ "dropping" \in ReaderSteps /\ "losing" \in ReaderSteps
      /\ "rescheduling" \in ReaderSteps
  BY DEF ProcSteps, Tokens, Answers, ReaderSteps
<1>b. /\ Caller \subseteq Attempter /\ Timer \subseteq Attempter
      /\ Attempter \subseteq Requester /\ Request \subseteq Requester
      /\ Requester \subseteq Process /\ Leaver \subseteq Process
  BY DEF Attempter, Requester, Process
<1>c. \A p \in Process : /\ proc[p] \in ProcType /\ proc[p].taken \in SUBSET Requester
                         /\ proc[p].conn \in Conn \cup {None}
  BY DEF GoroutineType, Procs, ProcType
<1>d. \A n \in Conn : /\ reader[n] \in ReaderType /\ reader[n].taken \in SUBSET Requester
                      /\ reader[n].got \in Answers \cup {None}
  BY DEF GoroutineType, Readers, ReaderType
<1> USE <1>a, <1>b, <1>c, <1>d DEF SessionType, GoroutineType, session, remote
<1>1. ASSUME NEW c \in Caller, CallerOutside(c) PROVE GoroutineType'
  <2>1. CASE EnsureConnected(c)
    BY <2>1, ProcUpdates DEF EnsureConnected
  <2>2. CASE Connect(c)
    <3>1. \/ proc' = [proc EXCEPT ![c] = IdleProc]
          \/ proc' = [proc EXCEPT ![c].at = "configured", ![c].token = "none"]
      BY <2>2 DEF Connect
    <3>2. /\ [proc EXCEPT ![c] = IdleProc] \in Procs
          /\ [proc EXCEPT ![c].at = "configured", ![c].token = "none"] \in Procs
      BY ProcUpdates, ProcFields, RestingTypes
    <3>3. proc' \in Procs
      BY <3>1, <3>2, Zenon
    <3> QED
      BY <2>2, <3>3 DEF Connect
  <2>3. CASE RetryWithSharedToken(c)
    <3>1. [IdleProc EXCEPT !.at = "locking", !.again = TRUE] \in ProcType
      BY ProcRecords, RestingTypes
    <3>2. \/ proc' = [proc EXCEPT ![c] = IdleProc]
          \/ proc' = [proc EXCEPT ![c] = [IdleProc EXCEPT !.at = "locking", !.again = TRUE]]
      BY <2>3 DEF RetryWithSharedToken
    <3>3. proc' \in Procs
      BY <3>1, <3>2, ProcFields, RestingTypes
    <3> QED
      BY <2>3, <3>3 DEF RetryWithSharedToken
  <2>4. CASE SaveDeviceToken(c)
    BY <2>4, ProcFields, RestingTypes DEF SaveDeviceToken
  <2>5. CASE PublishConnecting(c)
    BY <2>5, ProcFields DEF PublishConnecting, GoTo
  <2> QED
    BY <1>1, <2>1, <2>2, <2>3, <2>4, <2>5 DEF CallerOutside
<1>2. ASSUME NEW p \in Attempter, Dial(p) \/ ChallengeFails(p) \/ SendConnect(p)
      PROVE  GoroutineType'
  <2>1. \/ proc' = [proc EXCEPT ![p].at = "failing", ![p].got = "failed"]
        \/ \E n \in Conn : proc' = [proc EXCEPT ![p].at = "challenge", ![p].conn = n]
        \/ proc' = [proc EXCEPT ![p].at = "waiting", ![p].token = config]
    BY <1>2 DEF Dial, ChallengeFails, SendConnect
  <2>2. UNCHANGED reader \/ \E n \in Conn : reader' = [reader EXCEPT ![n].at = "reading"]
    BY <1>2 DEF Dial, ChallengeFails, SendConnect
  <2>3. /\ [proc EXCEPT ![p].at = "failing", ![p].got = "failed"] \in Procs
        /\ \A n \in Conn : [proc EXCEPT ![p].at = "challenge", ![p].conn = n] \in Procs
        /\ [proc EXCEPT ![p].at = "waiting", ![p].token = config] \in Procs
    BY ProcUpdates
  <2>4. \A n \in Conn : [reader EXCEPT ![n].at = "reading"] \in Readers
    BY ReaderUpdates
  <2>5. proc' \in Procs
    BY <2>1, <2>3, Zenon
  <2>6. reader' \in Readers
    BY <2>2, <2>4
  <2>7. /\ inbox' \in [Requester -> Answers \cup {None}]
        /\ unanswered' \in SUBSET Requester
    BY <1>2 DEF Dial, ChallengeFails, SendConnect
  <2> QED
    BY <2>5, <2>6, <2>7
<1>3. ASSUME NEW p \in Attempter, HandleConnectFailure(p) PROVE GoroutineType'
  BY <1>3, ProcFields DEF HandleConnectFailure, GoTo
<1>4. ASSUME NEW p \in Attempter, MarkFailed(p) PROVE GoroutineType'
  BY <1>4, ProcFields, ProcRecords, RestingTypes DEF MarkFailed
<1>5. ASSUME NEW x \in Requester, Await(x) PROVE GoroutineType'
  <2>1. \E g \in Answers \cup {None} :
           proc' = [proc EXCEPT ![x].at = "got", ![x].got = g, ![x].token = "none"]
    BY <1>5 DEF Await
  <2>2. \A g \in Answers \cup {None} :
           [proc EXCEPT ![x].at = "got", ![x].got = g, ![x].token = "none"] \in Procs
    BY ProcUpdates
  <2>3. proc' \in Procs
    BY <2>1, <2>2, Zenon
  <2> QED
    BY <1>5, <2>3 DEF Await
<1>6. ASSUME NEW x \in Requester, ResetConn(x) PROVE GoroutineType'
  <2>1. \/ proc' = [proc EXCEPT ![x].at = "telling", ![x].taken = pending]
        \/ \E g \in Answers : proc' = [proc EXCEPT ![x].got = g]
    BY <1>6 DEF ResetConn, takePending
  <2>2. /\ [proc EXCEPT ![x].at = "telling", ![x].taken = pending] \in Procs
        /\ \A g \in Answers : [proc EXCEPT ![x].got = g] \in Procs
    BY ProcUpdates, ProcFields
  <2>3. proc' \in Procs
    BY <2>1, <2>2, Zenon
  <2> QED
    BY <1>6, <2>3 DEF ResetConn
<1>7. ASSUME NEW x \in Requester, Settle(x) PROVE GoroutineType'
  <2>1. proc' \in Procs
    BY <1>7, ProcFields, ProcRecords, RestingTypes DEF Settle
  <2> QED
    BY <1>7, <2>1 DEF Settle
<1>8. ASSUME NEW p \in Process, Tell(p) PROVE GoroutineType'
  <2>1. proc' \in Procs
    <3>1. CASE \E x \in proc[p].taken : proc' = [proc EXCEPT ![p].taken = @ \ {x}]
      <4>1. PICK x : proc' = [proc EXCEPT ![p].taken = proc[p].taken \ {x}]
        BY <3>1
      <4>2. proc[p].taken \ {x} \in SUBSET Requester
        OBVIOUS
      <4> QED
        BY <4>1, <4>2, ProcFields
    <3>2. CASE \E g \in {"failed", "denied"} :
                  proc' = [proc EXCEPT ![p] = IF p \in Leaver THEN IdleProc
                                              ELSE [@ EXCEPT !.at = "got", !.got = g]]
      <4>1. PICK g \in {"failed", "denied"} :
               proc' = [proc EXCEPT ![p] = IF p \in Leaver THEN IdleProc
                                           ELSE [proc[p] EXCEPT !.at = "got", !.got = g]]
        BY <3>2
      <4>2. (IF p \in Leaver THEN IdleProc
             ELSE [proc[p] EXCEPT !.at = "got", !.got = g]) \in ProcType
        BY ProcRecords, RestingTypes
      <4> QED
        BY <4>1, <4>2, ProcFields
    <3> QED
      BY <1>8, <3>1, <3>2 DEF Tell
  <2>2. inbox' \in [Requester -> Answers \cup {None}]
    BY <1>8 DEF Tell
  <2> QED
    BY <1>8, <2>1, <2>2 DEF Tell
<1>9. ASSUME NEW t \in Timer, TimerFires(t) PROVE GoroutineType'
  BY <1>9, ProcFields DEF TimerFires, GoTo
<1>10. ASSUME NEW r \in Request, SendRequest(r) PROVE GoroutineType'
  <2>1. proc' \in Procs
    BY <1>10, ProcUpdates DEF SendRequest
  <2> QED
    BY <1>10, <2>1 DEF SendRequest
<1>11. ASSUME NEW l \in Leaver, Disconnect(l) PROVE GoroutineType'
  BY <1>11, ProcUpdates DEF Disconnect, takePending
<1>12. ASSUME NEW n \in Conn, ReadResponse(n) PROVE GoroutineType'
  <2>1. \A x \in Requester : Reply(n, x) \subseteq Answers
    BY DEF Reply, Answers
  <2>2. reader' \in Readers
    <3>1. \/ UNCHANGED reader
          \/ \E x \in unanswered : \E got \in Reply(n, x) :
                reader' = [reader EXCEPT ![n].at = "sending", ![n].to = x, ![n].got = got]
      BY <1>12 DEF ReadResponse
    <3>2. \A x \in unanswered : \A got \in Reply(n, x) :
             [reader EXCEPT ![n].at = "sending", ![n].to = x, ![n].got = got] \in Readers
      BY <2>1, ReaderUpdates
    <3>3. CASE UNCHANGED reader
      BY <3>3
    <3>4. ASSUME NEW x \in unanswered, NEW got \in Reply(n, x),
                 reader' = [reader EXCEPT ![n].at = "sending", ![n].to = x, ![n].got = got]
          PROVE  reader' \in Readers
      BY <3>2, <3>4, Zenon
    <3> QED
      BY <3>1, <3>3, <3>4
  <2> QED
    BY <1>12, <2>2 DEF ReadResponse
<1>13. ASSUME NEW n \in Conn, Deliver(n) PROVE GoroutineType'
  <2>1. [EndedReader EXCEPT !.at = "reading"] \in ReaderType
    BY DEF EndedReader, ReaderType
  <2> QED
    BY <1>13, <2>1, ReaderUpdates DEF Deliver
<1>14. ASSUME NEW n \in Conn, ReadFails(n) PROVE GoroutineType'
  <2>1. \/ reader' = [reader EXCEPT ![n] = EndedReader]
        \/ \E a \in {"dropping", "losing"} :
              reader' = [reader EXCEPT ![n].taken = pending, ![n].at = a]
    BY <1>14 DEF ReadFails, takePending
  <2>2. /\ [reader EXCEPT ![n] = EndedReader] \in Readers
        /\ \A a \in {"dropping", "losing"} :
              [reader EXCEPT ![n].taken = pending, ![n].at = a] \in Readers
    BY ReaderUpdates, RestingTypes
  <2>3. reader' \in Readers
    BY <2>1, <2>2, Zenon
  <2> QED
    BY <1>14, <2>3 DEF ReadFails
<1>15. ASSUME NEW n \in Conn, TellLost(n) PROVE GoroutineType'
  <2>1. reader' \in Readers
    <3>1. CASE \E x \in reader[n].taken : reader' = [reader EXCEPT ![n].taken = @ \ {x}]
      <4>1. PICK x : reader' = [reader EXCEPT ![n].taken = reader[n].taken \ {x}]
        BY <3>1
      <4>2. reader[n].taken \ {x} \in SUBSET Requester
        OBVIOUS
      <4> QED
        BY <4>1, <4>2, ReaderUpdates
    <3>2. CASE \/ reader' = [reader EXCEPT ![n] = EndedReader]
               \/ reader' = [reader EXCEPT ![n].at = "rescheduling"]
      <4>1. /\ [reader EXCEPT ![n] = EndedReader] \in Readers
            /\ [reader EXCEPT ![n].at = "rescheduling"] \in Readers
        BY ReaderUpdates, RestingTypes
      <4> QED
        BY <3>2, <4>1, Zenon
    <3> QED
      BY <1>15, <3>1, <3>2 DEF TellLost
  <2>2. inbox' \in [Requester -> Answers \cup {None}]
    BY <1>15 DEF TellLost
  <2> QED
    BY <1>15, <2>1, <2>2 DEF TellLost
<1>16. ASSUME NEW n \in Conn, Reschedule(n) \/ RemoteClose(n) PROVE GoroutineType'
  <2>1. [reader EXCEPT ![n] = EndedReader] \in Readers
    BY ReaderUpdates, RestingTypes
  <2>2. reader' \in Readers
    BY <1>16, <2>1 DEF Reschedule, RemoteClose
  <2> QED
    BY <1>16, <2>2 DEF Reschedule, RemoteClose
<1>17. CASE RotateToken
  <2>1. \A p \in Process : proc'[p] \in ProcType
    BY <1>17 DEF RotateToken, ProcType, Tokens
  <2>2. proc' \in Procs
    BY <1>17, <2>1 DEF RotateToken, Procs
  <2> QED
    BY <1>17, <2>2 DEF RotateToken
<1> QED
  BY <1>1, <1>2, <1>3, <1>4, <1>5, <1>6, <1>7, <1>8, <1>9, <1>10, <1>11, <1>12,
     <1>13, <1>14, <1>15, <1>16, <1>17
     DEF GatewayNext, CallerStep, CallerOutside, AttemptStep, RequestStep, ReaderStep

\* Every variable of a gateway session keeps its type, the records of the
\* goroutines and of the read loops included.
THEOREM GatewayTypes == GatewaySpec => []GatewayTypeOK
<1>1. GatewayInit => GatewayTypeOK
  <2> SUFFICES ASSUME GatewayInit PROVE SessionType /\ GoroutineType
    BY TypeParts
  <2>1. SessionType
    <3>1. faults \in 0..MaxFaults
      <4>1. faults = 0 \/ (faults = 1 /\ MaxFaults > 0)
        BY DEF GatewayInit
      <4> QED
        BY <4>1, GatewayAssumption
    <3>2. config \in Tokens /\ token \in Tokens
      BY DEF GatewayInit, Tokens
    <3>3. manual \in BOOLEAN /\ suppress \in BOOLEAN /\ armed \in BOOLEAN /\ dropped \in BOOLEAN
      BY DEF GatewayInit
    <3> QED
      BY <3>1, <3>2, <3>3 DEF GatewayInit, SessionType
  <2>2. GoroutineType
    BY RestingTypes DEF GatewayInit, GoroutineType, Procs, Readers
  <2> QED
    BY <2>1, <2>2
<1>2. GatewayTypeOK /\ [GatewayNext]_gatewayVars => GatewayTypeOK'
  <2> SUFFICES ASSUME GatewayTypeOK, [GatewayNext]_gatewayVars PROVE GatewayTypeOK'
    OBVIOUS
  <2>1. CASE UNCHANGED gatewayVars
    BY <2>1 DEF GatewayTypeOK, gatewayVars, session, remote
  <2>2. CASE GatewayNext
    <3>1. SessionType' /\ GoroutineType'
      BY <2>2, TypeParts, SessionTypeStep, GoroutineTypeStep
    <3> QED
      BY <3>1 DEF GatewayTypeOK, SessionType, GoroutineType, Procs, Readers,
                  ProcType, ReaderType
  <2> QED
    BY <2>1, <2>2
<1> QED
  BY <1>1, <1>2, PTL DEF GatewaySpec

-----------------------------------------------------------------------------
(***************************************************************************)
(* Waiters.  A channel leaves the map only into the hands of a goroutine   *)
(* that will send on it; that nobody drops a channel it has in hand needs  *)
(* the two invariants on who holds channels when.                          *)
(***************************************************************************)

\* Channels are in the hands of a goroutine only while it tells their owners.
TakenWhileTelling ==
    \A p \in Process : proc[p].taken # {} => proc[p].at = "telling"

\* A read loop holds the channel it sends a response on, and the channels of a
\* lost connection until their owners are told.
ReadersHold ==
    \A n \in Conn :
        /\ reader[n].at = "sending" => reader[n].to # None /\ reader[n].got # None
        /\ reader[n].to # None => reader[n].at = "sending"
        /\ reader[n].taken # {} => reader[n].at \in {"dropping", "losing"}

WaiterInv == TakenWhileTelling /\ ReadersHold /\ NoLostWaiter

\* Holding a channel, without the set of sets.
LEMMA HoldsChannelMeans ==
    ASSUME NEW x
    PROVE  /\ HoldsChannel(x) <=>
                \/ \E p \in Process : x \in proc[p].taken
                \/ \E n \in Conn : reader[n].to = x \/ x \in reader[n].taken
           /\ HoldsChannel(x)' <=>
                \/ \E p \in Process : x \in proc'[p].taken
                \/ \E n \in Conn : reader'[n].to = x \/ x \in reader'[n].taken
BY DEF HoldsChannel

\* A step that takes no channel out of the map, out of a hand or out of use, and
\* makes nobody wait.
LEMMA QuietWaiters ==
    ASSUME WaiterInv, UNCHANGED <<pending, inbox>>,
           \A p \in Process :
              /\ proc'[p].taken = proc[p].taken
              /\ proc'[p].at = proc[p].at \/ proc[p].at # "telling"
              /\ proc'[p].at = "waiting" => proc[p].at = "waiting",
           \A n \in Conn :
              \/ reader'[n] = reader[n]
              \/ /\ reader'[n].to = None /\ reader'[n].taken = {}
                 /\ reader'[n].at # "sending"
                 /\ reader[n].to = None /\ reader[n].taken = {}
    PROVE  WaiterInv'
<1>1. TakenWhileTelling'
  BY DEF WaiterInv, TakenWhileTelling
<1>2. ReadersHold'
  BY DEF WaiterInv, ReadersHold
<1>3. NoLostWaiter'
  <2> SUFFICES ASSUME NEW x \in Requester, proc'[x].at = "waiting"
               PROVE  x \in pending' \/ inbox'[x] # None \/ HoldsChannel(x)'
    BY DEF NoLostWaiter
  <2>1. proc[x].at = "waiting"
    BY DEF Requester, Process
  <2>2. x # None
    BY GatewayAssumption DEF Requester, Process
  <2>3. HoldsChannel(x) => HoldsChannel(x)'
    BY <2>2, HoldsChannelMeans
  <2> QED
    BY <2>1, <2>3 DEF WaiterInv, NoLostWaiter
<1> QED
  BY <1>1, <1>2, <1>3 DEF WaiterInv

\* A request puts its channel into the map before it waits for it.
LEMMA StartWaiting ==
    ASSUME GoroutineType, WaiterInv, NEW p \in Requester, proc[p].at # "telling",
           proc'[p].at = "waiting", proc'[p].taken = proc[p].taken,
           \A q \in Process : q # p => proc'[q] = proc[q],
           pending' = pending \cup {p}, inbox' = [inbox EXCEPT ![p] = None],
           UNCHANGED reader
    PROVE  WaiterInv'
<1>1. p \in Process /\ Requester \subseteq Process
  BY DEF Requester, Process
<1>2. /\ proc'[p].at = "waiting" /\ proc'[p].taken = proc[p].taken
      /\ \A q \in Process : q # p => proc'[q] = proc[q]
  OBVIOUS
<1>3. UNCHANGED reader
  OBVIOUS
<1>4. TakenWhileTelling'
  BY <1>1, <1>2 DEF WaiterInv, TakenWhileTelling
<1>5. ReadersHold'
  BY <1>3 DEF WaiterInv, ReadersHold
<1>6. NoLostWaiter'
  <2> SUFFICES ASSUME NEW x \in Requester, proc'[x].at = "waiting", x # p
               PROVE  x \in pending' \/ inbox'[x] # None \/ HoldsChannel(x)'
    BY DEF NoLostWaiter
  <2>1. proc[x].at = "waiting" /\ inbox'[x] = inbox[x]
    BY <1>1, <1>2 DEF GoroutineType
  <2>2. \A q \in Process : proc'[q].taken = proc[q].taken
    BY <1>2
  <2>3. HoldsChannel(x) => HoldsChannel(x)'
    BY <1>3, <2>2, HoldsChannelMeans
  <2> QED
    BY <2>1, <2>3 DEF WaiterInv, NoLostWaiter
<1> QED
  BY <1>4, <1>5, <1>6 DEF WaiterInv

\* Who empties the map has all of its channels in hand.
LEMMA TakeAllChannels ==
    ASSUME GoroutineType, WaiterInv, UNCHANGED <<inbox, reader>>, pending' = {},
           NEW p \in Process, proc[p].at # "telling",
           proc'[p].at = "telling", proc'[p].taken = pending,
           \A q \in Process : q # p => proc'[q] = proc[q]
    PROVE  WaiterInv'
<1>1. TakenWhileTelling' /\ ReadersHold'
  BY DEF WaiterInv, TakenWhileTelling, ReadersHold
<1>2. NoLostWaiter'
  <2> SUFFICES ASSUME NEW x \in Requester, proc'[x].at = "waiting"
               PROVE  inbox'[x] # None \/ HoldsChannel(x)'
    BY DEF NoLostWaiter
  <2>1. x \in Process /\ proc[x].at = "waiting"
    BY DEF Requester, Process
  <2>2. x \in pending => HoldsChannel(x)'
    BY HoldsChannelMeans
  <2>3. HoldsChannel(x) => HoldsChannel(x)'
    <3>1. proc[p].taken = {}
      BY DEF WaiterInv, TakenWhileTelling
    <3>2. \A q \in Process : x \in proc[q].taken => x \in proc'[q].taken
      BY <3>1
    <3> QED
      BY <3>2, HoldsChannelMeans
  <2> QED
    BY <2>1, <2>2, <2>3 DEF WaiterInv, NoLostWaiter
<1> QED
  BY <1>1, <1>2 DEF WaiterInv

\* Who tells the owners puts the answer in before the channel leaves its hand.
LEMMA TellWaiters ==
    ASSUME GatewayTypeOK, WaiterInv, NEW p \in Process, Tell(p)
    PROVE  WaiterInv'
<1>a. GoroutineType /\ Requester \subseteq Process /\ None \notin Answers
  BY TypeParts, GatewayAssumption DEF Requester, Process
<1>b. "failed" \in Answers
  BY DEF Answers
<1>1. proc[p].at = "telling" /\ UNCHANGED <<pending, reader>>
  BY DEF Tell, session
<1>2. ReadersHold'
  BY <1>1 DEF WaiterInv, ReadersHold
<1>3. ASSUME NEW x \in proc[p].taken, inbox' = [inbox EXCEPT ![x] = "failed"],
             proc' = [proc EXCEPT ![p].taken = @ \ {x}]
      PROVE  TakenWhileTelling' /\ NoLostWaiter'
  <2>1. /\ proc'[p].at = "telling" /\ proc'[p].taken = proc[p].taken \ {x}
        /\ \A q \in Process : q # p => proc'[q] = proc[q]
    BY <1>1, <1>3, <1>a DEF GoroutineType, Procs, ProcType
  <2>2. x \in Requester
    BY <1>a DEF GoroutineType, Procs, ProcType
  <2>3. inbox'[x] = "failed" /\ \A y \in Requester : y # x => inbox'[y] = inbox[y]
    BY <1>3, <2>2, <1>a DEF GoroutineType
  <2>4. TakenWhileTelling'
    BY <2>1 DEF WaiterInv, TakenWhileTelling
  <2>5. NoLostWaiter'
    <3> SUFFICES ASSUME NEW y \in Requester, proc'[y].at = "waiting"
                 PROVE  y \in pending' \/ inbox'[y] # None \/ HoldsChannel(y)'
      BY DEF NoLostWaiter
    <3>1. CASE y = x
      BY <3>1, <2>3, <1>a, <1>b
    <3>2. CASE y # x
      <4>1. proc[y].at = "waiting"
        BY <1>a, <2>1
      <4>2. \A q \in Process : y \in proc[q].taken => y \in proc'[q].taken
        BY <2>1, <3>2
      <4>3. HoldsChannel(y) => HoldsChannel(y)'
        BY <1>1, <4>2, HoldsChannelMeans
      <4> QED
        BY <1>1, <2>3, <3>2, <4>1, <4>3 DEF WaiterInv, NoLostWaiter
    <3> QED
      BY <3>1, <3>2
  <2> QED
    BY <2>4, <2>5
<1>4. ASSUME proc[p].taken = {}, UNCHANGED inbox, NEW got,
             proc' = [proc EXCEPT ![p] = IF p \in Leaver THEN IdleProc
                                         ELSE [@ EXCEPT !.at = "got", !.got = got]]
      PROVE  TakenWhileTelling' /\ NoLostWaiter'
  <2>1. \A q \in Process : q # p => proc'[q] = proc[q]
    BY <1>4, <1>a DEF GoroutineType, Procs
  <2>2. proc'[p] = IF p \in Leaver THEN IdleProc
                   ELSE [proc[p] EXCEPT !.at = "got", !.got = got]
    BY <1>4, <1>a DEF GoroutineType, Procs
  <2>3. proc[p] \in ProcType
    BY <1>a DEF GoroutineType, Procs
  <2>4. proc'[p].at \in {"idle", "got"} /\ proc'[p].taken = {}
    <3>1. IdleProc.at = "idle" /\ IdleProc.taken = {}
      BY DEF IdleProc
    <3>2. ASSUME NEW v \in ProcType
          PROVE  /\ [v EXCEPT !.at = "got", !.got = got].at = "got"
                 /\ [v EXCEPT !.at = "got", !.got = got].taken = v.taken
      BY DEF ProcType
    <3> QED
      BY <1>4, <2>2, <2>3, <3>1, <3>2
  <2>5. TakenWhileTelling'
    BY <2>1, <2>4 DEF WaiterInv, TakenWhileTelling
  <2>6. NoLostWaiter'
    <3> SUFFICES ASSUME NEW y \in Requester, proc'[y].at = "waiting"
                 PROVE  y \in pending' \/ inbox'[y] # None \/ HoldsChannel(y)'
      BY DEF NoLostWaiter
    <3>1. proc[y].at = "waiting"
      BY <1>a, <2>1, <2>4
    <3>2. \A q \in Process : proc'[q].taken = proc[q].taken
      BY <1>4, <2>1, <2>4
    <3>3. HoldsChannel(y) => HoldsChannel(y)'
      BY <1>1, <3>2, HoldsChannelMeans
    <3> QED
      BY <1>1, <1>4, <3>1, <3>3 DEF WaiterInv, NoLostWaiter
  <2> QED
    BY <2>5, <2>6
<1>5. TakenWhileTelling' /\ NoLostWaiter'
  BY <1>3, <1>4 DEF Tell
<1> QED
  BY <1>2, <1>5 DEF WaiterInv

\* The steps of a request, from the write to the answer.
LEMMA RequestWaiters ==
    ASSUME GatewayTypeOK, WaiterInv, NEW x \in Requester, RequestStep(x)
    PROVE  WaiterInv'
<1>a. GoroutineType /\ x \in Process /\ Requester \subseteq Process /\ None \notin Requester
  BY TypeParts, GatewayAssumption DEF Requester, Process
<1>b. proc[x].at # "telling" => proc[x].taken = {}
  BY <1>a DEF WaiterInv, TakenWhileTelling
<1>1. CASE Await(x)
  <2>1. /\ proc'[x].at = "got" /\ proc'[x].taken = proc[x].taken
        /\ \A q \in Process : q # x => proc'[q] = proc[q]
    BY <1>1, <1>a DEF Await, GoroutineType, Procs, ProcType
  <2>2. /\ proc[x].at = "waiting" /\ pending' = pending \ {x} /\ UNCHANGED reader
        /\ \A y \in Requester : y # x => inbox'[y] = inbox[y]
    BY <1>1, <1>a DEF Await, GoroutineType
  <2>3. TakenWhileTelling' /\ ReadersHold'
    BY <1>b, <2>1, <2>2 DEF WaiterInv, TakenWhileTelling, ReadersHold
  <2>4. NoLostWaiter'
    <3> SUFFICES ASSUME NEW y \in Requester, proc'[y].at = "waiting"
                 PROVE  y \in pending' \/ inbox'[y] # None \/ HoldsChannel(y)'
      BY DEF NoLostWaiter
    <3>1. y # x /\ proc[y].at = "waiting"
      BY <1>a, <2>1
    <3>2. HoldsChannel(y) => HoldsChannel(y)'
      BY <2>1, <2>2, HoldsChannelMeans
    <3> QED
      BY <2>2, <3>1, <3>2 DEF WaiterInv, NoLostWaiter
  <2> QED
    BY <2>3, <2>4 DEF WaiterInv
<1>2. CASE ResetConn(x)
  <2>1. CASE conn = proc[x].conn
    <3>1. /\ pending' = {} /\ proc[x].at = "got" /\ UNCHANGED <<inbox, reader>>
          /\ proc' = [proc EXCEPT ![x].at = "telling", ![x].taken = pending]
      BY <1>2, <2>1 DEF ResetConn, takePending
    <3>2. /\ proc'[x].at = "telling" /\ proc'[x].taken = pending
          /\ \A q \in Process : q # x => proc'[q] = proc[q]
      BY <3>1, <1>a DEF GoroutineType, Procs, ProcType
    <3> QED
      BY <1>a, <3>1, <3>2, TakeAllChannels
  <2>2. CASE conn # proc[x].conn
    <3>1. PICK got \in {"failed", "denied"} : proc' = [proc EXCEPT ![x].got = got]
      BY <1>2, <2>2 DEF ResetConn
    <3>2. /\ UNCHANGED <<pending, inbox, reader>>
          /\ \A q \in Process : proc'[q].at = proc[q].at /\ proc'[q].taken = proc[q].taken
      BY <1>2, <2>2, <3>1, <1>a DEF ResetConn, GoroutineType, Procs, ProcType
    <3> QED
      BY <3>2, QuietWaiters
  <2> QED
    BY <2>1, <2>2
<1>3. CASE Settle(x)
  <2>1. /\ proc[x].at = "got" /\ UNCHANGED <<pending, inbox, reader>>
        /\ \A q \in Process : q # x => proc'[q] = proc[q]
    BY <1>3 DEF Settle, GoroutineType, Procs, ProcType
  <2>2. \/ proc'[x] = IdleProc
        \/ proc'[x] = [proc[x] EXCEPT !.at = "failing"]
        \/ proc'[x] = [proc[x] EXCEPT !.at = "saving", !.conn = None, !.token = "good"]
    BY <1>3, <1>a DEF Settle, GoroutineType, Procs
  <2>3. proc'[x].at # "waiting" /\ proc'[x].taken = proc[x].taken
    <3>1. proc[x] \in ProcType /\ proc[x].taken = {}
      BY <1>a, <1>b, <2>1 DEF GoroutineType, Procs
    <3>2. IdleProc.at = "idle" /\ IdleProc.taken = {}
      BY DEF IdleProc
    <3>3. ASSUME NEW v \in ProcType
          PROVE  /\ [v EXCEPT !.at = "failing"].at = "failing"
                 /\ [v EXCEPT !.at = "failing"].taken = v.taken
                 /\ [v EXCEPT !.at = "saving", !.conn = None, !.token = "good"].at = "saving"
                 /\ [v EXCEPT !.at = "saving", !.conn = None, !.token = "good"].taken = v.taken
      BY DEF ProcType
    <3> QED
      BY <2>2, <3>1, <3>2, <3>3
  <2> QED
    BY <2>1, <2>3, QuietWaiters
<1>4. CASE Tell(x)
  BY <1>a, <1>4, TellWaiters
<1> QED
  BY <1>1, <1>2, <1>3, <1>4 DEF RequestStep

\* The steps of an attempt besides those of its request.
LEMMA AttemptWaiters ==
    ASSUME GatewayTypeOK, WaiterInv, NEW p \in Attempter,
           \/ Dial(p) \/ ChallengeFails(p) \/ SendConnect(p)
           \/ HandleConnectFailure(p) \/ MarkFailed(p)
    PROVE  WaiterInv'
<1>a. /\ GoroutineType /\ p \in Requester /\ p \in Process
  BY TypeParts DEF Attempter, Requester, Process
<1>b. proc[p].at # "telling" => proc[p].taken = {}
  BY <1>a DEF WaiterInv, TakenWhileTelling
<1>c. \A n \in Conn : reader[n].at = "ended" => reader[n].to = None /\ reader[n].taken = {}
  BY DEF WaiterInv, ReadersHold
<1>1. CASE Dial(p) \/ ChallengeFails(p)
  <2>1. /\ UNCHANGED <<pending, inbox>> /\ proc[p].at \in {"dialing", "challenge"}
        /\ \/ proc' = [proc EXCEPT ![p].at = "failing", ![p].got = "failed"]
           \/ \E n \in Conn : proc' = [proc EXCEPT ![p].at = "challenge", ![p].conn = n]
        /\ \/ UNCHANGED reader
           \/ \E n \in Conn : /\ reader[n].at = "ended"
                              /\ reader' = [reader EXCEPT ![n].at = "reading"]
    BY <1>1 DEF Dial, ChallengeFails, Unused, session
  <2>2. /\ \A q \in Process : /\ proc'[q].taken = proc[q].taken
                              /\ q # p => proc'[q].at = proc[q].at
        /\ proc'[p].at \in {"failing", "challenge"}
    BY <1>a, <2>1 DEF GoroutineType, Procs, ProcType
  <2>3. \A m \in Conn : \/ reader'[m] = reader[m]
                        \/ /\ reader'[m].to = reader[m].to
                           /\ reader'[m].taken = reader[m].taken
                           /\ reader'[m].at = "reading" /\ reader[m].at = "ended"
    BY <1>a, <2>1 DEF GoroutineType, Readers, ReaderType
  <2> QED
    BY <1>c, <2>1, <2>2, <2>3, QuietWaiters
<1>4. CASE SendConnect(p)
  <2>1. /\ proc[p].at = "challenge" /\ proc'[p].at = "waiting"
        /\ proc'[p].taken = proc[p].taken
        /\ \A q \in Process : q # p => proc'[q] = proc[q]
    BY <1>a, <1>4 DEF SendConnect, GoroutineType, Procs, ProcType
  <2>2. /\ pending' = pending \cup {p} /\ inbox' = [inbox EXCEPT ![p] = None]
        /\ UNCHANGED reader
    BY <1>4 DEF SendConnect
  <2> QED
    BY <1>a, <2>1, <2>2, StartWaiting
<1>2. CASE HandleConnectFailure(p)
  <2>1. /\ \A q \in Process : proc'[q].taken = proc[q].taken
        /\ \A q \in Process : q # p => proc'[q].at = proc[q].at
        /\ proc'[p].at = "marking" /\ proc[p].at = "failing"
        /\ UNCHANGED <<pending, inbox, reader>>
    BY <1>2, <1>a DEF HandleConnectFailure, GoTo, GoroutineType, Procs, ProcType
  <2> QED
    BY <2>1, QuietWaiters
<1>3. CASE MarkFailed(p)
  <2>1. /\ proc[p].at = "marking" /\ UNCHANGED <<pending, inbox, reader>>
        /\ \A q \in Process : q # p => proc'[q] = proc[q]
        /\ proc'[p] = IF p \in Caller THEN [proc[p] EXCEPT !.at = "refused", !.conn = None]
                      ELSE IdleProc
    BY <1>3, <1>a DEF MarkFailed, GoroutineType, Procs
  <2>2. proc'[p].at \in {"refused", "idle"} /\ proc'[p].taken = {}
    <3>1. IdleProc.at = "idle" /\ IdleProc.taken = {}
      BY DEF IdleProc
    <3>2. ASSUME NEW v \in ProcType
          PROVE  /\ [v EXCEPT !.at = "refused", !.conn = None].at = "refused"
                 /\ [v EXCEPT !.at = "refused", !.conn = None].taken = v.taken
      BY DEF ProcType
    <3>3. proc[p] \in ProcType /\ proc[p].taken = {}
      BY <1>a, <1>b, <2>1 DEF GoroutineType, Procs
    <3> QED
      BY <2>1, <3>1, <3>2, <3>3
  <2>3. proc[p].taken = {}
    BY <1>b, <2>1
  <2> QED
    BY <2>1, <2>2, <2>3, QuietWaiters
<1> QED
  BY <1>1, <1>2, <1>3, <1>4

\* The steps of a caller outside its attempt.
LEMMA CallerWaiters ==
    ASSUME GatewayTypeOK, WaiterInv, NEW c \in Caller, CallerOutside(c)
    PROVE  WaiterInv'
<1>a. GoroutineType /\ c \in Process
  BY TypeParts DEF Attempter, Requester, Process
<1>b. proc[c].at # "telling" => proc[c].taken = {}
  BY <1>a DEF WaiterInv, TakenWhileTelling
<1>c. /\ IdleProc.at = "idle" /\ IdleProc.taken = {}
      /\ [IdleProc EXCEPT !.at = "locking", !.again = TRUE].at = "locking"
      /\ [IdleProc EXCEPT !.at = "locking", !.again = TRUE].taken = {}
  BY DEF IdleProc
<1>1. /\ proc[c].at # "telling" /\ UNCHANGED <<pending, inbox, reader>>
      /\ \/ proc' = [proc EXCEPT ![c].at = "locking", ![c].token = token]
         \/ proc' = [proc EXCEPT ![c] = IdleProc]
         \/ proc' = [proc EXCEPT ![c].at = "configured", ![c].token = "none"]
         \/ proc' = [proc EXCEPT ![c].at = "dialing"]
         \/ proc' = [proc EXCEPT ![c] = [IdleProc EXCEPT !.at = "locking", !.again = TRUE]]
  BY DEF CallerOutside, EnsureConnected, Connect, PublishConnecting, GoTo,
         RetryWithSharedToken, SaveDeviceToken, session
<1>2. \A q \in Process : q # c => proc'[q] = proc[q]
  BY <1>1, <1>a DEF GoroutineType, Procs
<1>3. proc'[c].at # "waiting" /\ proc'[c].taken = proc[c].taken
  <2>1. CASE \/ proc' = [proc EXCEPT ![c].at = "locking", ![c].token = token]
             \/ proc' = [proc EXCEPT ![c].at = "configured", ![c].token = "none"]
             \/ proc' = [proc EXCEPT ![c].at = "dialing"]
    BY <1>a, <2>1 DEF GoroutineType, Procs, ProcType
  <2>2. CASE \/ proc' = [proc EXCEPT ![c] = IdleProc]
             \/ proc' = [proc EXCEPT ![c] = [IdleProc EXCEPT !.at = "locking", !.again = TRUE]]
    <3>1. \/ proc'[c] = IdleProc
          \/ proc'[c] = [IdleProc EXCEPT !.at = "locking", !.again = TRUE]
      BY <1>a, <2>2 DEF GoroutineType, Procs
    <3> QED
      BY <1>1, <1>b, <1>c, <3>1
  <2> QED
    BY <1>1, <2>1, <2>2
<1> QED
  BY <1>1, <1>2, <1>3, QuietWaiters

\* The steps of a read loop.
LEMMA ReaderWaiters ==
    ASSUME GatewayTypeOK, WaiterInv, NEW n \in Conn, ReaderStep(n) \/ RemoteClose(n)
    PROVE  WaiterInv'
<1>a. GoroutineType /\ Requester \subseteq Process /\ None \notin Requester \cup Answers
  BY TypeParts, GatewayAssumption DEF Requester, Process
<1>b. "failed" \in Answers
  BY DEF Answers
<1>1. CASE ReadResponse(n)
  <2>1. PICK x \in unanswered : \E got \in Reply(n, x) :
           reader' = IF x \in pending
                     THEN [reader EXCEPT ![n].at = "sending", ![n].to = x, ![n].got = got]
                     ELSE reader
    BY <1>1 DEF ReadResponse
  <2>2. PICK got \in Reply(n, x) :
           reader' = IF x \in pending
                     THEN [reader EXCEPT ![n].at = "sending", ![n].to = x, ![n].got = got]
                     ELSE reader
    BY <2>1
  <2>3. x \in Requester /\ got \in Answers
    BY <1>a DEF GoroutineType, Reply, Answers
  <2>4. /\ UNCHANGED <<pending, inbox, proc>>
        /\ reader[n].at = "reading" /\ reader[n].to = None /\ reader[n].taken = {}
    BY <1>1 DEF ReadResponse, session, WaiterInv, ReadersHold
  <2>5. CASE x \notin pending
    BY <2>2, <2>4, <2>5, QuietWaiters
  <2>6. CASE x \in pending
    <3>1. /\ reader'[n].at = "sending" /\ reader'[n].to = x /\ reader'[n].got = got
          /\ reader'[n].taken = {}
          /\ \A m \in Conn : m # n => reader'[m] = reader[m]
      BY <1>a, <2>2, <2>4, <2>6 DEF GoroutineType, Readers, ReaderType
    <3>2. TakenWhileTelling' /\ ReadersHold'
      BY <1>a, <2>3, <2>4, <3>1 DEF WaiterInv, TakenWhileTelling, ReadersHold
    <3>3. ASSUME NEW y \in Requester, HoldsChannel(y) PROVE HoldsChannel(y)'
      BY <1>a, <2>4, <3>1, <3>3, HoldsChannelMeans
    <3>4. NoLostWaiter'
      BY <2>4, <3>3 DEF WaiterInv, NoLostWaiter
    <3> QED
      BY <3>2, <3>4 DEF WaiterInv
  <2> QED
    BY <2>5, <2>6
<1>2. CASE Deliver(n)
  <2>1. /\ UNCHANGED <<pending, proc>> /\ reader[n].at = "sending"
        /\ inbox' = [inbox EXCEPT ![reader[n].to] = reader[n].got]
        /\ reader' = [reader EXCEPT ![n] = [EndedReader EXCEPT !.at = "reading"]]
    BY <1>2 DEF Deliver, session
  <2>2. /\ reader[n].to \in Requester /\ reader[n].got \in Answers
    BY <1>a, <2>1 DEF WaiterInv, ReadersHold, GoroutineType, Readers, ReaderType
  <2>3. /\ reader'[n].at = "reading" /\ reader'[n].to = None /\ reader'[n].taken = {}
        /\ \A m \in Conn : m # n => reader'[m] = reader[m]
    BY <1>a, <2>1 DEF GoroutineType, Readers, EndedReader
  <2>4. /\ inbox'[reader[n].to] = reader[n].got
        /\ \A y \in Requester : y # reader[n].to => inbox'[y] = inbox[y]
    BY <1>a, <2>1, <2>2 DEF GoroutineType
  <2>5. TakenWhileTelling' /\ ReadersHold'
    BY <2>1, <2>3 DEF WaiterInv, TakenWhileTelling, ReadersHold
  <2>6. NoLostWaiter'
    <3> SUFFICES ASSUME NEW y \in Requester, proc[y].at = "waiting"
                 PROVE  y \in pending' \/ inbox'[y] # None \/ HoldsChannel(y)'
      BY <2>1 DEF NoLostWaiter
    <3>1. CASE y = reader[n].to
      BY <1>a, <2>2, <2>4, <3>1
    <3>2. CASE y # reader[n].to
      <4>1. reader[n].taken = {}
        BY <2>1 DEF WaiterInv, ReadersHold
      <4>2. HoldsChannel(y) => HoldsChannel(y)'
        BY <2>1, <2>3, <3>2, <4>1, HoldsChannelMeans
      <4> QED
        BY <2>1, <2>4, <3>2, <4>2 DEF WaiterInv, NoLostWaiter
    <3> QED
      BY <3>1, <3>2
  <2> QED
    BY <2>5, <2>6 DEF WaiterInv
<1>3. CASE ReadFails(n)
  <2>1. /\ UNCHANGED <<inbox, proc>> /\ reader[n].at = "reading"
        /\ reader[n].to = None /\ reader[n].taken = {}
    BY <1>3 DEF ReadFails, WaiterInv, ReadersHold
  <2>2. CASE conn = n
    <3>1. pending' = {}
      BY <1>3, <2>2 DEF ReadFails
    <3>2. /\ reader'[n].at \in {"dropping", "losing"} /\ reader'[n].taken = pending
          /\ reader'[n].to = reader[n].to
          /\ \A m \in Conn : m # n => reader'[m] = reader[m]
      BY <1>3, <2>2, <1>a DEF ReadFails, takePending, GoroutineType, Readers, ReaderType
    <3>3. TakenWhileTelling' /\ ReadersHold'
      BY <2>1, <3>2 DEF WaiterInv, TakenWhileTelling, ReadersHold
    <3>4. NoLostWaiter'
      <4> SUFFICES ASSUME NEW y \in Requester, proc[y].at = "waiting"
                   PROVE  inbox'[y] # None \/ HoldsChannel(y)'
        BY <2>1 DEF NoLostWaiter
      <4>1. y \in pending => HoldsChannel(y)'
        BY <3>2, HoldsChannelMeans
      <4>2. HoldsChannel(y) => HoldsChannel(y)'
        BY <1>a, <2>1, <3>2, HoldsChannelMeans
      <4> QED
        BY <2>1, <4>1, <4>2 DEF WaiterInv, NoLostWaiter
    <3> QED
      BY <3>3, <3>4 DEF WaiterInv
  <2>3. CASE conn # n
    <3>1. /\ UNCHANGED pending /\ reader'[n] = EndedReader
          /\ \A m \in Conn : m # n => reader'[m] = reader[m]
      BY <1>3, <2>3, <1>a DEF ReadFails, GoroutineType, Readers
    <3>2. EndedReader.to = None /\ EndedReader.taken = {} /\ EndedReader.at = "ended"
      BY DEF EndedReader
    <3> QED
      BY <2>1, <3>1, <3>2, QuietWaiters
  <2> QED
    BY <2>2, <2>3
<1>4. CASE TellLost(n)
  <2>1. /\ UNCHANGED <<pending, proc>> /\ reader[n].at \in {"dropping", "losing"}
        /\ reader[n].to = None
    BY <1>4 DEF TellLost, WaiterInv, ReadersHold
  <2>2. ASSUME NEW x \in reader[n].taken, inbox' = [inbox EXCEPT ![x] = "failed"],
               reader' = [reader EXCEPT ![n].taken = @ \ {x}]
        PROVE  WaiterInv'
    <3>1. /\ reader'[n].at = reader[n].at /\ reader'[n].to = reader[n].to
          /\ reader'[n].taken = reader[n].taken \ {x}
          /\ \A m \in Conn : m # n => reader'[m] = reader[m]
      BY <1>a, <2>2 DEF GoroutineType, Readers, ReaderType
    <3>2. x \in Requester
      BY <1>a DEF GoroutineType, Readers, ReaderType
    <3>3. inbox'[x] = "failed" /\ \A y \in Requester : y # x => inbox'[y] = inbox[y]
      BY <1>a, <2>2, <3>2 DEF GoroutineType
    <3>4. TakenWhileTelling' /\ ReadersHold'
      BY <2>1, <3>1 DEF WaiterInv, TakenWhileTelling, ReadersHold
    <3>5. NoLostWaiter'
      <4> SUFFICES ASSUME NEW y \in Requester, proc[y].at = "waiting"
                   PROVE  y \in pending' \/ inbox'[y] # None \/ HoldsChannel(y)'
        BY <2>1 DEF NoLostWaiter
      <4>1. CASE y = x
        BY <1>a, <1>b, <3>3, <4>1
      <4>2. CASE y # x
        <5>1. HoldsChannel(y) => HoldsChannel(y)'
          BY <2>1, <3>1, <4>2, HoldsChannelMeans
        <5> QED
          BY <2>1, <3>3, <4>2, <5>1 DEF WaiterInv, NoLostWaiter
      <4> QED
        BY <4>1, <4>2
    <3> QED
      BY <3>4, <3>5 DEF WaiterInv
  <2>3. ASSUME reader[n].taken = {}, UNCHANGED inbox,
               \/ reader' = [reader EXCEPT ![n] = EndedReader]
               \/ reader' = [reader EXCEPT ![n].at = "rescheduling"]
        PROVE  WaiterInv'
    <3>1. /\ reader'[n].to = None /\ reader'[n].taken = {} /\ reader'[n].at # "sending"
          /\ \A m \in Conn : m # n => reader'[m] = reader[m]
      BY <1>a, <2>1, <2>3 DEF GoroutineType, Readers, ReaderType, EndedReader
    <3> QED
      BY <2>1, <2>3, <3>1, QuietWaiters
  <2> QED
    BY <1>4, <2>2, <2>3 DEF TellLost
<1>5. CASE Reschedule(n)
  <2>1. /\ UNCHANGED <<pending, inbox, proc>> /\ reader[n].to = None /\ reader[n].taken = {}
    BY <1>5 DEF Reschedule, WaiterInv, ReadersHold
  <2>2. /\ reader'[n] = EndedReader /\ \A m \in Conn : m # n => reader'[m] = reader[m]
    BY <1>5, <1>a DEF Reschedule, GoroutineType, Readers
  <2>3. EndedReader.to = None /\ EndedReader.taken = {} /\ EndedReader.at = "ended"
    BY DEF EndedReader
  <2> QED
    BY <2>1, <2>2, <2>3, QuietWaiters
<1>6. CASE RemoteClose(n)
  <2>1. UNCHANGED <<pending, inbox, proc, reader>>
    BY <1>6 DEF RemoteClose, session
  <2> QED
    BY <2>1, QuietWaiters
<1> QED
  BY <1>1, <1>2, <1>3, <1>4, <1>5, <1>6 DEF ReaderStep

\* Sending, disconnecting, the timer and the gateway's clock.
LEMMA OtherWaiters ==
    ASSUME GatewayTypeOK, WaiterInv,
           \/ \E t \in Timer : TimerFires(t)
           \/ \E r \in Request : SendRequest(r)
           \/ \E l \in Leaver : Disconnect(l)
           \/ RotateToken
    PROVE  WaiterInv'
<1>a. GoroutineType
  BY TypeParts
<1>1. ASSUME NEW t \in Timer, TimerFires(t) PROVE WaiterInv'
  <2>1. t \in Process
    BY DEF Attempter, Requester, Process
  <2>2. /\ UNCHANGED <<pending, inbox, reader>> /\ proc[t].at = "idle"
        /\ proc'[t].at = "dialing" /\ proc'[t].taken = proc[t].taken
        /\ \A q \in Process : q # t => proc'[q] = proc[q]
    BY <1>1, <1>a, <2>1 DEF TimerFires, GoTo, GoroutineType, Procs, ProcType
  <2> QED
    BY <2>2, QuietWaiters
<1>2. ASSUME NEW r \in Request, SendRequest(r) PROVE WaiterInv'
  <2>1. r \in Requester /\ r \in Process
    BY DEF Requester, Process
  <2>2. /\ proc[r].at = "idle" /\ proc'[r].at = "waiting" /\ proc'[r].taken = proc[r].taken
        /\ \A q \in Process : q # r => proc'[q] = proc[q]
    BY <1>2, <1>a, <2>1 DEF SendRequest, GoroutineType, Procs, ProcType
  <2> QED
    BY <1>2, <1>a, <2>1, <2>2, StartWaiting DEF SendRequest
<1>3. ASSUME NEW l \in Leaver, Disconnect(l) PROVE WaiterInv'
  <2>1. l \in Process
    BY DEF Process
  <2>2. /\ UNCHANGED <<inbox, reader>> /\ pending' = {} /\ proc[l].at = "idle"
        /\ proc'[l].at = "telling" /\ proc'[l].taken = pending
        /\ \A q \in Process : q # l => proc'[q] = proc[q]
    BY <1>3, <1>a, <2>1 DEF Disconnect, takePending, GoroutineType, Procs, ProcType
  <2> QED
    BY <1>a, <2>1, <2>2, TakeAllChannels
<1>4. CASE RotateToken
  <2>1. /\ UNCHANGED <<pending, inbox, reader>>
        /\ \A q \in Process : proc'[q].at = proc[q].at /\ proc'[q].taken = proc[q].taken
    BY <1>4, <1>a DEF RotateToken, GoroutineType, Procs, ProcType
  <2> QED
    BY <2>1, QuietWaiters
<1> QED
  BY <1>1, <1>2, <1>3, <1>4

\* Who waits for a response is never forgotten, however losses, resets,
\* disconnects and late responses overlap.
THEOREM WaitersAreKept == GatewaySpec => []NoLostWaiter
<1>1. GatewayInit => WaiterInv
  BY DEF GatewayInit, WaiterInv, TakenWhileTelling, ReadersHold, NoLostWaiter,
         IdleProc, EndedReader, Attempter, Requester, Process
<1>2. GatewayTypeOK /\ WaiterInv /\ [GatewayNext]_gatewayVars => WaiterInv'
  <2> SUFFICES ASSUME GatewayTypeOK, WaiterInv, [GatewayNext]_gatewayVars
               PROVE  WaiterInv'
    OBVIOUS
  <2>1. CASE UNCHANGED gatewayVars
    <3>1. UNCHANGED <<pending, inbox, proc, reader>>
      BY <2>1 DEF gatewayVars, session
    <3> QED
      BY <3>1, QuietWaiters
  <2>2. /\ Caller \subseteq Attempter /\ Timer \subseteq Attempter
        /\ Attempter \subseteq Requester /\ Request \subseteq Requester
        /\ Leaver \subseteq Process
    BY DEF Attempter, Requester, Process
  <2>3. CASE GatewayNext
    BY <2>2, <2>3, CallerWaiters, AttemptWaiters, RequestWaiters, ReaderWaiters,
       TellWaiters, OtherWaiters
       DEF GatewayNext, CallerStep, CallerOutside, AttemptStep
  <2> QED
    BY <2>1, <2>3
<1>3. WaiterInv => NoLostWaiter
  BY DEF WaiterInv
<1> QED
  BY <1>1, <1>2, <1>3, GatewayTypes, PTL DEF GatewaySpec

-----------------------------------------------------------------------------
(* Reconnecting *)

\* What a step by p leaves of the other goroutines, and its own step.
LEMMA OtherStepsStay ==
    ASSUME GatewayTypeOK, NEW p \in Process
    PROVE  /\ \A q \in Process : q # p =>
                 /\ Await(p) \/ ResetConn(p) \/ Settle(p) \/ Tell(p) => proc'[q] = proc[q]
                 /\ CallerOutside(p) => proc'[q] = proc[q]
                 /\ Dial(p) \/ ChallengeFails(p) \/ SendConnect(p)
                       \/ HandleConnectFailure(p) \/ MarkFailed(p) => proc'[q] = proc[q]
                 /\ TimerFires(p) \/ SendRequest(p) \/ Disconnect(p) => proc'[q] = proc[q]
           /\ RotateToken => \A q \in Process : proc'[q].at = proc[q].at
           /\ \A n \in Conn : ReaderStep(n) \/ RemoteClose(n) => UNCHANGED proc
<1> USE TypeParts DEF GoroutineType, Procs
<1>1. ASSUME NEW q \in Process, q # p, Await(p) \/ ResetConn(p) \/ Settle(p) \/ Tell(p)
      PROVE  proc'[q] = proc[q]
  <2>1. CASE Await(p)
    BY <1>1, <2>1 DEF Await
  <2>2. CASE ResetConn(p)
    BY <1>1, <2>2 DEF ResetConn
  <2>3. CASE Settle(p)
    BY <1>1, <2>3 DEF Settle
  <2>4. CASE Tell(p)
    BY <1>1, <2>4 DEF Tell
  <2> QED
    BY <1>1, <2>1, <2>2, <2>3, <2>4
<1>2. ASSUME NEW q \in Process, q # p, CallerOutside(p)
      PROVE  proc'[q] = proc[q]
  BY <1>2 DEF CallerOutside, EnsureConnected, Connect, PublishConnecting, GoTo,
              RetryWithSharedToken, SaveDeviceToken
<1>3. ASSUME NEW q \in Process, q # p,
             \/ Dial(p) \/ ChallengeFails(p) \/ SendConnect(p)
             \/ HandleConnectFailure(p) \/ MarkFailed(p)
      PROVE  proc'[q] = proc[q]
  BY <1>3 DEF Dial, ChallengeFails, SendConnect, HandleConnectFailure, GoTo, MarkFailed
<1>4. ASSUME NEW q \in Process, q # p, TimerFires(p) \/ SendRequest(p) \/ Disconnect(p)
      PROVE  proc'[q] = proc[q]
  BY <1>4 DEF TimerFires, GoTo, SendRequest, Disconnect
<1>5. ASSUME RotateToken, NEW q \in Process PROVE proc'[q].at = proc[q].at
  BY <1>5 DEF RotateToken, ProcType
<1>6. ASSUME NEW n \in Conn, ReaderStep(n) \/ RemoteClose(n) PROVE UNCHANGED proc
  BY <1>6 DEF ReaderStep, RemoteClose, ReadResponse, Deliver, ReadFails, TellLost, Reschedule
<1> QED
  BY <1>1, <1>2, <1>3, <1>4, <1>5, <1>6

\* A disconnected session has no timer running.
NoTimerAfterDisconnect == manual => ~armed

\* Only the running timer starts an idle timer goroutine.
LEMMA TimerStartsArmed ==
    ASSUME GatewayTypeOK, GatewayNext, NEW t \in Timer, proc[t].at = "idle"
    PROVE  armed \/ proc'[t].at = "idle"
<1> USE DEF Attempter, Requester, Process
<1>1. /\ t \notin Caller \cup Request \cup Leaver /\ t \in Process
      /\ Caller \subseteq Process /\ Request \subseteq Process /\ Leaver \subseteq Process
      /\ Timer \subseteq Process
  BY GatewayAssumption
<1>2. ASSUME NEW c \in Caller, EnsureConnected(c) \/ CallerStep(c) PROVE proc'[t].at = "idle"
  BY <1>1, <1>2, OtherStepsStay DEF CallerStep, CallerOutside, AttemptStep, RequestStep
<1>3. ASSUME NEW u \in Timer, TimerFires(u) \/ AttemptStep(u)
      PROVE  armed \/ proc'[t].at = "idle"
  <2>1. CASE u # t
    BY <1>1, <1>3, <2>1, OtherStepsStay DEF AttemptStep, RequestStep
  <2>2. CASE u = t
    <3>1. ~AttemptStep(t)
      BY DEF AttemptStep, RequestStep, Dial, ChallengeFails, SendConnect,
             HandleConnectFailure, MarkFailed, Await, ResetConn, Tell, Settle
    <3> QED
      BY <1>3, <2>2, <3>1 DEF TimerFires
  <2> QED
    BY <2>1, <2>2
<1>4. ASSUME NEW r \in Request, SendRequest(r) \/ RequestStep(r) PROVE proc'[t].at = "idle"
  BY <1>1, <1>4, OtherStepsStay DEF RequestStep
<1>5. ASSUME NEW l \in Leaver, Disconnect(l) \/ Tell(l) PROVE proc'[t].at = "idle"
  BY <1>1, <1>5, OtherStepsStay
<1>6. ASSUME NEW n \in Conn, ReaderStep(n) \/ RemoteClose(n) PROVE proc'[t].at = "idle"
  BY <1>1, <1>6, OtherStepsStay
<1>7. CASE RotateToken
  BY <1>1, <1>7, OtherStepsStay
<1> QED
  BY <1>2, <1>3, <1>4, <1>5, <1>6, <1>7 DEF GatewayNext

\* Disconnect stops the timer, and only a Connect lets one be started again.
LEMMA TimerStopsOnDisconnect ==
    ASSUME GatewayTypeOK, NoTimerAfterDisconnect, GatewayNext
    PROVE  NoTimerAfterDisconnect'
<1> USE DEF NoTimerAfterDisconnect, session
<1>1. ASSUME NEW c \in Caller, CallerOutside(c) PROVE NoTimerAfterDisconnect'
  BY <1>1 DEF CallerOutside, EnsureConnected, Connect, PublishConnecting,
              RetryWithSharedToken, SaveDeviceToken
<1>2. ASSUME NEW p \in Process,
             \/ Dial(p) \/ ChallengeFails(p) \/ SendConnect(p)
             \/ HandleConnectFailure(p) \/ MarkFailed(p) \/ RequestStep(p)
      PROVE  NoTimerAfterDisconnect'
  BY <1>2 DEF Dial, ChallengeFails, SendConnect, HandleConnectFailure, AfterFailure, scheduleReconnect,
              MarkFailed, RequestStep, Await, ResetConn, Tell, Settle
<1>3. ASSUME NEW p \in Process, TimerFires(p) \/ SendRequest(p) \/ Disconnect(p) \/ Tell(p)
      PROVE  NoTimerAfterDisconnect'
  BY <1>3 DEF TimerFires, SendRequest, Disconnect, Tell
<1>4. ASSUME NEW n \in Conn, ReaderStep(n) \/ RemoteClose(n) PROVE NoTimerAfterDisconnect'
  BY <1>4 DEF ReaderStep, RemoteClose, ReadResponse, Deliver, ReadFails, TellLost,
              Reschedule, scheduleReconnect
<1>5. CASE RotateToken
  BY <1>5 DEF RotateToken
<1> QED
  BY <1>1, <1>2, <1>3, <1>4, <1>5
     DEF GatewayNext, CallerStep, CallerOutside, AttemptStep, Attempter, Requester, Process

\* Once a client has disconnected, only a Connect starts another attempt.
THEOREM DisconnectIsFinal == GatewaySpec => DisconnectHolds
<1>1. GatewayInit => NoTimerAfterDisconnect
  BY DEF GatewayInit, NoTimerAfterDisconnect
<1>2. GatewayTypeOK /\ NoTimerAfterDisconnect /\ [GatewayNext]_gatewayVars
         => NoTimerAfterDisconnect'
  BY TimerStopsOnDisconnect DEF gatewayVars, session, NoTimerAfterDisconnect
<1>3. GatewayTypeOK /\ NoTimerAfterDisconnect /\ [GatewayNext]_gatewayVars
         => [\A t \in Timer : manual /\ manual' /\ proc[t].at = "idle"
                                 => proc'[t].at = "idle"]_gatewayVars
  BY TimerStartsArmed DEF NoTimerAfterDisconnect
<1> QED
  BY <1>1, <1>2, <1>3, GatewayTypes, PTL DEF GatewaySpec, DisconnectHolds

\* A session nobody has opened, or only a disconnect has touched since.
Pristine ==
    /\ status = "offline" /\ conn = None /\ ~armed
    /\ \A p \in Process : proc[p].at \in {"idle", "locking"}
    /\ \A n \in Conn : reader[n].at = "ended"

Attempting == \E p \in Attempter : proc[p].at \in {"configured", "dialing", "failing"}
Attached == \E n \in Conn : conn = n /\ reader[n].at \in {"reading", "sending"}
Losing == \E n \in Conn : reader[n].at \in {"losing", "rescheduling"}

\* Unless it was disconnected, refused or reset, a session that has been opened has
\* its timer running, an attempt on its way, a socket whose loss its read loop will
\* see, or a read loop that has seen it and will start the timer.
Reconnects ==
    ~manual /\ ~suppress /\ ~dropped =>
        Pristine \/ armed \/ Attempting \/ Attached \/ Losing

\* A goroutine beyond its attempt moves, and the connection is left as it is.
LEMMA BeyondAttempt ==
    ASSUME Reconnects, NEW p \in Process,
           proc[p].at \notin {"idle", "locking", "configured", "dialing", "failing"},
           \A q \in Process : q # p => proc'[q].at = proc[q].at,
           UNCHANGED <<conn, manual, armed, dropped, reader>>, suppress => suppress'
    PROVE  Reconnects'
<1> SUFFICES ASSUME ~manual, ~suppress, ~dropped
             PROVE  (armed \/ Attempting \/ Attached \/ Losing)'
  BY DEF Reconnects
<1>1. ~Pristine
  BY DEF Pristine
<1>2. Attempting => Attempting'
  BY DEF Attempting, Attempter, Requester, Process
<1>3. (Attached => Attached') /\ (Losing => Losing')
  BY DEF Attached, Losing
<1> QED
  BY <1>1, <1>2, <1>3 DEF Reconnects

\* Nothing that Reconnects speaks of moves, but for a caller that begins.
LEMMA NothingMoves ==
    ASSUME Reconnects,
           \A p \in Process : \/ proc'[p].at = proc[p].at
                              \/ {proc[p].at, proc'[p].at} \subseteq {"idle", "locking"},
           \A n \in Conn : reader'[n].at = reader[n].at,
           UNCHANGED <<conn, status, manual, suppress, armed, dropped>>
    PROVE  Reconnects'
<1>1. Pristine => Pristine'
  BY DEF Pristine
<1>2. Attempting => Attempting'
  BY DEF Attempting, Attempter, Requester, Process
<1>3. (Attached => Attached') /\ (Losing => Losing')
  BY DEF Attached, Losing
<1> QED
  BY <1>1, <1>2, <1>3 DEF Reconnects

\* The steps of a caller outside its attempt.
LEMMA CallerReconnects ==
    ASSUME GatewayTypeOK, Reconnects, NEW c \in Caller, CallerOutside(c)
    PROVE  Reconnects'
<1>a. GoroutineType /\ c \in Attempter /\ c \in Process
  BY TypeParts DEF Attempter, Requester, Process
<1>b. \A q \in Process : q # c => proc'[q] = proc[q]
  BY <1>a, OtherStepsStay
<1>1. CASE EnsureConnected(c)
  <2>1. /\ proc[c].at = "idle" /\ proc'[c].at = "locking"
        /\ UNCHANGED <<conn, status, manual, suppress, armed, dropped, reader>>
    BY <1>1, <1>a DEF EnsureConnected, session, GoroutineType, Procs, ProcType
  <2> QED
    BY <1>b, <2>1, NothingMoves
<1>2. CASE Connect(c)
  <2>1. CASE proc' = [proc EXCEPT ![c] = IdleProc] /\ UNCHANGED session
    <3>1. /\ proc[c].at = "locking" /\ proc'[c].at = "idle"
          /\ UNCHANGED <<conn, status, manual, suppress, armed, dropped, reader>>
      BY <1>2, <1>a, <2>1 DEF Connect, session, GoroutineType, Procs, IdleProc
    <3> QED
      BY <1>b, <3>1, NothingMoves
  <2>2. CASE proc' = [proc EXCEPT ![c].at = "configured", ![c].token = "none"]
    <3>1. proc'[c].at = "configured"
      BY <1>a, <2>2 DEF GoroutineType, Procs, ProcType
    <3> QED
      BY <1>a, <3>1 DEF Reconnects, Attempting
  <2> QED
    BY <1>2, <2>1, <2>2 DEF Connect
<1>3. CASE RetryWithSharedToken(c) \/ SaveDeviceToken(c)
  <2>1. /\ proc[c].at \in {"refused", "saving"}
        /\ UNCHANGED <<conn, manual, suppress, armed, dropped, reader>>
    BY <1>3 DEF RetryWithSharedToken, SaveDeviceToken, session
  <2> QED
    BY <1>a, <1>b, <2>1, BeyondAttempt
<1>4. CASE PublishConnecting(c)
  <2>1. proc'[c].at = "dialing"
    BY <1>4, <1>a DEF PublishConnecting, GoTo, GoroutineType, Procs, ProcType
  <2> QED
    BY <1>a, <2>1 DEF Reconnects, Attempting
<1> QED
  BY <1>1, <1>2, <1>3, <1>4 DEF CallerOutside

\* The steps of an attempt: it ends with the session attached, with the timer
\* running, or with the refusal that ends all attempts.
LEMMA AttemptReconnects ==
    ASSUME GatewayTypeOK, Reconnects, NEW p \in Attempter,
           \/ Dial(p) \/ ChallengeFails(p) \/ SendConnect(p)
           \/ HandleConnectFailure(p) \/ MarkFailed(p)
    PROVE  Reconnects'
<1>a. GoroutineType /\ p \in Process
  BY TypeParts DEF Requester, Process
<1>b. \A q \in Process : q # p => proc'[q] = proc[q]
  BY <1>a, OtherStepsStay
<1>1. CASE Dial(p) \/ ChallengeFails(p)
  <2>1. CASE proc' = [proc EXCEPT ![p].at = "failing", ![p].got = "failed"]
    <3>1. proc'[p].at = "failing"
      BY <1>a, <2>1 DEF GoroutineType, Procs, ProcType
    <3> QED
      BY <3>1 DEF Reconnects, Attempting
  <2>2. ASSUME NEW n \in Conn, conn' = n, reader' = [reader EXCEPT ![n].at = "reading"]
        PROVE  Reconnects'
    <3>1. reader'[n].at = "reading"
      BY <1>a, <2>2 DEF GoroutineType, Readers, ReaderType
    <3> QED
      BY <2>2, <3>1 DEF Reconnects, Attached
  <2> QED
    BY <1>1, <2>1, <2>2 DEF Dial, ChallengeFails
<1>4. CASE SendConnect(p)
  <2>1. /\ proc[p].at = "challenge"
        /\ UNCHANGED <<conn, manual, suppress, armed, dropped, reader>>
    BY <1>4 DEF SendConnect
  <2> QED
    BY <1>a, <1>b, <2>1, BeyondAttempt
<1>2. CASE HandleConnectFailure(p)
  <2>1. suppress' \/ armed' \/ manual' \/ suppress
    BY <1>2 DEF HandleConnectFailure, AfterFailure, scheduleReconnect
  <2>2. suppress => suppress'
    BY <1>2 DEF HandleConnectFailure, AfterFailure
  <2> QED
    BY <2>1, <2>2 DEF Reconnects
<1>3. CASE MarkFailed(p)
  <2>1. proc[p].at = "marking" /\ UNCHANGED <<conn, manual, suppress, armed, dropped, reader>>
    BY <1>3 DEF MarkFailed
  <2> QED
    BY <1>a, <1>b, <2>1, BeyondAttempt
<1> QED
  BY <1>1, <1>2, <1>3, <1>4

\* The steps of a request, of the timer and of a client that disconnects.
LEMMA RequestReconnects ==
    ASSUME GatewayTypeOK, Reconnects, NEW p \in Process,
           \/ RequestStep(p) \/ Tell(p)
           \/ (p \in Timer /\ TimerFires(p)) \/ SendRequest(p) \/ Disconnect(p)
    PROVE  Reconnects'
<1>a. GoroutineType
  BY TypeParts
<1>b. \A q \in Process : q # p => proc'[q] = proc[q]
  BY OtherStepsStay DEF RequestStep
<1>1. CASE Await(p) \/ Tell(p) \/ Settle(p)
  <2>1. /\ proc[p].at \in {"waiting", "got", "telling"}
        /\ UNCHANGED <<conn, manual, armed, dropped, reader>>
    BY <1>1 DEF Await, Tell, Settle, session
  <2>2. suppress => suppress'
    BY <1>1 DEF Await, Tell, Settle, session
  <2> QED
    BY <1>b, <2>1, <2>2, BeyondAttempt
<1>2. CASE ResetConn(p)
  <2>1. CASE dropped' = TRUE
    BY <2>1 DEF Reconnects
  <2>2. CASE UNCHANGED <<conn, status, pending, dropped>>
    <3>1. proc[p].at = "got" /\ UNCHANGED <<manual, suppress, armed, reader>>
      BY <1>2 DEF ResetConn
    <3> QED
      BY <1>b, <2>2, <3>1, BeyondAttempt
  <2> QED
    BY <1>2, <2>1, <2>2 DEF ResetConn
<1>3. CASE p \in Timer /\ TimerFires(p)
  <2>1. proc'[p].at = "dialing"
    BY <1>3, <1>a DEF TimerFires, GoTo, GoroutineType, Procs, ProcType
  <2> QED
    BY <1>3, <2>1 DEF Reconnects, Attempting, Attempter
<1>4. CASE SendRequest(p)
  <2>1. /\ proc[p].at = "idle" /\ proc'[p].at = "waiting" /\ conn # None
        /\ UNCHANGED <<conn, manual, suppress, armed, dropped, reader>>
    BY <1>4, <1>a DEF SendRequest, GoroutineType, Procs, ProcType
  <2>2. ~Pristine
    BY <2>1 DEF Pristine
  <2>3. Attempting => Attempting'
    BY <1>b, <2>1 DEF Attempting, Attempter, Requester, Process
  <2>4. (Attached => Attached') /\ (Losing => Losing')
    BY <2>1 DEF Attached, Losing
  <2> QED
    BY <2>1, <2>2, <2>3, <2>4 DEF Reconnects
<1>5. CASE Disconnect(p)
  BY <1>5 DEF Disconnect, Reconnects
<1> QED
  BY <1>1, <1>2, <1>3, <1>4, <1>5 DEF RequestStep

\* The steps of a read loop and of the gateway.
LEMMA ReaderReconnects ==
    ASSUME GatewayTypeOK, Reconnects, NEW n \in Conn, ReaderStep(n) \/ RemoteClose(n)
    PROVE  Reconnects'
<1>a. GoroutineType /\ conn \in Conn \cup {None} /\ None \notin Conn
  BY TypeParts, GatewayAssumption DEF SessionType
<1>b. UNCHANGED proc
  BY DEF ReaderStep, RemoteClose, ReadResponse, Deliver, ReadFails, TellLost, Reschedule
<1>c. Attempting => Attempting'
  BY <1>b DEF Attempting
<1>1. CASE ReadResponse(n) \/ Deliver(n)
  <2>1. /\ UNCHANGED <<conn, status, manual, suppress, armed, dropped>>
        /\ reader[n].at \in {"reading", "sending"}
    BY <1>1 DEF ReadResponse, Deliver, session
  <2>2. /\ reader'[n].at \in {"reading", "sending"}
        /\ \A m \in Conn : m # n => reader'[m] = reader[m]
    <3>1. CASE ReadResponse(n)
      <4>1. \/ UNCHANGED reader
            \/ \E x \in unanswered : \E got \in Reply(n, x) :
                 reader' = [reader EXCEPT ![n].at = "sending", ![n].to = x, ![n].got = got]
        BY <3>1 DEF ReadResponse
      <4>2. ASSUME NEW x, NEW got,
                   reader' = [reader EXCEPT ![n].at = "sending", ![n].to = x, ![n].got = got]
            PROVE  /\ reader'[n].at = "sending"
                   /\ \A m \in Conn : m # n => reader'[m] = reader[m]
        BY <1>a, <4>2 DEF GoroutineType, Readers, ReaderType
      <4> QED
        BY <2>1, <4>1, <4>2
    <3>2. CASE Deliver(n)
      BY <1>a, <3>2 DEF Deliver, EndedReader, GoroutineType, Readers
    <3> QED
      BY <1>1, <3>1, <3>2
  <2>3. ~Pristine
    BY <2>1 DEF Pristine
  <2>4. (Attached => Attached') /\ (Losing => Losing')
    BY <2>1, <2>2 DEF Attached, Losing
  <2> QED
    BY <1>c, <2>1, <2>3, <2>4 DEF Reconnects
<1>2. CASE ReadFails(n)
  <2>1. /\ reader[n].at = "reading" /\ UNCHANGED <<manual, suppress, armed, dropped>>
    BY <1>2 DEF ReadFails
  <2>2. CASE conn = n
    <3>1. ~manual /\ ~suppress => reader'[n].at = "losing"
      BY <1>2, <1>a, <2>2 DEF ReadFails, GoroutineType, Readers, ReaderType
    <3> QED
      BY <2>1, <3>1 DEF Reconnects, Losing
  <2>3. CASE conn # n
    <3>1. UNCHANGED conn /\ \A m \in Conn : m # n => reader'[m] = reader[m]
      BY <1>2, <1>a, <2>3 DEF ReadFails, GoroutineType, Readers
    <3>2. ~Pristine
      BY <2>1 DEF Pristine
    <3>3. (Attached => Attached') /\ (Losing => Losing')
      BY <2>1, <2>3, <3>1 DEF Attached, Losing
    <3> QED
      BY <1>c, <2>1, <3>2, <3>3 DEF Reconnects
  <2> QED
    BY <2>2, <2>3
<1>3. CASE TellLost(n)
  <2>1. /\ reader[n].at \in {"dropping", "losing"}
        /\ UNCHANGED <<conn, manual, suppress, armed, dropped>>
    BY <1>3 DEF TellLost
  <2>2. /\ \A m \in Conn : m # n => reader'[m] = reader[m]
        /\ reader[n].at = "losing" => reader'[n].at \in {"losing", "rescheduling"}
    BY <1>3, <1>a DEF TellLost, GoroutineType, Readers, ReaderType
  <2>3. ~Pristine
    BY <2>1 DEF Pristine
  <2>4. (Attached => Attached') /\ (Losing => Losing')
    BY <2>1, <2>2 DEF Attached, Losing
  <2> QED
    BY <1>c, <2>1, <2>3, <2>4 DEF Reconnects
<1>4. CASE Reschedule(n)
  BY <1>4 DEF Reschedule, scheduleReconnect, Reconnects
<1>5. CASE RemoteClose(n)
  <2>1. UNCHANGED <<conn, status, manual, suppress, armed, dropped, reader>>
    BY <1>5 DEF RemoteClose, session
  <2> QED
    BY <1>b, <2>1, NothingMoves
<1> QED
  BY <1>1, <1>2, <1>3, <1>4, <1>5 DEF ReaderStep

\* A session that lost its connection is not stranded, whatever attempts, losses
\* and late failures overlapped.
THEOREM SessionsReconnect == GatewaySpec => []NeverStranded
<1>1. GatewayInit => Reconnects
  BY DEF GatewayInit, Reconnects, Pristine, IdleProc, EndedReader
<1>2. GatewayTypeOK /\ Reconnects /\ [GatewayNext]_gatewayVars => Reconnects'
  <2> SUFFICES ASSUME GatewayTypeOK, Reconnects, [GatewayNext]_gatewayVars
               PROVE  Reconnects'
    OBVIOUS
  <2>1. CASE UNCHANGED gatewayVars
    <3>1. UNCHANGED <<conn, status, manual, suppress, armed, dropped, proc, reader>>
      BY <2>1 DEF gatewayVars, session
    <3> QED
      BY <3>1, NothingMoves
  <2>2. /\ Caller \subseteq Attempter /\ Timer \subseteq Attempter
        /\ Attempter \subseteq Process /\ Request \subseteq Process
        /\ Leaver \subseteq Process
    BY DEF Attempter, Requester, Process
  <2>3. CASE RotateToken
    <3>1. \A p \in Process : proc'[p].at = proc[p].at
      BY <2>3, TypeParts DEF RotateToken, GoroutineType, Procs, ProcType
    <3>2. UNCHANGED <<conn, status, manual, suppress, armed, dropped, reader>>
      BY <2>3 DEF RotateToken
    <3> QED
      BY <3>1, <3>2, NothingMoves
  <2>4. CASE GatewayNext
    BY <2>2, <2>3, <2>4, CallerReconnects, AttemptReconnects, RequestReconnects,
       ReaderReconnects DEF GatewayNext, CallerStep, CallerOutside, AttemptStep
  <2> QED
    BY <2>1, <2>4
<1>3. Reconnects => NeverStranded
  <2> SUFFICES ASSUME Reconnects, Quiet, status # "offline", ~manual, ~suppress, ~dropped
               PROVE  armed \/ \E n \in Conn : conn = n /\ reader[n].at = "reading"
    BY DEF NeverStranded
  <2>1. ~Pristine /\ ~Attempting /\ ~Losing
    BY DEF Quiet, Pristine, Attempting, Losing
  <2>2. Attached => \E n \in Conn : conn = n /\ reader[n].at = "reading"
    BY DEF Quiet, Attached
  <2> QED
    BY <2>1, <2>2 DEF Reconnects
<1> QED
  BY <1>1, <1>2, <1>3, GatewayTypes, PTL DEF GatewaySpec
=============================================================================
