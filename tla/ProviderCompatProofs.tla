------------------------- MODULE ProviderCompatProofs -------------------------
(***************************************************************************)
(* Proofs about ProviderCompat, for any number of turns, sessions, threads *)
(* and every kind of provider.                                             *)
(***************************************************************************)
EXTENDS ProviderCompat, TLAPS

MsgType == [m : {"thread", "error", "answer", "progress", "permission", "completed"},
            of : Turn, on : Turn \cup {None}, named : BOOLEAN]
Outcomes == {"none", "result", "empty", "error", "mock", "unavailable"}
Working == {"idle", "working", "asks", "approved", "running", "finished", "failed", "hung"}
TurnType ==
    [pc : {"idle", "begun", "ready", "call", "ended", "done"},
     method : {"session.start", "session.message"}, sid : Id, thr : Id, rec : Turn \cup {None},
     ctx : {"live", "done"}, step : {"none", "thread", "turn"}, thread : Turn \cup {None},
     sock : BOOLEAN, pending : {"no", "named", "unnamed"}, inbox : Seq(MsgType),
     outcome : Outcomes, by : MsgType \cup {NoMsg}]

-----------------------------------------------------------------------------
(* The turns and what the provider does for them *)

\* The messages that end a turn with a result.
Final(t, msg) == msg.m = "answer" \/ (msg.m = "completed" /\ msg.of = t)

\* The end of a turn on the same thread that could not be told from the turn's own.
Untold(v) ==
    /\ v.by.m = "completed" /\ v.by.on = v.thread
    /\ v.pending = "unnamed" \/ ~v.by.named

\* A final message, and a result that is not such an end, are there only when the
\* provider has finished the turn.  Completions that wait to be read are those of the
\* turn's thread.  A turn that still asks for its thread has at most the answer to that, for
\* which the provider is done, and one that has its thread has no such answer left.
TurnOK(t, v, u) ==
    /\ v \in TurnType
    /\ v.pc \notin {"idle", "done"} => v.rec \in Turn
    /\ v.pc = "idle" => v.thread = None
    /\ v.pc # "call" => v.inbox = <<>> /\ ~v.sock
    /\ v.sock => OnSocket
    /\ v.outcome # "none" => v.pc = "ended"
    /\ v.outcome = "mock" => kind = "dsbot"
    /\ v.outcome = "result" => u = "finished" \/ Untold(v)
    /\ \A i \in 1..Len(v.inbox) :
          /\ Final(t, v.inbox[i]) => u = "finished" /\ v.step = "turn"
          /\ v.inbox[i].m = "thread" => v.step # "turn"
          /\ v.inbox[i].m = "completed" => v.step = "turn" /\ v.inbox[i].on = v.thread
    /\ v.step # "turn" /\ v.inbox # <<>> => Len(v.inbox) = 1 /\ u \in {"idle", "failed"}

TurnsInv ==
    /\ turn \in [Turn -> TurnType] /\ up \in [Turn -> Working]
    /\ \A t \in Turn : TurnOK(t, turn[t], up[t])

LEMMA IdleOK == \A t \in Turn : TurnOK(t, Idle, "idle")
<1> SUFFICES ASSUME NEW t \in Turn PROVE TurnOK(t, Idle, "idle")
  OBVIOUS
<1>1. PICK v : v = Idle
  OBVIOUS
<1>2. NoId \in Id /\ <<>> \in Seq(MsgType)
  BY DEF Id
<1>3. v \in TurnType
  BY <1>1, <1>2 DEF Idle, TurnType, Outcomes
<1>4. /\ v.pc = "idle" /\ v.thread = None /\ v.inbox = <<>> /\ v.sock = FALSE
      /\ v.outcome = "none"
  BY <1>1 DEF Idle
<1>5. TurnOK(t, v, "idle")
  BY <1>3, <1>4 DEF TurnOK
<1> QED
  BY <1>1, <1>5

LEMMA TurnsStart == CompatInit => TurnsInv
<1> SUFFICES ASSUME CompatInit PROVE TurnsInv
  OBVIOUS
<1>1. PICK v : v = Idle
  OBVIOUS
<1>2. turn = [t \in Turn |-> v] /\ up = [t \in Turn |-> "idle"]
  BY <1>1 DEF CompatInit
<1>3. \A t \in Turn : TurnOK(t, v, "idle")
  BY <1>1, IdleOK
<1> QED
  BY <1>2, <1>3 DEF TurnsInv, TurnOK, Working

\* What holds of each turn after a step holds of all.
LEMMA TurnsMove ==
    ASSUME TurnsInv, UNCHANGED kind, DOMAIN turn' = Turn, turn' = [t \in Turn |-> turn'[t]],
           up' \in [Turn -> Working], \A t \in Turn : TurnOK(t, turn'[t], up'[t])
    PROVE  TurnsInv'
<1>1. \A x, y, z : TurnOK(x, y, z) => TurnOK(x, y, z)'
  BY DEF TurnOK, TurnType, MsgType, NoMsg, Outcomes, Id, OnSocket, Final, Untold
<1>2. turn' \in [Turn -> TurnType]
  BY DEF TurnOK
<1>3. (\A t \in Turn : TurnOK(t, turn[t], up[t]))'
  BY <1>1
<1> QED
  BY <1>2, <1>3 DEF TurnsInv, TurnType, MsgType, NoMsg, Outcomes, Id, Working

\* One turn moves; what the provider does for it may change with it.
LEMMA TurnMoves ==
    ASSUME TurnsInv, UNCHANGED kind, NEW t \in Turn, NEW v, NEW u \in Working,
           TurnOK(t, v, u), turn' = [turn EXCEPT ![t] = v],
           up' = [up EXCEPT ![t] = u] \/ (UNCHANGED up /\ u = up[t])
    PROVE  TurnsInv'
<1>1. \A x \in Turn : turn'[x] = (IF x = t THEN v ELSE turn[x])
                      /\ up'[x] = (IF x = t THEN u ELSE up[x])
  BY DEF TurnsInv
<1>2. \A x \in Turn : TurnOK(x, turn'[x], up'[x])
  BY <1>1 DEF TurnsInv
<1>3. DOMAIN turn' = Turn /\ turn' = [x \in Turn |-> turn'[x]] /\ up' \in [Turn -> Working]
  BY DEF TurnsInv
<1> QED
  BY <1>2, <1>3, TurnsMove

\* While the provider works for a turn, it matters to none of this what it does next.
LEMMA UnfinishedOK ==
    ASSUME NEW t, NEW v, NEW u, NEW x, TurnOK(t, v, u), u \notin {"finished", "idle", "failed"}
    PROVE  TurnOK(t, v, x)
BY DEF TurnOK

\* A turn that ends.
LEMMA EndedOK ==
    ASSUME NEW t \in Turn, NEW w \in TurnType, w.rec \in Turn, NEW u,
           NEW out \in Outcomes, out = "result" => u = "finished" \/ Untold(w),
           out = "mock" => kind = "dsbot"
    PROVE  TurnOK(t, Ended(w, out), u)
<1>1. PICK v : v = Ended(w, out)
  OBVIOUS
<1>2. v = [w EXCEPT !.pc = "ended", !.sock = FALSE, !.inbox = <<>>, !.outcome = out]
  BY <1>1 DEF Ended
<1>3. <<>> \in Seq(MsgType) /\ Len(<<>>) = 0
  OBVIOUS
<1>4. v \in TurnType
  BY <1>2, <1>3 DEF TurnType
<1>5. /\ v.pc = "ended" /\ v.sock = FALSE /\ v.inbox = <<>> /\ v.outcome = out
      /\ v.rec = w.rec /\ v.by = w.by /\ v.thread = w.thread /\ v.pending = w.pending
  BY <1>2 DEF TurnType
<1>6. TurnOK(t, v, u)
  BY <1>3, <1>4, <1>5 DEF TurnOK, Untold
<1> QED
  BY <1>1, <1>6

LEMMA EndOK ==
    ASSUME TurnsInv, NEW t \in Turn, turn[t].pc \notin {"idle", "done"}, NEW u,
           NEW out \in Outcomes, out = "result" => u = "finished",
           out = "mock" => kind = "dsbot"
    PROVE  TurnOK(t, End(t, out), u)
<1>1. turn[t] \in TurnType /\ turn[t].rec \in Turn
  BY DEF TurnsInv, TurnOK
<1> QED
  BY <1>1, EndedOK DEF End

\* A turn in a call whose socket, context or wait changes, and that has read the head
\* of its inbox or nothing.
LEMMA RestOK ==
    ASSUME TurnsInv, NEW t \in Turn, turn[t].pc = "call", turn[t].inbox # <<>>
    PROVE  /\ TurnOK(t, Rest(t), up[t])
           /\ Head(turn[t].inbox) \in MsgType
           /\ Final(t, Head(turn[t].inbox)) => up[t] = "finished" /\ turn[t].step = "turn"
           /\ Head(turn[t].inbox).m = "thread" =>
                 turn[t].step # "turn" /\ Tail(turn[t].inbox) = <<>>
           /\ Head(turn[t].inbox).m = "completed" => Head(turn[t].inbox).on = turn[t].thread
<1>1. PICK w, v, s : w = turn[t] /\ v = Rest(t) /\ s = turn[t].inbox
  OBVIOUS
<1>2. /\ TurnOK(t, w, up[t]) /\ s = w.inbox /\ s \in Seq(MsgType) /\ s # <<>>
      /\ w.pc = "call"
  BY <1>1 DEF TurnsInv, TurnOK, TurnType
<1>3. /\ Tail(s) \in Seq(MsgType) /\ Len(Tail(s)) = Len(s) - 1 /\ Len(s) \in Nat /\ Len(s) > 0
      /\ Head(s) = s[1] /\ Head(s) \in MsgType
      /\ \A i \in 1..Len(Tail(s)) : Tail(s)[i] = s[i + 1] /\ i + 1 \in 1..Len(s)
  BY <1>2
<1>4. v = [w EXCEPT !.inbox = Tail(s)]
  BY <1>1 DEF Rest
<1>5. v \in TurnType /\ v.inbox = Tail(s)
  BY <1>2, <1>3, <1>4 DEF TurnOK, TurnType
<1>6. /\ v.pc = w.pc /\ v.rec = w.rec /\ v.thread = w.thread /\ v.sock = w.sock
      /\ v.outcome = w.outcome /\ v.step = w.step
  BY <1>2, <1>4 DEF TurnOK, TurnType
<1>8. 1 \in 1..Len(s)
  BY <1>3
<1>9. Len(Tail(s)) = 0 => Tail(s) = <<>>
  <2>1. PICK z : z = Tail(s)
    OBVIOUS
  <2>2. z \in Seq(MsgType)
    BY <1>3, <2>1
  <2>3. Len(z) = 0 => z = <<>>
    BY <2>2
  <2> QED
    BY <2>1, <2>3
<1>7. TurnOK(t, v, up[t])
  <2>1. \A i \in 1..Len(v.inbox) :
           /\ Final(t, v.inbox[i]) => up[t] = "finished" /\ v.step = "turn"
           /\ v.inbox[i].m = "thread" => v.step # "turn"
           /\ v.inbox[i].m = "completed" => v.step = "turn" /\ v.inbox[i].on = v.thread
    BY <1>2, <1>3, <1>5, <1>6 DEF TurnOK
  <2>2. v.step # "turn" => v.inbox = <<>>
    <3>1. w.step # "turn" => Len(s) = 1
      BY <1>2 DEF TurnOK
    <3> QED
      BY <1>3, <1>5, <1>6, <1>9, <3>1
  <2> QED
    BY <1>2, <1>5, <1>6, <2>1, <2>2 DEF TurnOK
<1>10. Head(s).m = "thread" => w.step # "turn" /\ Tail(s) = <<>>
  BY <1>2, <1>3, <1>8, <1>9 DEF TurnOK
<1>11. /\ Final(t, Head(s)) => up[t] = "finished" /\ w.step = "turn"
       /\ Head(s).m = "completed" => Head(s).on = w.thread
  BY <1>2, <1>3, <1>8 DEF TurnOK
<1> QED
  BY <1>1, <1>3, <1>7, <1>10, <1>11

\* A message that arrives in a call, with what it says of the provider.
LEMMA SendOK ==
    ASSUME TurnsInv, NEW t \in Turn, turn[t].pc = "call", NEW msg \in MsgType, NEW u \in Working,
           Final(t, msg) => u = "finished" /\ turn[t].step = "turn",
           msg.m = "thread" => turn[t].step # "turn",
           msg.m = "completed" => turn[t].step = "turn" /\ msg.on = turn[t].thread,
           turn[t].step # "turn" => turn[t].inbox = <<>> /\ u \in {"idle", "failed"},
           \/ turn[t].inbox = <<>> \/ u = "finished" \/ up[t] # "finished"
    PROVE  TurnOK(t, [turn[t] EXCEPT !.inbox = Append(@, msg)], u)
<1>1. PICK w, s : w = turn[t] /\ s = turn[t].inbox
  OBVIOUS
<1>2. PICK v : v = [w EXCEPT !.inbox = Append(s, msg)]
  OBVIOUS
<1>3. /\ TurnOK(t, w, up[t]) /\ s = w.inbox /\ s \in Seq(MsgType) /\ w.pc = "call"
      /\ w \in TurnType
  BY <1>1 DEF TurnsInv, TurnOK, TurnType
<1>4. /\ Append(s, msg) \in Seq(MsgType) /\ Len(Append(s, msg)) = Len(s) + 1 /\ Len(s) \in Nat
      /\ Append(s, msg)[Len(s) + 1] = msg
      /\ \A i \in 1..(Len(s) + 1) : i = Len(s) + 1 \/ (i \in 1..Len(s) /\ Append(s, msg)[i] = s[i])
  BY <1>3
<1>5. /\ v \in TurnType /\ v.inbox = Append(s, msg)
      /\ v.pc = w.pc /\ v.rec = w.rec /\ v.thread = w.thread /\ v.sock = w.sock
      /\ v.outcome = w.outcome /\ v.step = w.step
  BY <1>2, <1>3, <1>4 DEF TurnType
<1>6. w.outcome = "none"
  BY <1>3 DEF TurnOK
<1>7. \A i \in 1..Len(s) :
         /\ Final(t, s[i]) => u = "finished" /\ w.step = "turn"
         /\ s[i].m = "thread" => w.step # "turn"
         /\ s[i].m = "completed" => w.step = "turn" /\ s[i].on = w.thread
  <2>1. s = <<>> => Len(s) = 0
    OBVIOUS
  <2> QED
    BY <1>1, <1>3, <1>4, <2>1 DEF TurnOK
<1>8. \A i \in 1..Len(v.inbox) :
         /\ Final(t, v.inbox[i]) => u = "finished" /\ v.step = "turn"
         /\ v.inbox[i].m = "thread" => v.step # "turn"
         /\ v.inbox[i].m = "completed" => v.step = "turn" /\ v.inbox[i].on = v.thread
  BY <1>1, <1>4, <1>5, <1>7
<1>9. v.step # "turn" => Len(v.inbox) = 1 /\ u \in {"idle", "failed"}
  <2>1. w.step # "turn" => s = <<>>
    BY <1>1
  <2>2. s = <<>> => Len(s) = 0
    OBVIOUS
  <2> QED
    BY <1>1, <1>4, <1>5, <2>1, <2>2
<1>10. TurnOK(t, v, u)
  BY <1>3, <1>5, <1>6, <1>8, <1>9 DEF TurnOK
<1> QED
  BY <1>1, <1>2, <1>10

\* The session table, the maps of the compats, and the history of the threads.
StateTypes ==
    /\ sessions \in [Id -> Turn \cup {None}] /\ threads \in [Id -> Turn \cup {None}]
    /\ store \in [Id -> {"none", "completed", "cancelled"}]
    /\ task \in [Turn -> {"none", "running", "completed", "failed", "cancelled"}]
    /\ compatOf \subseteq Turn /\ used \in [Turn -> SUBSET Id]

LEMMA NamesOK == \A name \in Names : name[1] \in Id /\ name[2] \in Id
BY DEF Names, Id

LEMMA LookupType == ASSUME StateTypes, NEW s \in Id, NEW h \in Id
                    PROVE  lookupThread(s, h) \in Turn \cup {None}
BY DEF StateTypes, lookupThread

\* A turn starts, gets its compat and sends its first request.
LEMMA StartSteps ==
    ASSUME TurnsInv, StateTypes, NEW t \in Turn,
           \/ \E m \in {"session.start", "session.message"}, n \in Names : Begin(t, m, n)
           \/ UseCompat(t) \/ Open(t) \/ OpenFails(t)
    PROVE  TurnsInv'
<1>a. UNCHANGED kind
  BY DEF Begin, UseCompat, Open, OpenFails
<1>b. PICK w : w = turn[t]
  OBVIOUS
<1>c. w \in TurnType /\ TurnOK(t, w, up[t]) /\ up[t] \in Working
  BY <1>b DEF TurnsInv
<1>1. ASSUME NEW m \in {"session.start", "session.message"}, NEW n \in Names, Begin(t, m, n)
      PROVE  TurnsInv'
  <2>1. PICK s, h, rec : /\ s = n[1] /\ h = n[2]
                         /\ rec = IF sessions[s] = None THEN t ELSE sessions[s]
    OBVIOUS
  <2>2. s \in Id /\ h \in Id /\ rec \in Turn
    BY <2>1, NamesOK DEF StateTypes
  <2>3. PICK v : v = [w EXCEPT !.pc = "begun", !.method = m, !.sid = s, !.thr = h, !.rec = rec]
    OBVIOUS
  <2>4. turn' = [turn EXCEPT ![t] = v] /\ UNCHANGED up /\ w.pc = "idle"
    BY <1>1, <1>b, <2>1, <2>3 DEF Begin
  <2>5. /\ v \in TurnType /\ v.pc = "begun" /\ v.rec = rec /\ v.inbox = w.inbox
        /\ v.sock = w.sock /\ v.outcome = w.outcome /\ v.step = w.step
    BY <1>1, <1>c, <2>2, <2>3 DEF TurnType
  <2>6. TurnOK(t, v, up[t])
    BY <1>c, <2>2, <2>4, <2>5 DEF TurnOK
  <2> QED
    BY <1>a, <1>c, <2>4, <2>6, TurnMoves
<1>2. CASE UseCompat(t)
  <2>1. PICK v : v = [w EXCEPT !.pc = "ready"]
    OBVIOUS
  <2>2. turn' = [turn EXCEPT ![t] = v] /\ UNCHANGED up /\ w.pc = "begun"
    BY <1>2, <1>b, <2>1 DEF UseCompat
  <2>3. /\ v \in TurnType /\ v.pc = "ready" /\ v.rec = w.rec /\ v.inbox = w.inbox
        /\ v.sock = w.sock /\ v.outcome = w.outcome /\ v.step = w.step
    BY <1>c, <2>1 DEF TurnType
  <2>4. TurnOK(t, v, up[t])
    BY <1>c, <2>2, <2>3 DEF TurnOK
  <2> QED
    BY <1>a, <1>c, <2>2, <2>4, TurnMoves
<1>3. CASE Open(t)
  <2>1. w.pc = "ready"
    BY <1>3, <1>b DEF Open
  <2>2. CASE turn' = [turn EXCEPT ![t] = End(t, "unavailable")] /\ UNCHANGED up
    BY <1>a, <1>b, <1>c, <2>1, <2>2, EndOK, TurnMoves DEF Outcomes
  <2>3. ASSUME NEW x \in Turn \cup {None}, up' = [up EXCEPT ![t] = "working"],
               turn' = [turn EXCEPT ![t] = [w EXCEPT !.pc = "call", !.sock = OnSocket,
                                                     !.step = FirstStep, !.thread = x]]
        PROVE  TurnsInv'
    <3>1. PICK v, sock, step : /\ v = [w EXCEPT !.pc = "call", !.sock = sock, !.step = step,
                                                !.thread = x]
                               /\ sock = OnSocket /\ step = FirstStep
      OBVIOUS
    <3>2. sock \in BOOLEAN /\ step \in {"thread", "turn"}
      BY <3>1 DEF OnSocket, FirstStep
    <3>3. /\ v \in TurnType /\ v.pc = "call" /\ v.rec = w.rec /\ v.inbox = w.inbox
          /\ v.sock = sock /\ v.outcome = w.outcome
      BY <1>c, <3>1, <3>2 DEF TurnType
    <3>4. w.inbox = <<>> /\ Len(w.inbox) = 0 /\ w.outcome = "none" /\ w.rec \in Turn
      BY <1>c, <2>1 DEF TurnOK
    <3>5. TurnOK(t, v, "working")
      BY <3>1, <3>3, <3>4 DEF TurnOK
    <3> QED
      BY <1>a, <2>3, <3>1, <3>5, TurnMoves DEF Working
  <2>4. lookupThread(turn[t].sid, turn[t].thr) \in Turn \cup {None}
    BY <1>b, <1>c, LookupType DEF TurnType
  <2> QED
    BY <1>3, <1>b, <2>2, <2>3, <2>4 DEF Open
<1>4. CASE OpenFails(t)
  <2>1. turn' = [turn EXCEPT ![t] = End(t, FailedAs(t))] /\ UNCHANGED up /\ w.pc = "ready"
    BY <1>4, <1>b DEF OpenFails
  <2>2. FailedAs(t) \in Outcomes /\ FailedAs(t) # "result" /\ (FailedAs(t) = "mock" => kind = "dsbot")
    BY DEF FailedAs, Outcomes
  <2> QED
    BY <1>a, <1>b, <1>c, <2>1, <2>2, EndOK, TurnMoves
<1> QED
  BY <1>1, <1>2, <1>3, <1>4

\* The Codex loop may end the turn between two messages.
LEMMA ContinueOK ==
    ASSUME NEW t \in Turn, NEW v, NEW u, TurnOK(t, v, u), v.rec \in Turn
    PROVE  TurnOK(t, Continue(t, v), u)
<1>1. v \in TurnType
  BY DEF TurnOK
<1> QED
  BY <1>1, EndedOK DEF Continue, Outcomes

\* What is read leaves the turn its record.
LEMMA RestKeeps ==
    ASSUME TurnsInv, NEW t \in Turn, turn[t].pc = "call"
    PROVE  /\ Rest(t).rec \in Turn /\ Rest(t).pc = "call" /\ Rest(t).inbox = Tail(turn[t].inbox)
           /\ Rest(t).thread = turn[t].thread
<1>1. PICK w : w = turn[t]
  OBVIOUS
<1>2. w \in TurnType /\ w.rec \in Turn /\ w.pc = "call"
  BY <1>1 DEF TurnsInv, TurnOK
<1>3. PICK v : v = [w EXCEPT !.inbox = Tail(w.inbox)]
  OBVIOUS
<1>4. v.rec = w.rec /\ v.pc = w.pc /\ v.inbox = Tail(w.inbox) /\ v.thread = w.thread
  BY <1>2, <1>3 DEF TurnType
<1>5. Rest(t) = v
  BY <1>1, <1>3 DEF Rest
<1> QED
  BY <1>1, <1>2, <1>4, <1>5

\* A turn reads a message, or its call fails.
LEMMA ReadSteps ==
    ASSUME TurnsInv, StateTypes, NEW t \in Turn,
           \/ ReadPermission(t) \/ ReadCompleted(t) \/ ReadThread(t) \/ ReadAnswer(t)
           \/ CallFails(t) \/ SocketDrops(t)
    PROVE  TurnsInv'
<1>a. UNCHANGED kind /\ turn[t].pc = "call"
  BY DEF ReadPermission, ReadCompleted, ReadThread, ReadAnswer, CallFails, SocketDrops, InCall
<1>b. up[t] \in Working
  BY DEF TurnsInv
<1>c. ASSUME NEW out \in Outcomes, turn' = [turn EXCEPT ![t] = End(t, out)], UNCHANGED up,
             out = "result" => up[t] = "finished", out = "mock" => kind = "dsbot"
      PROVE  TurnsInv'
  BY <1>a, <1>b, <1>c, EndOK, TurnMoves
<1>1. CASE ReadPermission(t)
  <2>1. PICK u : u = IF up[t] = "asks" /\ Approved(t) THEN "approved" ELSE up[t]
    OBVIOUS
  <2>2. /\ up' = [up EXCEPT ![t] = u]
        /\ turn' = [turn EXCEPT ![t] = Continue(t, Rest(t))] /\ turn[t].inbox # <<>>
    BY <1>1, <2>1 DEF ReadPermission
  <2>3. u \in Working
    BY <1>b, <2>1 DEF Working
  <2>4. TurnOK(t, Rest(t), up[t])
    BY <1>a, <2>2, RestOK
  <2>5. TurnOK(t, Rest(t), u)
    BY <2>1, <2>4, UnfinishedOK
  <2> QED
    BY <1>a, <2>2, <2>3, <2>5, RestKeeps, ContinueOK, TurnMoves
<1>2. CASE ReadCompleted(t)
  <2>1. turn[t].inbox # <<>> /\ UNCHANGED up /\ Head(turn[t].inbox).m = "completed"
    BY <1>2 DEF ReadCompleted
  <2>2. CASE turn' = [turn EXCEPT ![t] = [End(t, "result") EXCEPT !.by = Head(turn[t].inbox)]]
             /\ isCodexTurnCompleted(t, Head(turn[t].inbox))
    <3>1. PICK w, msg, v : /\ w = turn[t] /\ msg = Head(turn[t].inbox)
                           /\ v = [w EXCEPT !.by = msg]
      OBVIOUS
    <3>2. /\ w \in TurnType /\ msg \in MsgType /\ w.rec \in Turn /\ msg.on = w.thread
          /\ Final(t, msg) => up[t] = "finished"
      BY <1>a, <2>1, <3>1, RestOK DEF TurnsInv, TurnOK
    <3>3. /\ v \in TurnType /\ v.by = msg /\ v.rec = w.rec /\ v.thread = w.thread
          /\ v.pending = w.pending
      BY <3>1, <3>2 DEF TurnType
    <3>4. msg.m = "completed" /\ (w.pending = "unnamed" \/ ~msg.named \/ msg.of = t)
      BY <2>1, <2>2, <3>1 DEF isCodexTurnCompleted
    <3>5. up[t] = "finished" \/ Untold(v)
      BY <3>2, <3>3, <3>4 DEF Final, Untold
    <3>6. TurnOK(t, Ended(v, "result"), up[t])
      BY <3>2, <3>3, <3>5, EndedOK DEF Outcomes
    <3>7. [End(t, "result") EXCEPT !.by = msg] = Ended(v, "result")
      <4>1. PICK a, b : /\ a = [w EXCEPT !.pc = "ended", !.sock = FALSE, !.inbox = <<>>,
                                         !.outcome = "result"]
                        /\ b = [v EXCEPT !.pc = "ended", !.sock = FALSE, !.inbox = <<>>,
                                         !.outcome = "result"]
        OBVIOUS
      <4>2. [a EXCEPT !.by = msg] = b
        BY <3>1, <3>2, <4>1 DEF TurnType
      <4> QED
        BY <3>1, <4>1, <4>2 DEF End, Ended
    <3>8. turn' = [turn EXCEPT ![t] = Ended(v, "result")]
      BY <2>2, <3>1, <3>7
    <3> QED
      BY <1>a, <1>b, <2>1, <3>6, <3>8, TurnMoves
  <2>3. CASE turn' = [turn EXCEPT ![t] = Continue(t, Rest(t))]
    BY <1>a, <1>b, <2>1, <2>3, RestOK, RestKeeps, ContinueOK, TurnMoves
  <2> QED
    BY <1>2, <2>2, <2>3 DEF ReadCompleted
<1>3. CASE ReadThread(t)
  <2>1. PICK w, x : w = Rest(t) /\ x = IF turn[t].thread = None THEN t ELSE turn[t].thread
    OBVIOUS
  <2>2. PICK v : v = [w EXCEPT !.step = "turn", !.thread = x]
    OBVIOUS
  <2>3. /\ turn[t].inbox # <<>> /\ Head(turn[t].inbox).m = "thread"
        /\ \/ /\ turn' = [turn EXCEPT ![t] = Continue(t, v)]
              /\ up' = [up EXCEPT ![t] = "working"]
           \/ turn' = [turn EXCEPT ![t] = End(t, "error")] /\ UNCHANGED up
    BY <1>3, <2>1, <2>2 DEF ReadThread
  <2>4. /\ TurnOK(t, w, up[t]) /\ w.pc = "call" /\ w.inbox = <<>> /\ x \in Turn
        /\ w.rec \in Turn
    <3>1. turn[t] \in TurnType
      BY DEF TurnsInv
    <3>2. TurnOK(t, w, up[t]) /\ Tail(turn[t].inbox) = <<>>
      BY <1>a, <2>1, <2>3, RestOK
    <3>3. w.pc = "call" /\ w.inbox = Tail(turn[t].inbox) /\ w.rec \in Turn
      BY <1>a, <2>1, RestKeeps
    <3>4. x \in Turn
      BY <2>1, <3>1 DEF TurnType
    <3> QED
      BY <3>2, <3>3, <3>4
  <2>5. /\ v \in TurnType /\ v.pc = "call" /\ v.inbox = <<>> /\ Len(<<>>) = 0
        /\ v.rec = w.rec /\ v.sock = w.sock /\ v.outcome = w.outcome /\ v.step = "turn"
    BY <2>2, <2>4 DEF TurnOK, TurnType
  <2>6. v.outcome = "none"
    BY <2>4, <2>5 DEF TurnOK
  <2>7. TurnOK(t, v, "working")
    BY <2>4, <2>5, <2>6 DEF TurnOK
  <2>8. TurnOK(t, Continue(t, v), "working")
    BY <2>4, <2>5, <2>7, ContinueOK
  <2>9. CASE turn' = [turn EXCEPT ![t] = End(t, "error")] /\ UNCHANGED up
    BY <1>c, <2>9 DEF Outcomes
  <2> QED
    BY <1>a, <2>3, <2>8, <2>9, TurnMoves DEF Working
<1>4. CASE ReadAnswer(t)
  <2>1. turn[t].inbox # <<>> /\ UNCHANGED up
    BY <1>4 DEF ReadAnswer
  <2>2. PICK w, m, id : /\ w = Rest(t) /\ m = Head(turn[t].inbox).m
                        /\ id = IF Head(turn[t].inbox).named THEN "named" ELSE "unnamed"
    OBVIOUS
  <2>3. TurnOK(t, w, up[t]) /\ (m = "answer" => up[t] = "finished")
    BY <1>a, <2>1, <2>2, RestOK DEF Final
  <2>4. CASE turn' = [turn EXCEPT ![t] = Continue(t, [w EXCEPT !.pending = id])]
    <3>1. PICK v : v = [w EXCEPT !.pending = id]
      OBVIOUS
    <3>2. /\ v \in TurnType /\ v.pc = w.pc /\ v.inbox = w.inbox /\ v.rec = w.rec
          /\ v.sock = w.sock /\ v.outcome = w.outcome /\ v.step = w.step /\ v.thread = w.thread
      BY <2>2, <2>3, <3>1 DEF TurnOK, TurnType
    <3>3. w.pc = "call" /\ w.rec \in Turn
      BY <1>a, <2>2, RestKeeps
    <3>4. TurnOK(t, v, up[t])
      BY <2>3, <3>2, <3>3 DEF TurnOK
    <3> QED
      BY <1>a, <1>b, <2>1, <2>4, <3>1, <3>2, <3>3, <3>4, ContinueOK, TurnMoves
  <2>5. CASE turn' = [turn EXCEPT ![t] = End(t, IF m = "answer" THEN "result" ELSE "empty")]
    <3>1. PICK out : out = IF m = "answer" THEN "result" ELSE "empty"
      OBVIOUS
    <3>2. out \in Outcomes /\ out # "mock" /\ (out = "result" => up[t] = "finished")
      BY <2>3, <3>1 DEF Outcomes
    <3> QED
      BY <1>c, <2>1, <2>5, <3>1, <3>2
  <2> QED
    BY <1>4, <2>2, <2>4, <2>5 DEF ReadAnswer
<1>5. CASE CallFails(t)
  <2>1. FailedAs(t) \in Outcomes /\ FailedAs(t) # "result" /\ (FailedAs(t) = "mock" => kind = "dsbot")
    BY DEF FailedAs, Outcomes
  <2> QED
    BY <1>5, <1>c, <2>1 DEF CallFails
<1>6. CASE SocketDrops(t)
  BY <1>6, <1>c DEF SocketDrops, Outcomes
<1> QED
  BY <1>1, <1>2, <1>3, <1>4, <1>5, <1>6

\* A turn is over, its socket is closed, or its caller has gone.
LEMMA OtherSteps ==
    ASSUME TurnsInv, NEW t \in Turn, Settle(t) \/ CloseOnCancel(t) \/ CtxDone(t)
    PROVE  TurnsInv'
<1>a. UNCHANGED kind
  BY DEF Settle, CloseOnCancel, CtxDone
<1>b. PICK w : w = turn[t]
  OBVIOUS
<1>c. w \in TurnType /\ TurnOK(t, w, up[t]) /\ up[t] \in Working
  BY <1>b DEF TurnsInv
<1>1. CASE Settle(t)
  <2>1. PICK i, s, h, x : i = Idle /\ s = w.sid /\ h = w.thr /\ x = w.thread
    OBVIOUS
  <2>2. i \in TurnType /\ TurnOK(t, i, "idle") /\ i.inbox = <<>> /\ i.outcome = "none"
    BY <2>1, IdleOK DEF TurnOK, Idle
  <2>3. PICK u : u = IF GoesOn(t) THEN "running" ELSE "idle"
    OBVIOUS
  <2>4. u \in Working /\ up' = [up EXCEPT ![t] = u]
    BY <1>1, <1>c, <2>3 DEF Settle, Working
  <2>5. ASSUME NEW v \in TurnType, v.pc = "done", v.inbox = <<>>, v.sock = FALSE,
               v.outcome = "none", turn' = [turn EXCEPT ![t] = v]
        PROVE  TurnsInv'
    <3>1. Len(<<>>) = 0
      OBVIOUS
    <3>2. TurnOK(t, v, u)
      BY <2>5, <3>1 DEF TurnOK
    <3> QED
      BY <1>a, <2>4, <2>5, <3>2, TurnMoves
  <2>6. i.sock = FALSE
    BY <2>1 DEF Idle
  <2>7. CASE turn' = [turn EXCEPT ![t] = [i EXCEPT !.pc = "done", !.sid = s, !.thr = h,
                                                   !.thread = x]]
    <3>1. PICK v : v = [i EXCEPT !.pc = "done", !.sid = s, !.thr = h, !.thread = x]
      OBVIOUS
    <3>3. s \in Id /\ h \in Id /\ x \in Turn \cup {None}
      BY <1>c, <2>1 DEF TurnType
    <3>2. /\ v \in TurnType /\ v.pc = "done" /\ v.inbox = i.inbox /\ v.sock = i.sock
          /\ v.outcome = i.outcome
      BY <2>2, <3>1, <3>3 DEF TurnType
    <3> QED
      BY <2>2, <2>5, <2>6, <2>7, <3>1, <3>2
  <2>8. CASE turn' = [turn EXCEPT ![t] = [i EXCEPT !.pc = "done"]]
    <3>1. PICK v : v = [i EXCEPT !.pc = "done"]
      OBVIOUS
    <3>2. /\ v \in TurnType /\ v.pc = "done" /\ v.inbox = i.inbox /\ v.sock = i.sock
          /\ v.outcome = i.outcome
      BY <2>2, <3>1 DEF TurnType
    <3> QED
      BY <2>2, <2>5, <2>6, <2>8, <3>1, <3>2
  <2> QED
    BY <1>1, <1>b, <2>1, <2>7, <2>8 DEF Settle
<1>2. ASSUME NEW v \in TurnType, turn' = [turn EXCEPT ![t] = v], UNCHANGED up,
             v.pc = w.pc, v.rec = w.rec, v.inbox = w.inbox, v.outcome = w.outcome,
             v.step = w.step, v.thread = w.thread, v.sock \in {w.sock, FALSE},
             v.by = w.by, v.pending = w.pending
      PROVE  TurnsInv'
  <2>1. TurnOK(t, v, up[t])
    BY <1>2, <1>c DEF TurnOK, Untold
  <2> QED
    BY <1>2, <1>a, <1>c, <2>1, TurnMoves
<1>3. CASE CloseOnCancel(t)
  <2>1. PICK v : v = [w EXCEPT !.sock = FALSE]
    OBVIOUS
  <2>2. /\ v \in TurnType /\ v.pc = w.pc /\ v.rec = w.rec /\ v.inbox = w.inbox
        /\ v.outcome = w.outcome /\ v.step = w.step /\ v.thread = w.thread /\ v.sock = FALSE
        /\ v.by = w.by /\ v.pending = w.pending
    BY <1>c, <2>1 DEF TurnType
  <2>3. turn' = [turn EXCEPT ![t] = v] /\ UNCHANGED up
    BY <1>3, <1>b, <2>1 DEF CloseOnCancel
  <2> QED
    BY <1>2, <2>2, <2>3
<1>4. CASE CtxDone(t)
  <2>1. PICK v : v = [w EXCEPT !.ctx = "done"]
    OBVIOUS
  <2>2. /\ v \in TurnType /\ v.pc = w.pc /\ v.rec = w.rec /\ v.inbox = w.inbox
        /\ v.outcome = w.outcome /\ v.step = w.step /\ v.thread = w.thread /\ v.sock = w.sock
        /\ v.by = w.by /\ v.pending = w.pending
    BY <1>c, <2>1 DEF TurnType
  <2>3. turn' = [turn EXCEPT ![t] = v] /\ UNCHANGED up
    BY <1>4, <1>b, <2>1 DEF CtxDone
  <2> QED
    BY <1>2, <2>2, <2>3
<1> QED
  BY <1>1, <1>3, <1>4

LEMMA MsgOK ==
    ASSUME TurnsInv
    PROVE  \A m \in {"thread", "error", "answer", "progress", "permission", "completed"},
              t \in Turn, n \in BOOLEAN :
              /\ Msg(m, t, n) \in MsgType /\ Msg(m, t, n).m = m /\ Msg(m, t, n).of = t
              /\ Msg(m, t, n).on = turn[t].thread
              /\ \A x : Final(x, Msg(m, t, n)) => m = "answer" \/ (m = "completed" /\ t = x)
<1>1. \A t \in Turn : turn[t].thread \in Turn \cup {None}
  BY DEF TurnsInv, TurnType
<1> QED
  BY <1>1 DEF Msg, MsgType, Final

\* The provider answers, asks or falls silent.
LEMMA ProviderSteps ==
    ASSUME TurnsInv, NEW t \in Turn, ProviderAnswers(t) \/ ProviderAsks(t) \/ ProviderHangs(t)
    PROVE  TurnsInv'
<1>a. UNCHANGED kind /\ turn[t].pc = "call" /\ turn \in [Turn -> TurnType]
  BY DEF ProviderAnswers, ProviderAsks, ProviderHangs, InCall, TurnsInv
<1>1. ASSUME NEW m \in {"thread", "error", "answer", "progress", "permission"}, NEW u \in Working,
             NEW n \in BOOLEAN, turn[t].inbox = <<>>, turn' = Send(t, Msg(m, t, n)), up' = [up EXCEPT ![t] = u],
             m = "answer" => u = "finished" /\ turn[t].step = "turn",
             m = "thread" => turn[t].step # "turn",
             turn[t].step # "turn" => u \in {"idle", "failed"}
      PROVE  TurnsInv'
  <2>1. PICK msg : msg = Msg(m, t, n)
    OBVIOUS
  <2>2. msg \in MsgType /\ msg.m = m /\ (Final(t, msg) => m = "answer")
    BY <2>1, MsgOK
  <2>3. TurnOK(t, [turn[t] EXCEPT !.inbox = Append(@, msg)], u)
    BY <1>1, <1>a, <2>2, SendOK
  <2>4. turn' = [turn EXCEPT ![t] = [turn[t] EXCEPT !.inbox = Append(@, msg)]]
    BY <1>1, <1>a, <2>1 DEF Send
  <2> QED
    BY <1>1, <1>a, <2>3, <2>4, TurnMoves
<1>2. CASE ProviderAnswers(t)
  BY <1>1, <1>2 DEF ProviderAnswers, Working
<1>3. CASE ProviderAsks(t)
  BY <1>1, <1>3 DEF ProviderAsks, Working
<1>4. CASE ProviderHangs(t)
  <2>1. /\ turn' = [turn EXCEPT ![t] = turn[t]] /\ up' = [up EXCEPT ![t] = "hung"]
        /\ up[t] \notin {"finished", "idle", "failed"} /\ TurnOK(t, turn[t], up[t])
    BY <1>4, <1>a DEF ProviderHangs, TurnsInv
  <2>2. TurnOK(t, turn[t], "hung")
    BY <2>1, UnfinishedOK
  <2> QED
    BY <1>a, <2>1, <2>2, TurnMoves DEF Working
<1> QED
  BY <1>2, <1>3, <1>4

\* A turn of Codex ends, and every socket on its thread is told.
LEMMA CompletesStep ==
    ASSUME TurnsInv, NEW t \in Turn, ProviderCompletes(t)
    PROVE  TurnsInv'
<1>1. PICK n \in BOOLEAN :
      /\ UNCHANGED kind /\ up[t] = "running" /\ up' = [up EXCEPT ![t] = "finished"]
      /\ turn' = [u \in Turn |->
                    IF InCall(u) /\ turn[u].sock /\ turn[u].step = "turn"
                       /\ turn[u].thread = turn[t].thread
                    THEN [turn[u] EXCEPT !.inbox = Append(@, Msg("completed", t, n))]
                    ELSE turn[u]]
  BY DEF ProviderCompletes
<1>2. up' \in [Turn -> Working] /\ \A x \in Turn : up'[x] = IF x = t THEN "finished" ELSE up[x]
  BY <1>1 DEF TurnsInv, Working
<1>3. ASSUME NEW x \in Turn PROVE TurnOK(x, turn'[x], up'[x])
  <2>1. TurnOK(x, turn[x], up[x]) /\ up'[x] \in Working
    BY <1>2 DEF TurnsInv
  <2>2. CASE turn'[x] = turn[x]
    <3>1. CASE x = t
      <4>1. up[x] \notin {"finished", "idle", "failed"}
        BY <1>1, <3>1
      <4> QED
        BY <2>1, <2>2, <4>1, UnfinishedOK
    <3>2. CASE x # t
      BY <1>2, <2>1, <2>2, <3>2
    <3> QED
      BY <3>1, <3>2
  <2>3. CASE /\ turn[x].pc = "call" /\ turn[x].step = "turn"
             /\ turn[x].thread = turn[t].thread
             /\ turn'[x] = [turn[x] EXCEPT !.inbox = Append(@, Msg("completed", t, n))]
    <3>1. PICK msg : msg = Msg("completed", t, n)
      OBVIOUS
    <3>2. /\ msg \in MsgType /\ msg.m = "completed" /\ (Final(x, msg) => x = t)
          /\ msg.on = turn[t].thread
      BY <3>1, MsgOK
    <3>3. up'[x] = "finished" \/ up[x] # "finished" \/ up'[x] = up[x]
      BY <1>2
    <3>4. TurnOK(x, [turn[x] EXCEPT !.inbox = Append(@, msg)], up'[x])
      BY <1>2, <2>1, <2>3, <3>2, <3>3, SendOK
    <3> QED
      BY <2>3, <3>1, <3>4
  <2> QED
    BY <1>1, <2>2, <2>3 DEF InCall
<1>4. DOMAIN turn' = Turn /\ turn' = [x \in Turn |-> turn'[x]]
  BY <1>1
<1> QED
  BY <1>1, <1>2, <1>3, <1>4, TurnsMove

\* A cancellation stops turns that the provider has not finished, with an error.
LEMMA CancelStep ==
    ASSUME TurnsInv, NEW s, CancelSession(s)
    PROVE  TurnsInv'
<1>1. PICK stopped \in SUBSET Turn :
        /\ \A t \in stopped : InCall(t) /\ up[t] \in {"working", "approved", "running", "asks"}
        /\ up' = [t \in Turn |-> IF t \in stopped THEN "failed" ELSE up[t]]
        /\ turn' = [t \in Turn |-> IF t \in stopped
                                   THEN [turn[t] EXCEPT !.inbox = Append(@, Msg("error", t, TRUE))]
                                   ELSE turn[t]]
  BY DEF CancelSession, Stopped
<1>2. UNCHANGED kind
  BY DEF CancelSession
<1>3. up' \in [Turn -> Working]
  BY <1>1 DEF TurnsInv, Working
<1>4. ASSUME NEW t \in Turn PROVE TurnOK(t, turn'[t], up'[t])
  <2>1. TurnOK(t, turn[t], up[t])
    BY DEF TurnsInv
  <2>2. CASE t \in stopped
    <3>1. PICK msg : msg = Msg("error", t, TRUE)
      OBVIOUS
    <3>2. msg \in MsgType /\ msg.m = "error" /\ ~Final(t, msg)
      BY <3>1, MsgOK
    <3>3. turn[t].pc = "call" /\ up[t] # "finished"
      BY <1>1, <2>2 DEF InCall
    <3>4. turn[t].step # "turn" => turn[t].inbox = <<>>
      BY <1>1, <2>1, <2>2 DEF TurnOK
    <3>5. TurnOK(t, [turn[t] EXCEPT !.inbox = Append(@, msg)], "failed")
      BY <3>2, <3>3, <3>4, SendOK DEF Working
    <3> QED
      BY <1>1, <2>2, <3>1, <3>5
  <2> QED
    BY <1>1, <2>1, <2>2
<1>5. DOMAIN turn' = Turn /\ turn' = [x \in Turn |-> turn'[x]]
  BY <1>1
<1> QED
  BY <1>2, <1>3, <1>4, <1>5, TurnsMove

LEMMA TurnsStep == TurnsInv /\ StateTypes /\ [CompatNext]_vars => TurnsInv'
<1> SUFFICES ASSUME TurnsInv, StateTypes, [CompatNext]_vars PROVE TurnsInv'
  OBVIOUS
<1>1. CASE UNCHANGED <<kind, turn, up>>
  <2>1. /\ DOMAIN turn' = Turn /\ turn' = [x \in Turn |-> turn'[x]] /\ up' \in [Turn -> Working]
        /\ \A t \in Turn : TurnOK(t, turn'[t], up'[t])
    BY <1>1 DEF TurnsInv
  <2> QED
    BY <1>1, <2>1, TurnsMove
<1>2. (\E s \in Session \cup {NoId} : CloseSession(s)) \/ UNCHANGED vars => UNCHANGED <<kind, turn, up>>
  BY DEF CloseSession, vars
<1> QED
  BY <1>1, <1>2, StartSteps, ReadSteps, OtherSteps, ProviderSteps, CompletesStep, CancelStep
     DEF CompatNext

-----------------------------------------------------------------------------
(* Records and threads *)

\* A turn that goes on keeps its request and its record.
Same(v, w) ==
    /\ v.rec = w.rec /\ v.sid = w.sid /\ v.thr = w.thr
    /\ w.pc \notin {"idle", "done"} => v.pc \notin {"idle", "done"}

\* Reading on, or ending between two messages.
LEMMA SameContinues ==
    ASSUME NEW t, NEW v \in TurnType, NEW w, Same(v, w)
    PROVE  Same(Continue(t, v), w) /\ Continue(t, v).thread = v.thread
<1>1. PICK e : e = [v EXCEPT !.pc = "ended", !.sock = FALSE, !.inbox = <<>>, !.outcome = "error"]
  OBVIOUS
<1>2. /\ e.pc = "ended" /\ e.rec = v.rec /\ e.sid = v.sid /\ e.thr = v.thr
      /\ e.thread = v.thread
  BY <1>1 DEF TurnType
<1>3. Continue(t, v) \in {v, e}
  BY <1>1 DEF Continue, Ended
<1> QED
  BY <1>2, <1>3 DEF Same

LEMMA SameUpdates ==
    ASSUME TurnsInv, NEW t \in Turn
    PROVE  /\ \A out : Same(End(t, out), turn[t]) /\ End(t, out).thread = turn[t].thread
           /\ Same(Rest(t), turn[t]) /\ Rest(t).thread = turn[t].thread
           /\ \A msg : /\ Same([turn[t] EXCEPT !.inbox = Append(@, msg)], turn[t])
                       /\ [turn[t] EXCEPT !.inbox = Append(@, msg)].thread = turn[t].thread
<1>1. PICK w : w = turn[t]
  OBVIOUS
<1>2. w \in TurnType
  BY <1>1 DEF TurnsInv
<1>3. ASSUME NEW out PROVE Same(End(t, out), turn[t]) /\ End(t, out).thread = turn[t].thread
  <2>1. PICK v : v = [w EXCEPT !.pc = "ended", !.sock = FALSE, !.inbox = <<>>, !.outcome = out]
    OBVIOUS
  <2>2. /\ v.pc = "ended" /\ v.rec = w.rec /\ v.sid = w.sid /\ v.thr = w.thr
        /\ v.thread = w.thread
    BY <1>2, <2>1 DEF TurnType
  <2>3. End(t, out) = v
    BY <1>1, <2>1 DEF End, Ended
  <2> QED
    BY <1>1, <2>2, <2>3 DEF Same
<1>4. ASSUME NEW box
      PROVE  /\ Same([turn[t] EXCEPT !.inbox = box], turn[t])
             /\ [turn[t] EXCEPT !.inbox = box].thread = turn[t].thread
  <2>1. PICK v : v = [w EXCEPT !.inbox = box]
    OBVIOUS
  <2>2. /\ v.pc = w.pc /\ v.rec = w.rec /\ v.sid = w.sid /\ v.thr = w.thr
        /\ v.thread = w.thread
    BY <1>2, <2>1 DEF TurnType
  <2> QED
    BY <1>1, <2>1, <2>2 DEF Same
<1>5. Rest(t) = [turn[t] EXCEPT !.inbox = Tail(turn[t].inbox)]
  BY DEF Rest
<1>6. \A msg : [turn[t] EXCEPT !.inbox = Append(@, msg)]
                 = [turn[t] EXCEPT !.inbox = Append(turn[t].inbox, msg)]
  OBVIOUS
<1> QED
  BY <1>3, <1>4, <1>5, <1>6

\* A message that arrives changes nothing of this.
LEMMA SentKeeps ==
    ASSUME TurnsInv, \A x \in Turn : turn'[x] = turn[x]
                        \/ \E msg : turn'[x] = [turn[x] EXCEPT !.inbox = Append(@, msg)]
    PROVE  \A x \in Turn : Same(turn'[x], turn[x]) /\ turn'[x].thread = turn[x].thread
<1> SUFFICES ASSUME NEW x \in Turn
             PROVE  Same(turn'[x], turn[x]) /\ turn'[x].thread = turn[x].thread
  OBVIOUS
<1>1. CASE turn'[x] = turn[x]
  BY <1>1 DEF Same
<1>2. ASSUME NEW msg, turn'[x] = [turn[x] EXCEPT !.inbox = Append(@, msg)]
      PROVE  Same(turn'[x], turn[x]) /\ turn'[x].thread = turn[x].thread
  <2>1. PICK v : v = [turn[x] EXCEPT !.inbox = Append(@, msg)]
    OBVIOUS
  <2>2. Same(v, turn[x]) /\ v.thread = turn[x].thread
    BY <2>1, SameUpdates
  <2> QED
    BY <1>2, <2>1, <2>2
<1> QED
  BY <1>1, <1>2

\* Most steps of a turn keep its thread too.
LEMMA KeepingSteps ==
    ASSUME TurnsInv, NEW t \in Turn,
           \/ UseCompat(t) \/ OpenFails(t) \/ ReadPermission(t) \/ ReadCompleted(t)
           \/ ReadAnswer(t) \/ CallFails(t) \/ SocketDrops(t) \/ CloseOnCancel(t)
           \/ CtxDone(t) \/ ProviderAnswers(t) \/ ProviderAsks(t) \/ ProviderCompletes(t)
           \/ ProviderHangs(t)
    PROVE  \A x \in Turn : Same(turn'[x], turn[x]) /\ turn'[x].thread = turn[x].thread
<1>a. turn \in [Turn -> TurnType]
  BY DEF TurnsInv
<1>b. PICK w : w = turn[t]
  OBVIOUS
<1>c. w \in TurnType
  BY <1>a, <1>b
<1>d. ASSUME NEW v, turn' = [turn EXCEPT ![t] = v], Same(v, turn[t]), v.thread = turn[t].thread
      PROVE  \A x \in Turn : Same(turn'[x], turn[x]) /\ turn'[x].thread = turn[x].thread
  BY <1>a, <1>d DEF Same
<1>e. /\ Same([w EXCEPT !.pc = "ready"], w) /\ [w EXCEPT !.pc = "ready"].thread = w.thread
      /\ Same([w EXCEPT !.sock = FALSE], w) /\ [w EXCEPT !.sock = FALSE].thread = w.thread
      /\ Same([w EXCEPT !.ctx = "done"], w) /\ [w EXCEPT !.ctx = "done"].thread = w.thread
  BY <1>c DEF Same, TurnType
<1>f. ASSUME NEW v \in TurnType, Same(v, turn[t]), v.thread = turn[t].thread
      PROVE  Same(Continue(t, v), turn[t]) /\ Continue(t, v).thread = turn[t].thread
  BY <1>f, SameContinues
<1>1. CASE UseCompat(t)
  BY <1>1, <1>b, <1>d, <1>e DEF UseCompat
<1>2. CASE OpenFails(t) \/ CallFails(t) \/ SocketDrops(t)
  BY <1>2, <1>d, SameUpdates DEF OpenFails, CallFails, SocketDrops
<1>3. CASE ReadPermission(t) \/ ReadCompleted(t)
  <2>1. PICK msg : msg = Head(turn[t].inbox)
    OBVIOUS
  <2>2. /\ turn[t].pc = "call" /\ turn[t].inbox # <<>>
        /\ \/ turn' = [turn EXCEPT ![t] = Continue(t, Rest(t))]
           \/ turn' = [turn EXCEPT ![t] = [End(t, "result") EXCEPT !.by = msg]]
    BY <1>3, <2>1 DEF ReadPermission, ReadCompleted, InCall
  <2>3. CASE turn' = [turn EXCEPT ![t] = Continue(t, Rest(t))]
    <3>1. Rest(t) \in TurnType
      BY <2>2, RestOK DEF TurnOK
    <3>2. Same(Continue(t, Rest(t)), turn[t]) /\ Continue(t, Rest(t)).thread = turn[t].thread
      BY <1>f, <3>1, SameUpdates
    <3> QED
      BY <1>d, <2>3, <3>2
  <2>4. CASE turn' = [turn EXCEPT ![t] = [End(t, "result") EXCEPT !.by = msg]]
    <3>1. PICK a, b : /\ b = [a EXCEPT !.by = msg]
                      /\ a = [w EXCEPT !.pc = "ended", !.sock = FALSE, !.inbox = <<>>,
                                       !.outcome = "result"]
      OBVIOUS
    <3>2. /\ b.pc = "ended" /\ b.rec = w.rec /\ b.sid = w.sid /\ b.thr = w.thr
          /\ b.thread = w.thread
      BY <1>c, <3>1 DEF TurnType
    <3>3. turn' = [turn EXCEPT ![t] = b]
      BY <1>b, <2>4, <3>1 DEF End, Ended
    <3> QED
      BY <1>b, <1>d, <3>2, <3>3 DEF Same
  <2> QED
    BY <2>2, <2>3, <2>4
<1>4. CASE ReadAnswer(t)
  <2>1. PICK r : r = Rest(t)
    OBVIOUS
  <2>2. r = [w EXCEPT !.inbox = Tail(@)]
    BY <1>b, <2>1 DEF Rest
  <2>a. turn[t].pc = "call" /\ turn[t].inbox # <<>>
    BY <1>4 DEF ReadAnswer, InCall
  <2>b. r \in TurnType
    BY <2>1, <2>a, RestOK DEF TurnOK
  <2>c. PICK id : id = IF Head(turn[t].inbox).named THEN "named" ELSE "unnamed"
    OBVIOUS
  <2>3. PICK v : v = [r EXCEPT !.pending = id]
    OBVIOUS
  <2>d. v \in TurnType
    BY <2>b, <2>c, <2>3 DEF TurnType
  <2>4. /\ v.pc = w.pc /\ v.rec = w.rec /\ v.sid = w.sid /\ v.thr = w.thr
        /\ v.thread = w.thread
    BY <1>c, <2>2, <2>3 DEF TurnType
  <2>5. Same(v, turn[t]) /\ v.thread = turn[t].thread
    BY <1>b, <2>4 DEF Same
  <2>6. \/ turn' = [turn EXCEPT ![t] = Continue(t, v)]
        \/ \E out : turn' = [turn EXCEPT ![t] = End(t, out)]
    BY <1>4, <2>1, <2>3, <2>c DEF ReadAnswer
  <2> QED
    BY <1>d, <1>f, <2>5, <2>6, <2>d, SameUpdates
<1>5. CASE CloseOnCancel(t) \/ CtxDone(t)
  BY <1>5, <1>b, <1>d, <1>e DEF CloseOnCancel, CtxDone
<1>6. CASE ProviderAnswers(t) \/ ProviderAsks(t)
  <2>1. \E msg : turn' = Send(t, msg)
    BY <1>6 DEF ProviderAnswers, ProviderAsks
  <2>2. PICK msg : turn' = [turn EXCEPT ![t] = [turn[t] EXCEPT !.inbox = Append(@, msg)]]
    BY <1>a, <2>1 DEF Send
  <2> QED
    BY <1>d, <2>2, SameUpdates
<1>7. CASE ProviderCompletes(t)
  <2>1. \A x \in Turn : turn'[x] = turn[x]
                          \/ \E msg : turn'[x] = [turn[x] EXCEPT !.inbox = Append(@, msg)]
    BY <1>7 DEF ProviderCompletes
  <2> QED
    BY <2>1, SentKeeps
<1>8. CASE ProviderHangs(t)
  BY <1>8 DEF ProviderHangs, Same
<1> QED
  BY <1>1, <1>2, <1>3, <1>4, <1>5, <1>6, <1>7, <1>8

LEMMA CancelKeeps ==
    ASSUME TurnsInv, NEW s, CancelSession(s)
    PROVE  \A x \in Turn : Same(turn'[x], turn[x]) /\ turn'[x].thread = turn[x].thread
<1>1. \A x \in Turn : turn'[x] = turn[x]
                        \/ \E msg : turn'[x] = [turn[x] EXCEPT !.inbox = Append(@, msg)]
  BY DEF CancelSession
<1> QED
  BY <1>1, SentKeeps

\* The thread of a turn is chosen when it opens its call, and named by the provider.
LEMMA OpenKeeps ==
    ASSUME TurnsInv, NEW t \in Turn, Open(t)
    PROVE  /\ \A x \in Turn : Same(turn'[x], turn[x])
           /\ \A x \in Turn \ {t} : turn'[x].thread = turn[x].thread
           /\ turn'[t].thread \in {None, turn[t].thread, lookupThread(turn[t].sid, turn[t].thr)}
<1>a. turn \in [Turn -> TurnType]
  BY DEF TurnsInv
<1>b. PICK w, y : w = turn[t] /\ y = lookupThread(turn[t].sid, turn[t].thr)
  OBVIOUS
<1>c. w \in TurnType
  BY <1>a, <1>b
<1>1. PICK v : /\ turn' = [turn EXCEPT ![t] = v]
               /\ \/ v = End(t, "unavailable")
                  \/ \E z \in {None, y} : v = [w EXCEPT !.pc = "call", !.sock = OnSocket,
                                                      !.step = FirstStep, !.thread = z]
  BY <1>b DEF Open
<1>2. CASE v = End(t, "unavailable")
  BY <1>1, <1>2, <1>a, SameUpdates DEF Same
<1>3. ASSUME NEW z \in {None, y}, v = [w EXCEPT !.pc = "call", !.sock = OnSocket,
                                               !.step = FirstStep, !.thread = z]
      PROVE  Same(v, w) /\ v.thread = z
  BY <1>3, <1>c DEF Same, TurnType
<1>4. CASE \E z \in {None, y} : v = [w EXCEPT !.pc = "call", !.sock = OnSocket,
                                              !.step = FirstStep, !.thread = z]
  <2>1. Same(v, w) /\ v.thread \in {None, y}
    BY <1>3, <1>4
  <2> QED
    BY <1>1, <1>a, <1>b, <2>1 DEF Same
<1> QED
  BY <1>1, <1>2, <1>4

LEMMA ReadThreadKeeps ==
    ASSUME TurnsInv, NEW t \in Turn, ReadThread(t)
    PROVE  \E x \in Turn :
              /\ x \in {t, turn[t].thread}
              /\ rememberThread(turn[t].sid, turn[t].thr, x) \/ UNCHANGED <<threads, used>>
              /\ \A y \in Turn : Same(turn'[y], turn[y])
              /\ \A y \in Turn \ {t} : turn'[y].thread = turn[y].thread
              /\ turn'[t].thread \in {turn[t].thread, x}
<1>a. turn \in [Turn -> TurnType]
  BY DEF TurnsInv
<1>b. PICK w, x : w = turn[t] /\ x = IF turn[t].thread = None THEN t ELSE turn[t].thread
  OBVIOUS
<1>c. w \in TurnType /\ x \in Turn /\ x \in {t, turn[t].thread}
  BY <1>a, <1>b DEF TurnType
<1>d. turn[t].pc = "call" /\ turn[t].inbox # <<>>
  BY DEF ReadThread, InCall
<1>1. PICK r : r = Rest(t)
  OBVIOUS
<1>2. r = [w EXCEPT !.inbox = Tail(@)] /\ r \in TurnType
  <2>1. r \in TurnType
    BY <1>d, <1>1, RestOK DEF TurnOK
  <2>2. r = [w EXCEPT !.inbox = Tail(@)]
    BY <1>b, <1>1 DEF Rest
  <2> QED
    BY <2>1, <2>2
<1>3. PICK v : v = [r EXCEPT !.step = "turn", !.thread = x]
  OBVIOUS
<1>4. /\ rememberThread(turn[t].sid, turn[t].thr, x) \/ UNCHANGED <<threads, used>>
      /\ \/ turn' = [turn EXCEPT ![t] = Continue(t, v)]
         \/ turn' = [turn EXCEPT ![t] = End(t, "error")]
  BY <1>b, <1>1, <1>3 DEF ReadThread
<1>5. /\ v.pc = w.pc /\ v.rec = w.rec /\ v.sid = w.sid /\ v.thr = w.thr
      /\ v.thread = x
  BY <1>c, <1>2, <1>3 DEF TurnType
<1>g. r \in TurnType
  BY <1>2
<1>e. v \in TurnType
  BY <1>c, <1>g, <1>3 DEF TurnType
<1>6. Same(v, turn[t])
  BY <1>b, <1>5 DEF Same
<1>7. Same(Continue(t, v), turn[t]) /\ Continue(t, v).thread = x
  BY <1>5, <1>6, <1>e, SameContinues
<1>f. Same(End(t, "error"), turn[t]) /\ End(t, "error").thread = turn[t].thread
  BY SameUpdates
<1>8. /\ \A y \in Turn : Same(turn'[y], turn[y])
      /\ \A y \in Turn \ {t} : turn'[y].thread = turn[y].thread
      /\ turn'[t].thread \in {turn[t].thread, x}
  BY <1>4, <1>7, <1>a, <1>f DEF Same
<1> QED
  BY <1>4, <1>8, <1>c

LEMMA StatesStart == CompatInit => StateTypes
BY DEF CompatInit, StateTypes, Id

LEMMA StoredType == ASSUME StateTypes, NEW t, turn[t].sid \in Id
                    PROVE  Stored(t) \in [Id -> {"none", "completed", "cancelled"}]
BY DEF StateTypes, Stored

LEMMA StatesStep == TurnsInv /\ StateTypes /\ [CompatNext]_vars => StateTypes'
<1> SUFFICES ASSUME TurnsInv, StateTypes, [CompatNext]_vars PROVE StateTypes'
  OBVIOUS
<1>a. \A t \in Turn : /\ turn[t].sid \in Id /\ turn[t].thr \in Id /\ turn[t].rec \in Turn \cup {None}
                      /\ turn[t].pc \notin {"idle", "done"} => turn[t].rec \in Turn
  <2>1. \A t \in Turn : turn[t] \in TurnType /\ TurnOK(t, turn[t], up[t])
    BY DEF TurnsInv
  <2> QED
    BY <2>1 DEF TurnOK, TurnType
<1>1. CASE UNCHANGED <<sessions, task, compatOf, threads, store, used>>
  BY <1>1 DEF StateTypes, Id
<1>2. ASSUME NEW t \in Turn, NEW m \in {"session.start", "session.message"}, NEW n \in Names,
             Begin(t, m, n)
      PROVE  StateTypes'
  <2>1. PICK s, rec : s = n[1] /\ rec = IF sessions[s] = None THEN t ELSE sessions[s]
    OBVIOUS
  <2>2. s \in Id /\ rec \in Turn
    BY <2>1, NamesOK DEF StateTypes
  <2>3. /\ sessions' = [sessions EXCEPT ![s] = rec] /\ task' = [task EXCEPT ![rec] = "running"]
        /\ UNCHANGED <<compatOf, threads, store, used>>
    BY <1>2, <2>1 DEF Begin
  <2> QED
    BY <2>2, <2>3 DEF StateTypes, Id
<1>3. ASSUME NEW t \in Turn, UseCompat(t) PROVE StateTypes'
  BY <1>3, <1>a DEF UseCompat, StateTypes, Id
<1>4. ASSUME NEW t \in Turn, OpenFails(t) \/ ReadAnswer(t) \/ CallFails(t) PROVE StateTypes'
  <2>1. /\ UNCHANGED <<sessions, task, compatOf, threads, used>>
        /\ store' \in {store, Stored(t)}
    BY <1>4 DEF OpenFails, ReadAnswer, CallFails
  <2> QED
    BY <1>a, <2>1, StoredType DEF StateTypes, Id
<1>5. ASSUME NEW t \in Turn, ReadThread(t) PROVE StateTypes'
  <2>1. PICK x \in Turn :
          rememberThread(turn[t].sid, turn[t].thr, x) \/ UNCHANGED <<threads, used>>
    BY <1>5, ReadThreadKeeps
  <2>2. UNCHANGED <<sessions, task, compatOf, store>>
    BY <1>5 DEF ReadThread
  <2>3. Keys(turn[t].sid, turn[t].thr) \in SUBSET Id
    BY <1>a DEF Keys
  <2> QED
    BY <2>1, <2>2, <2>3 DEF StateTypes, rememberThread, Id
<1>6. ASSUME NEW t \in Turn, Settle(t) PROVE StateTypes'
  <2>1. PICK r, z : /\ r = turn[t].rec /\ task' = [task EXCEPT ![r] = z]
                    /\ z \in {"none", "failed", "completed"}
                    /\ compatOf' \in {compatOf, compatOf \ {r}}
                    /\ UNCHANGED <<sessions, threads, store, used>>
    BY <1>6 DEF Settle, SettledAs
  <2> QED
    BY <2>1 DEF StateTypes, Id
<1>7. ASSUME NEW s \in Session \cup {NoId}, CancelSession(s) PROVE StateTypes'
  BY <1>7 DEF CancelSession, StateTypes, Id
<1>8. ASSUME NEW s \in Session \cup {NoId}, CloseSession(s) PROVE StateTypes'
  <2>1. PICK r, z : /\ r = sessions[s] /\ task' = [task EXCEPT ![r] = z]
                    /\ z \in {"none", task[r]}
                    /\ sessions' = [sessions EXCEPT ![s] = None]
                    /\ compatOf' \in {compatOf, compatOf \ {r}} /\ r # None
                    /\ UNCHANGED <<threads, store, used>>
    BY <1>8 DEF CloseSession
  <2>2. s \in Id
    BY DEF Id
  <2> QED
    BY <2>1, <2>2 DEF StateTypes, Id
<1>9. ASSUME NEW t \in Turn,
             \/ Open(t) \/ ReadPermission(t) \/ ReadCompleted(t) \/ CloseOnCancel(t) \/ CtxDone(t)
             \/ ProviderAnswers(t) \/ ProviderAsks(t) \/ ProviderCompletes(t) \/ ProviderHangs(t)
             \/ SocketDrops(t)
      PROVE  StateTypes'
  BY <1>1, <1>9 DEF Open, ReadPermission, ReadCompleted, CloseOnCancel, CtxDone, ProviderAnswers,
     ProviderAsks, ProviderCompletes, ProviderHangs, SocketDrops
<1>10. CASE UNCHANGED vars
  BY <1>1, <1>10 DEF vars
<1> QED
  BY <1>2, <1>3, <1>4, <1>5, <1>6, <1>7, <1>8, <1>9, <1>10 DEF CompatNext

\* A turn that starts takes its request's names and a record; one that settles is over.
LEMMA BeginIs ==
    ASSUME TurnsInv, StateTypes, NEW t \in Turn, NEW m, NEW n \in Names, Begin(t, m, n)
    PROVE  /\ \A x \in Turn \ {t} : turn'[x] = turn[x]
           /\ turn[t].pc = "idle" /\ turn'[t].pc = "begun" /\ turn'[t].thread = None
           /\ turn'[t].rec \in Turn /\ task' = [task EXCEPT ![turn'[t].rec] = "running"]
           /\ UNCHANGED <<threads, used>>
<1>1. PICK w, rec : w = turn[t] /\ rec = IF sessions[n[1]] = None THEN t ELSE sessions[n[1]]
  OBVIOUS
<1>2. w \in TurnType /\ TurnOK(t, w, up[t]) /\ rec \in Turn
  BY <1>1, NamesOK DEF TurnsInv, StateTypes
<1>3. PICK v : v = [w EXCEPT !.pc = "begun", !.method = m, !.sid = n[1], !.thr = n[2], !.rec = rec]
  OBVIOUS
<1>4. /\ turn' = [turn EXCEPT ![t] = v] /\ w.pc = "idle"
      /\ task' = [task EXCEPT ![rec] = "running"] /\ UNCHANGED <<threads, used>>
  BY <1>1, <1>3 DEF Begin
<1>5. v.pc = "begun" /\ v.rec = rec /\ v.thread = w.thread
  BY <1>2, <1>3 DEF TurnType
<1>6. w.thread = None
  BY <1>2, <1>4 DEF TurnOK
<1>7. turn'[t] = v /\ \A x \in Turn \ {t} : turn'[x] = turn[x]
  BY <1>4 DEF TurnsInv
<1> QED
  BY <1>1, <1>2, <1>4, <1>5, <1>6, <1>7

LEMMA SettleIs ==
    ASSUME TurnsInv, NEW t \in Turn, Settle(t)
    PROVE  /\ \A x \in Turn \ {t} : turn'[x] = turn[x]
           /\ \/ turn'[t].thread = None
              \/ /\ turn'[t].thread = turn[t].thread
                 /\ turn'[t].sid = turn[t].sid /\ turn'[t].thr = turn[t].thr
           /\ \E z \in {"none", "failed", "completed"} : task' = [task EXCEPT ![turn[t].rec] = z]
           /\ UNCHANGED <<threads, used>>
<1>1. PICK w, i : w = turn[t] /\ i = Idle
  OBVIOUS
<1>2. PICK v : /\ v = IF GoesOn(t)
                      THEN [i EXCEPT !.pc = "done", !.sid = w.sid, !.thr = w.thr,
                                     !.thread = w.thread]
                      ELSE [i EXCEPT !.pc = "done"]
  OBVIOUS
<1>3. turn' = [turn EXCEPT ![t] = v]
  BY <1>1, <1>2 DEF Settle
<1>4. v.thread = None \/ (v.thread = w.thread /\ v.sid = w.sid /\ v.thr = w.thr)
  BY <1>1, <1>2 DEF Idle
<1>5. \E z \in {"none", "failed", "completed"} : task' = [task EXCEPT ![turn[t].rec] = z]
  BY DEF Settle, SettledAs
<1>6. turn'[t] = v /\ \A x \in Turn \ {t} : turn'[x] = turn[x]
  BY <1>3 DEF TurnsInv
<1>7. UNCHANGED <<threads, used>>
  BY DEF Settle
<1> QED
  BY <1>1, <1>4, <1>5, <1>6, <1>7

\* While every turn keeps its record and no task starts to run, nothing is left behind.
LEMMA RunningKept ==
    ASSUME RunningHasTurn, \A x \in Turn : Same(turn'[x], turn[x]),
           \A r \in Turn : task'[r] = "running" => task[r] = "running"
    PROVE  RunningHasTurn'
BY DEF RunningHasTurn, InFlight, Same

LEMMA RunningStep == TurnsInv /\ StateTypes /\ RunningHasTurn /\ [CompatNext]_vars => RunningHasTurn'
<1> SUFFICES ASSUME TurnsInv, StateTypes, RunningHasTurn, [CompatNext]_vars PROVE RunningHasTurn'
  OBVIOUS
<1>1. ASSUME NEW t \in Turn, NEW m, NEW n \in Names, Begin(t, m, n) PROVE RunningHasTurn'
  <2>1. /\ \A x \in Turn \ {t} : turn'[x] = turn[x]
        /\ turn[t].pc = "idle" /\ turn'[t].pc = "begun" /\ turn'[t].rec \in Turn
        /\ task' = [task EXCEPT ![turn'[t].rec] = "running"]
    BY <1>1, BeginIs
  <2>2. ASSUME NEW r \in Turn, task'[r] = "running"
        PROVE  \E x \in Turn : turn'[x].pc \notin {"idle", "done"} /\ turn'[x].rec = r
    <3>1. CASE r = turn'[t].rec
      BY <2>1, <3>1
    <3>2. CASE r # turn'[t].rec
      <4>1. task[r] = "running"
        BY <2>1, <2>2, <3>2 DEF StateTypes
      <4>2. PICK x \in Turn : turn[x].pc \notin {"idle", "done"} /\ turn[x].rec = r
        BY <4>1 DEF RunningHasTurn, InFlight
      <4> QED
        BY <2>1, <4>2
    <3> QED
      BY <3>1, <3>2
  <2> QED
    BY <2>2 DEF RunningHasTurn, InFlight
<1>2. ASSUME NEW t \in Turn, Settle(t) PROVE RunningHasTurn'
  <2>1. \A x \in Turn \ {t} : turn'[x] = turn[x]
    BY <1>2, SettleIs
  <2>2. PICK z \in {"none", "failed", "completed"} : task' = [task EXCEPT ![turn[t].rec] = z]
    BY <1>2, SettleIs
  <2>3. ASSUME NEW r \in Turn, task'[r] = "running"
        PROVE  \E x \in Turn : turn'[x].pc \notin {"idle", "done"} /\ turn'[x].rec = r
    <3>1. task[r] = "running" /\ r # turn[t].rec
      BY <2>2, <2>3 DEF StateTypes
    <3>2. PICK x \in Turn : turn[x].pc \notin {"idle", "done"} /\ turn[x].rec = r
      BY <3>1 DEF RunningHasTurn, InFlight
    <3> QED
      BY <2>1, <3>1, <3>2
  <2> QED
    BY <2>3 DEF RunningHasTurn, InFlight
<1>3. ASSUME NEW t \in Turn,
             \/ UseCompat(t) \/ Open(t) \/ OpenFails(t) \/ ReadPermission(t) \/ ReadCompleted(t)
             \/ ReadThread(t) \/ ReadAnswer(t) \/ CallFails(t) \/ CloseOnCancel(t) \/ CtxDone(t)
             \/ ProviderAnswers(t) \/ ProviderAsks(t) \/ ProviderCompletes(t)
             \/ ProviderHangs(t) \/ SocketDrops(t)
      PROVE  RunningHasTurn'
  <2>1. \A x \in Turn : Same(turn'[x], turn[x])
    BY <1>3, KeepingSteps, OpenKeeps, ReadThreadKeeps
  <2>2. UNCHANGED task
    BY <1>3 DEF UseCompat, Open, OpenFails, ReadPermission, ReadCompleted, ReadThread, ReadAnswer,
       CallFails, CloseOnCancel, CtxDone, ProviderAnswers, ProviderAsks, ProviderCompletes,
       ProviderHangs, SocketDrops
  <2> QED
    BY <2>1, <2>2, RunningKept
<1>4. ASSUME NEW s \in Session \cup {NoId}, CancelSession(s) PROVE RunningHasTurn'
  <2>1. \A x \in Turn : Same(turn'[x], turn[x])
    BY <1>4, CancelKeeps
  <2>2. task' = [task EXCEPT ![sessions[s]] = "cancelled"]
    BY <1>4 DEF CancelSession
  <2>3. \A r \in Turn : task'[r] = "running" => task[r] = "running"
    BY <2>2 DEF StateTypes
  <2> QED
    BY <2>1, <2>3, RunningKept
<1>5. ASSUME NEW s \in Session \cup {NoId}, CloseSession(s) PROVE RunningHasTurn'
  <2>1. PICK z : task' = [task EXCEPT ![sessions[s]] = z] /\ z \in {"none", task[sessions[s]]}
    BY <1>5 DEF CloseSession
  <2>2. \A r \in Turn : task'[r] = "running" => task[r] = "running"
    BY <2>1 DEF StateTypes
  <2>3. \A x \in Turn : Same(turn'[x], turn[x])
    BY <1>5 DEF CloseSession, Same
  <2> QED
    BY <2>2, <2>3, RunningKept
<1>6. CASE UNCHANGED vars
  BY <1>6, RunningKept DEF vars, Same
<1> QED
  BY <1>1, <1>2, <1>3, <1>4, <1>5, <1>6 DEF CompatNext

\* The map never has an entry for the empty id, and an entry names a thread that was
\* remembered under that very id.
ThreadInv == \A i \in Id : threads[i] # None => i # NoId /\ i \in used[threads[i]]

\* ThreadIsOwn, for one turn.
OwnThread(t, v, uu) ==
    v.thread \notin {None, t} => \E i \in {v.sid, v.thr} : i # NoId /\ i \in uu[v.thread]

LEMMA OwnThreadIs == ThreadIsOwn <=> \A t \in Turn : OwnThread(t, turn[t], used)
BY DEF ThreadIsOwn, OwnThread

\* While the maps and the threads of the turns stay, so does all of this.
LEMMA OwnKept ==
    ASSUME ThreadInv, ThreadIsOwn, UNCHANGED <<threads, used>>,
           \A x \in Turn : OwnThread(x, turn[x], used) => OwnThread(x, turn'[x], used)
    PROVE  ThreadInv' /\ ThreadIsOwn'
<1>1. ThreadInv'
  BY DEF ThreadInv, Id
<1>2. \A x \in Turn : OwnThread(x, turn'[x], used')
  BY OwnThreadIs
<1>3. ThreadIsOwn'
  BY <1>2 DEF ThreadIsOwn, OwnThread
<1> QED
  BY <1>1, <1>3

\* What a lookup finds was remembered under one of the two ids it is asked for.
LEMMA LookupIsOwn ==
    ASSUME ThreadInv, NEW s \in Id, NEW h \in Id, lookupThread(s, h) # None
    PROVE  \E i \in {s, h} : i # NoId /\ i \in used[lookupThread(s, h)]
BY DEF ThreadInv, lookupThread

LEMMA ThreadsStep ==
    TurnsInv /\ StateTypes /\ ThreadInv /\ ThreadIsOwn /\ [CompatNext]_vars
        => ThreadInv' /\ ThreadIsOwn'
<1> SUFFICES ASSUME TurnsInv, StateTypes, ThreadInv, ThreadIsOwn, [CompatNext]_vars
             PROVE  ThreadInv' /\ ThreadIsOwn'
  OBVIOUS
<1>a. \A t \in Turn : turn[t].sid \in Id /\ turn[t].thr \in Id /\ turn[t].thread \in Turn \cup {None}
  BY DEF TurnsInv, TurnType
<1>b. ASSUME UNCHANGED <<threads, used>>,
             \A x \in Turn : Same(turn'[x], turn[x]) /\ turn'[x].thread = turn[x].thread
      PROVE  ThreadInv' /\ ThreadIsOwn'
  BY <1>b, OwnKept DEF OwnThread, Same
<1>1. ASSUME NEW t \in Turn, NEW m, NEW n \in Names, Begin(t, m, n)
      PROVE  ThreadInv' /\ ThreadIsOwn'
  BY <1>1, BeginIs, OwnKept DEF OwnThread
<1>2. ASSUME NEW t \in Turn, Settle(t) PROVE ThreadInv' /\ ThreadIsOwn'
  <2>1. OwnThread(t, turn[t], used) => OwnThread(t, turn'[t], used)
    BY <1>2, SettleIs DEF OwnThread
  <2>2. UNCHANGED <<threads, used>> /\ \A x \in Turn \ {t} : turn'[x] = turn[x]
    BY <1>2, SettleIs
  <2> QED
    BY <2>1, <2>2, OwnKept
<1>3. ASSUME NEW t \in Turn, Open(t) PROVE ThreadInv' /\ ThreadIsOwn'
  <2>1. /\ \A x \in Turn : Same(turn'[x], turn[x])
        /\ \A x \in Turn \ {t} : turn'[x].thread = turn[x].thread
        /\ turn'[t].thread \in {None, turn[t].thread, lookupThread(turn[t].sid, turn[t].thr)}
    BY <1>3, OpenKeeps
  <2>2. UNCHANGED <<threads, used>>
    BY <1>3 DEF Open
  <2>3. OwnThread(t, turn[t], used) => OwnThread(t, turn'[t], used)
    BY <1>a, <2>1, LookupIsOwn DEF OwnThread, Same
  <2>4. \A x \in Turn : OwnThread(x, turn[x], used) => OwnThread(x, turn'[x], used)
    BY <2>1, <2>3 DEF OwnThread, Same
  <2> QED
    BY <2>2, <2>4, OwnKept
<1>4. ASSUME NEW t \in Turn, ReadThread(t) PROVE ThreadInv' /\ ThreadIsOwn'
  <2>1. PICK x \in Turn :
          /\ x \in {t, turn[t].thread}
          /\ rememberThread(turn[t].sid, turn[t].thr, x) \/ UNCHANGED <<threads, used>>
          /\ \A y \in Turn : Same(turn'[y], turn[y])
          /\ \A y \in Turn \ {t} : turn'[y].thread = turn[y].thread
          /\ turn'[t].thread \in {turn[t].thread, x}
    BY <1>4, ReadThreadKeeps
  <2>2. PICK keys : keys = Keys(turn[t].sid, turn[t].thr)
    OBVIOUS
  <2>3. \/ /\ threads' = [i \in Id |-> IF i \in keys THEN x ELSE threads[i]]
           /\ used' = [used EXCEPT ![x] = @ \cup keys] /\ NoId \notin keys
        \/ UNCHANGED <<threads, used>>
    BY <2>1, <2>2 DEF rememberThread, Keys
  <2>4. \A y \in Turn : used[y] \subseteq used'[y]
    BY <2>3 DEF StateTypes
  <2>5. \A i \in Id : threads'[i] # None => i # NoId /\ i \in used'[threads'[i]]
    <3>1. CASE UNCHANGED <<threads, used>>
      BY <3>1 DEF ThreadInv
    <3>2. CASE /\ threads' = [i \in Id |-> IF i \in keys THEN x ELSE threads[i]]
               /\ used' = [used EXCEPT ![x] = @ \cup keys] /\ NoId \notin keys
      <4>1. keys \subseteq used'[x]
        BY <3>2 DEF StateTypes
      <4> QED
        BY <2>4, <3>2, <4>1 DEF ThreadInv, StateTypes
    <3> QED
      BY <2>3, <3>1, <3>2
  <2>6. \A y \in Turn : OwnThread(y, turn[y], used) => OwnThread(y, turn'[y], used')
    <3>1. \A y \in Turn : turn'[y].thread \in {y, turn[y].thread}
      BY <2>1
    <3> QED
      BY <1>a, <2>1, <2>4, <3>1 DEF OwnThread, Same
  <2>7. ThreadIsOwn'
    <3>1. \A y \in Turn : OwnThread(y, turn'[y], used')
      BY <2>6, OwnThreadIs
    <3> QED
      BY <3>1 DEF ThreadIsOwn, OwnThread
  <2>8. ThreadInv'
    BY <2>5 DEF ThreadInv, Id
  <2> QED
    BY <2>7, <2>8
<1>5. ASSUME NEW t \in Turn,
             \/ UseCompat(t) \/ OpenFails(t) \/ ReadPermission(t) \/ ReadCompleted(t)
             \/ ReadAnswer(t) \/ CallFails(t) \/ CloseOnCancel(t) \/ CtxDone(t)
             \/ ProviderAnswers(t) \/ ProviderAsks(t) \/ ProviderCompletes(t)
             \/ ProviderHangs(t) \/ SocketDrops(t)
      PROVE  ThreadInv' /\ ThreadIsOwn'
  <2>1. UNCHANGED <<threads, used>>
    BY <1>5 DEF UseCompat, OpenFails, ReadPermission, ReadCompleted, ReadAnswer, CallFails,
       CloseOnCancel, CtxDone, ProviderAnswers, ProviderAsks, ProviderCompletes,
       ProviderHangs, SocketDrops
  <2> QED
    BY <1>5, <1>b, <2>1, KeepingSteps
<1>6. ASSUME NEW s \in Session \cup {NoId}, CancelSession(s) PROVE ThreadInv' /\ ThreadIsOwn'
  <2>1. UNCHANGED <<threads, used>>
    BY <1>6 DEF CancelSession
  <2> QED
    BY <1>6, <1>b, <2>1, CancelKeeps
<1>7. ASSUME NEW s \in Session \cup {NoId}, CloseSession(s) PROVE ThreadInv' /\ ThreadIsOwn'
  BY <1>7, <1>b DEF CloseSession, Same
<1>8. CASE UNCHANGED vars
  BY <1>8, <1>b DEF vars, Same
<1> QED
  BY <1>1, <1>2, <1>3, <1>4, <1>5, <1>6, <1>7, <1>8 DEF CompatNext

LEMMA OwnStart == CompatInit => ThreadInv /\ ThreadIsOwn /\ RunningHasTurn
<1> SUFFICES ASSUME CompatInit PROVE ThreadInv /\ ThreadIsOwn /\ RunningHasTurn
  OBVIOUS
<1>1. \A t \in Turn : turn[t].thread = None
  BY DEF CompatInit, Idle
<1> QED
  BY <1>1 DEF CompatInit, ThreadInv, ThreadIsOwn, RunningHasTurn

-----------------------------------------------------------------------------
(* The theorems *)

LEMMA CompatInvariant ==
    CompatSpec => [](TurnsInv /\ StateTypes /\ RunningHasTurn /\ ThreadInv /\ ThreadIsOwn)
<1>1. CompatInit => TurnsInv /\ StateTypes /\ RunningHasTurn /\ ThreadInv /\ ThreadIsOwn
  BY TurnsStart, StatesStart, OwnStart
<1>2. TurnsInv /\ StateTypes /\ RunningHasTurn /\ ThreadInv /\ ThreadIsOwn /\ [CompatNext]_vars
        => (TurnsInv /\ StateTypes /\ RunningHasTurn /\ ThreadInv /\ ThreadIsOwn)'
  BY TurnsStep, StatesStep, RunningStep, ThreadsStep
<1> QED
  BY <1>1, <1>2, PTL DEF CompatSpec

\* The types of the orchestrator's table, the compats' maps and the turns.
THEOREM CompatTypes == CompatSpec => []CompatTypeOK
<1>1. TurnsInv /\ StateTypes => CompatTypeOK
  <2> SUFFICES ASSUME TurnsInv, StateTypes PROVE CompatTypeOK
    OBVIOUS
  <2>1. ASSUME NEW t \in Turn
        PROVE  /\ turn[t].pc \in {"idle", "begun", "ready", "call", "ended", "done"}
               /\ turn[t].thread \in Turn \cup {None} /\ turn[t].rec \in Turn \cup {None}
               /\ turn[t].sock => InCall(t) /\ OnSocket
               /\ turn[t].outcome = "mock" => kind = "dsbot"
    <3>1. PICK w : w = turn[t]
      OBVIOUS
    <3>2. w \in TurnType /\ TurnOK(t, w, up[t])
      BY <3>1 DEF TurnsInv
    <3>3. /\ w.pc \in {"idle", "begun", "ready", "call", "ended", "done"}
          /\ w.thread \in Turn \cup {None} /\ w.rec \in Turn \cup {None}
      BY <3>2 DEF TurnType
    <3>4. (w.sock => w.pc = "call" /\ OnSocket) /\ (w.outcome = "mock" => kind = "dsbot")
      BY <3>2 DEF TurnOK
    <3> QED
      BY <3>1, <3>3, <3>4 DEF InCall
  <2> QED
    BY <2>1 DEF CompatTypeOK, StateTypes, TurnsInv, Working
<1> QED
  BY <1>1, CompatInvariant, PTL

\* A result is the end of the turn's own work, unless Codex left out an id that would
\* have told the end of another turn of the thread from it: writeAndReadWSRPC takes
\* neither a turn/completed that names another turn nor an answer in progress for it.
THEOREM ResultsAreOwn == CompatSpec => []ResultIsOwn
<1>1. TurnsInv => ResultIsOwn
  BY DEF TurnsInv, TurnOK, ResultIsOwn, Untold
<1> QED
  BY <1>1, CompatInvariant, PTL

\* Whatever refuses, fails, cancels or closes, a record says that its task runs only
\* while a turn of it is between the start and the end of Process.
THEOREM RunningHasItsTurn == CompatSpec => []RunningHasTurn
BY CompatInvariant, PTL

\* codexCompat's map of threads never hands a turn the thread of requests that share
\* neither its session id nor its thread id.
THEOREM ThreadsAreOwn == CompatSpec => []ThreadIsOwn
BY CompatInvariant, PTL
=============================================================================
