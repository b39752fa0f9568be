--------------------------- MODULE AcpAgentAdapter ---------------------------
(***************************************************************************)
(* internal/acpagentadapter: one child process that speaks ACP on its      *)
(* pipes (agent.go) behind a WebSocket server (server.go).  A turn opens   *)
(* or continues the agent session of one bridge session, binds the model   *)
(* it was asked for, and prompts; while the prompt runs, a listener keyed  *)
(* by the agent session collects its text and relays its permission        *)
(* prompts.  Every turn has a connection of its own, whose end cancels it. *)
(* A call to the agent is a step that sends and a step that returns.       *)
(*                                                                         *)
(* session.cancel changes no state of the adapter: it forwards             *)
(* session/cancel, and the agent may end a prompt at any time anyway.      *)
(***************************************************************************)
EXTENDS Naturals, FiniteSets

CONSTANTS
    Turn,    \* session.start and session.message requests of one bridge session
    MaxAsk,  \* how many permission requests the agent sends (a bound of the model)
    MaxAcp,  \* how many sessions the agent opens (a bound of the model)
    Model,   \* models
    Default, \* the model a new agent session has
    Wanted,  \* what requests give as model; None: nothing
    None

ASSUME AdapterAssumption ==
    /\ Default \in Model
    /\ Wanted \subseteq Model \cup {None}
    /\ MaxAcp \in Nat /\ MaxAsk \in Nat
    /\ None \notin Turn \cup Model \cup Nat

\* Session ids of the agent, in the order it hands them out.
Acp == 1..MaxAcp

\* Its permission requests, in the order it sends them.
Ask == 1..MaxAsk

VARIABLES
    process,   \* the child: not started, running, exited
    init,      \* initOnce: not run, run by a turn, or its recorded outcome
    sessions,  \* s.sessions[sessionID]: the agent session, or None
    bound,     \* state.boundModel, per agent session
    model,     \* the agent's own setting, per agent session; None: not open
    listener,  \* a.listeners
    turn,      \* the goroutine of a request, and its connection
    work,      \* the agent session in which the agent works on a turn's prompt
    ask,       \* the goroutine of a permission request, with its entry in pending
    replies,   \* the bridge's replies to them that are under way
    decided,   \* history: the requests for which the bridge selected an option
    alone      \* history: the turns whose prompt has overlapped no other in its session

asks == <<ask, replies, decided>>
prompts == <<listener, work, alone>>
agent == <<bound, model, sessions>>
vars == <<process, init, agent, prompts, turn, asks>>

Steps == {"idle", "init", "handshake", "lookup", "new", "bind", "prompt", "prompting",
          "ended", "refused", "failed", "completed", "verified"}

Answered == {"failed", "completed", "verified"}

NewTurn == [at |-> "idle", method |-> "start", wants |-> None, acp |-> None,
            ctx |-> "live", heard |-> {}]

NoAsk == [at |-> "none", acp |-> None, via |-> None, id |-> 0, got |-> "none"]

AdapterInit ==
    /\ process = "off"
    /\ init = "none"
    /\ sessions = None
    /\ bound = [a \in Acp |-> None]
    /\ model = [a \in Acp |-> None]
    /\ listener = [a \in Acp |-> None]
    /\ turn = [t \in Turn |-> NewTurn]
    /\ work = [t \in Turn |-> None]
    /\ ask = [q \in Ask |-> NoAsk]
    /\ replies = {} /\ decided = {} /\ alone = {}

Set(t, record) == turn' = [turn EXCEPT ![t] = record]
GoTo(t, step) == Set(t, [turn[t] EXCEPT !.at = step])

\* The answer is sent; the connection stays until the bridge closes it.
Answer(t, outcome) == Set(t, [NewTurn EXCEPT !.at = outcome, !.ctx = turn[t].ctx])
Fail(t) == Answer(t, "failed")

-----------------------------------------------------------------------------
(* runTurn up to the session *)

\* A request arrives, on a connection of its own.
Receive(t) ==
    /\ turn[t].at = "idle"
    /\ \E method \in {"start", "message"}, wants \in Wanted :
          Set(t, [NewTurn EXCEPT !.at = "init", !.method = method, !.wants = wants])
    /\ UNCHANGED <<process, init, agent, prompts, asks>>

\* initOnce.Do: the first caller starts the process and shakes hands, the others
\* wait for it, and the outcome is kept for good, that of a process which could not
\* be started too.
Initialize(t) ==
    /\ turn[t].at = "init"
    /\ \/ init = "none" /\ init' = t /\ process' = "up" /\ GoTo(t, "handshake")
       \/ init = "none" /\ init' = "failed" /\ Fail(t) /\ UNCHANGED process
       \/ init = "ok" /\ GoTo(t, "lookup") /\ UNCHANGED <<process, init>>
       \/ init = "failed" /\ Fail(t) /\ UNCHANGED <<process, init>>
    /\ UNCHANGED <<agent, prompts, asks>>

\* The agent answers initialize, with a result or with an error.
Handshake(t) ==
    /\ turn[t].at = "handshake" /\ process = "up"
    /\ \/ init' = "ok" /\ GoTo(t, "lookup")
       \/ init' = "failed" /\ Fail(t)
    /\ UNCHANGED <<process, agent, prompts, asks>>

\* sessionForTurn, up to its first call.  A start closes the session it replaces;
\* an error of that call is only logged.
Lookup(t) ==
    LET a == sessions IN
    /\ turn[t].at = "lookup"
    /\ IF turn[t].method = "message"
       THEN /\ IF a = None THEN Fail(t)
               ELSE Set(t, [turn[t] EXCEPT
                       !.acp = a,
                       !.at = IF turn[t].wants \notin {None, bound[a]} THEN "bind" ELSE "prompt"])
            /\ UNCHANGED model
       ELSE /\ GoTo(t, "new")
            /\ model' = [b \in Acp |-> IF b = a THEN None ELSE model[b]]
    /\ UNCHANGED <<process, init, sessions, bound, prompts, asks>>

\* session/new; the working directory may be refused before, the call may fail.
NewSession(t) ==
    /\ turn[t].at = "new"
    /\ \/ /\ Fail(t)
          /\ UNCHANGED <<sessions, bound, model>>
       \/ LET a == Cardinality({b \in Acp : bound[b] # None}) + 1 IN
          /\ process = "up" /\ a \in Acp
          /\ model' = [model EXCEPT ![a] = Default]
          /\ bound' = [bound EXCEPT ![a] = Default]
          /\ Set(t, [turn[t] EXCEPT !.acp = a,
                                    !.at = IF turn[t].wants = None THEN "prompt" ELSE "bind"])
          /\ sessions' = IF turn[t].wants = None THEN a ELSE sessions
    /\ UNCHANGED <<process, init, prompts, asks>>

-----------------------------------------------------------------------------
(* bindModel *)

\* The agent applies session/set_config_option.  It may refuse, it may report another
\* model than the one it was asked for, and the answer may come after the caller has
\* gone: whatever the agent did then stays.  A start closes its new session after that.
\* The model that was read back is recorded, and a start publishes its session.
BindModel(t) ==
    LET a == turn[t].acp IN
    /\ turn[t].at = "bind"
    /\ \/ /\ process = "up" /\ model[a] # None
          /\ model' = [model EXCEPT ![a] = turn[t].wants]
          /\ bound' = [bound EXCEPT ![a] = turn[t].wants]
          /\ sessions' = IF turn[t].method = "start" THEN a ELSE sessions
          /\ GoTo(t, "prompt")
       \/ /\ Fail(t)
          /\ UNCHANGED <<bound, sessions>>
          /\ \/ turn[t].method = "start" /\ model' = [model EXCEPT ![a] = None]
             \/ turn[t].method = "message" /\ UNCHANGED model
             \/ /\ turn[t].method = "message" /\ process = "up" /\ model[a] # None
                /\ \E any \in Model : model' = [model EXCEPT ![a] = any]
    /\ UNCHANGED <<process, init, prompts, asks>>

-----------------------------------------------------------------------------
(* The prompt *)

\* Turns with a prompt in agent session a, at the agent or in the adapter.
Active(a) ==
    {u \in Turn : \/ work[u] = a
                  \/ turn[u].acp = a /\ turn[u].at \in {"prompting", "ended", "refused"}}

\* The listener is set, over that of another turn if there is one, and the prompt sent.
\* An agent that lives works on it, unless the session was closed meanwhile.
SendPrompt(t) ==
    LET a == turn[t].acp IN
    /\ turn[t].at = "prompt"
    /\ GoTo(t, "prompting")
    /\ listener' = [listener EXCEPT ![a] = t]
    /\ work' = [work EXCEPT ![t] = IF model[a] = None THEN None ELSE a]
    /\ alone' = (alone \ Active(a)) \cup (IF Active(a) = {} THEN {t} ELSE {})
    /\ UNCHANGED <<process, init, agent, asks>>

\* The agent answers session/prompt: end_turn, or an error or another reason, which
\* is all it has for a prompt in a session that it closed.
PromptEnds(t) ==
    /\ turn[t].at = "prompting" /\ process = "up"
    /\ \/ work[t] # None /\ GoTo(t, "ended")
       \/ GoTo(t, "refused")
    /\ work' = [work EXCEPT ![t] = None]
    /\ UNCHANGED <<process, init, agent, listener, alone, asks>>

\* modelBinding.verified: the requested model is the one recorded for the session
\* when the turn ends.
Verdict(t) ==
    IF turn[t].wants # None /\ turn[t].wants = bound[turn[t].acp] THEN "verified" ELSE "completed"

\* Whoever listens to the session by now is removed.
removeListener(t) == listener' = [listener EXCEPT ![turn[t].acp] = None]

\* runTurn after its call: the text that was collected, and the deferred removal.
FinishTurn(t) ==
    /\ turn[t].at \in {"ended", "refused"}
    /\ Answer(t, IF turn[t].at = "ended" THEN Verdict(t) ELSE "failed")
    /\ removeListener(t)
    /\ alone' = alone \ {t}
    /\ UNCHANGED <<process, init, agent, work, asks>>

\* A prompt that nobody waits for was cancelled at the agent, which stops when it
\* gets to it.
AgentStops(t) ==
    /\ work[t] # None /\ turn[t].at # "prompting"
    /\ work' = [work EXCEPT ![t] = None]
    /\ UNCHANGED <<process, init, agent, listener, alone, turn, asks>>

\* Mutant: one listener for the whole process.
listenerOfAny(a) ==
    IF \E u \in Turn : \E b \in Acp : listener[b] = u
    THEN CHOOSE u \in Turn : \E b \in Acp : listener[b] = u ELSE None

\* dispatch finds the listener by the session id of the message.
listenerOf(a) == listener[a]

\* session/update with text of t's prompt, also after its turn has gone.
Chunk(t) ==
    LET a == work[t] IN
    /\ a # None /\ listenerOf(a) # None
    /\ turn' = [turn EXCEPT ![listenerOf(a)].heard = @ \cup {<<t, a>>}]
    /\ UNCHANGED <<process, init, agent, prompts, asks>>

-----------------------------------------------------------------------------
(* Permissions *)

SetAsk(q, record) == ask' = [ask EXCEPT ![q] = record]

\* session/request_permission of a prompt; a goroutine of its own takes it.
AskPermission(q) ==
    /\ ask[q] = NoAsk /\ \A p \in 1..(q - 1) : ask[p] # NoAsk
    /\ \E t \in Turn : work[t] # None /\ SetAsk(q, [NoAsk EXCEPT !.at = "asked", !.acp = work[t]])
    /\ UNCHANGED <<process, init, agent, prompts, turn, replies, decided>>

\* p.nextID of the connection of a turn.
nextID(u) == Cardinality({q \in Ask : ask[q].via = u}) + 1

\* answerAgentRequest, relayPermission, peer.request: whoever listens by now has the
\* connection over which it goes; without a listener it is refused.
RelayPermission(q) ==
    LET u == listenerOf(ask[q].acp) IN
    /\ ask[q].at = "asked"
    /\ IF u = None THEN SetAsk(q, [NoAsk EXCEPT !.at = "denied"])
       ELSE SetAsk(q, [NoAsk EXCEPT !.at = "relayed", !.via = u, !.id = nextID(u)])
    /\ UNCHANGED <<process, init, agent, prompts, turn, replies, decided>>

\* The bridge answers a request it got, be it that the adapter has given up since.  A
\* reply that is malformed or selects what was not offered counts as refused.
BridgeReplies(q) ==
    /\ ask[q].via # None /\ turn[ask[q].via].ctx = "live"
    /\ q \notin decided /\ ask[q].got = "none"
    /\ \A r \in replies : r.id # ask[q].id \/ r.via # ask[q].via
    /\ \E verdict \in {"selected", "refused"} :
          /\ replies' = replies \cup {[via |-> ask[q].via, id |-> ask[q].id, verdict |-> verdict]}
          /\ decided' = IF verdict = "selected" THEN decided \cup {q} ELSE decided
    /\ UNCHANGED <<process, init, agent, prompts, turn, ask>>

\* Mutant: the reply is given to whoever waits on the connection.
waitsForAny(r) == {q \in Ask : ask[q].at = "relayed" /\ ask[q].via = r.via}

\* p.pending[id] of the connection that the reply came in on.
waitsFor(r) == {q \in Ask : ask[q].at = "relayed" /\ ask[q].via = r.via /\ ask[q].id = r.id}

\* peer.deliver: a reply for which nobody waits is ignored.
Deliver(r) ==
    /\ turn[r.via].ctx = "live"
    /\ replies' = replies \ {r}
    /\ \/ waitsFor(r) = {} /\ UNCHANGED ask
       \/ \E q \in waitsFor(r) : ask' = [ask EXCEPT ![q].got = r.verdict]
    /\ UNCHANGED <<process, init, agent, prompts, turn, decided>>

\* The select of peer.request and the rest of relayPermission: only a selected option
\* is passed on; a refusal, the timeout and the end of the connection, which may win
\* over a reply that is already there, deny the tool.
EndRelay(q) ==
    /\ ask[q].at = "relayed"
    /\ \/ ask[q].got = "selected" /\ SetAsk(q, [ask[q] EXCEPT !.at = "approved"])
       \/ SetAsk(q, [ask[q] EXCEPT !.at = "denied"])
    /\ UNCHANGED <<process, init, agent, prompts, turn, replies, decided>>

-----------------------------------------------------------------------------
(* Ends *)

\* The connection of a turn closes: its context is done, a call of that turn returns
\* ctx.Err(), and no reply comes in any more.  It matters where somebody looks at the
\* context: a call, or a relay that waits, be it that its turn has been answered.
Disconnect(t) ==
    /\ turn[t].ctx = "live"
    /\ \/ turn[t].at \in {"handshake", "new", "bind", "prompting"}
       \/ \E q \in Ask : ask[q].at = "relayed" /\ ask[q].via = t
    /\ Set(t, [turn[t] EXCEPT !.ctx = "done"])
    /\ replies' = {r \in replies : r.via # t}
    /\ UNCHANGED <<process, init, agent, prompts, ask, decided>>

\* Mutant: the process's exit does not reach the callers.
CallFailsOnCancel(t) == turn[t].ctx = "done"

\* What ends a call without an answer of the agent: its context, or readLoop, which
\* fails every pending call when the process exits; call also fails at once then.
CallFails(t) == turn[t].ctx = "done" \/ process = "exited"

\* A call returns an error.  The handshake's is kept by initOnce; a prompt whose
\* connection is gone is cancelled at the agent, which goes on until it stops.
FailTurn(t) ==
    /\ turn[t].at \in {"handshake", "new", "bind", "prompting"}
    /\ CallFails(t)
    /\ IF turn[t].at = "prompting" THEN GoTo(t, "refused") ELSE Fail(t)
    /\ init' = IF turn[t].at = "handshake" THEN "failed" ELSE init
    /\ UNCHANGED <<process, agent, prompts, asks>>

\* session.close: the entry is deleted first, then the agent is told.
CloseSession ==
    /\ sessions # None
    /\ sessions' = None
    /\ model' = [model EXCEPT ![sessions] = None]
    /\ UNCHANGED <<process, init, bound, prompts, turn, asks>>

AgentExits ==
    /\ process = "up"
    /\ process' = "exited"
    /\ model' = [a \in Acp |-> None]
    /\ work' = [t \in Turn |-> None]
    /\ UNCHANGED <<init, sessions, bound, listener, alone, turn, asks>>

-----------------------------------------------------------------------------
Serve(t) ==
    \/ Initialize(t) \/ Handshake(t) \/ Lookup(t) \/ NewSession(t)
    \/ BindModel(t) \/ SendPrompt(t) \/ PromptEnds(t) \/ FinishTurn(t) \/ FailTurn(t)

Permission(q) == AskPermission(q) \/ RelayPermission(q) \/ BridgeReplies(q) \/ EndRelay(q)

AdapterNext ==
    \/ CloseSession \/ AgentExits
    \/ \E t \in Turn : \/ Receive(t) \/ Serve(t) \/ Chunk(t) \/ AgentStops(t) \/ Disconnect(t)
    \/ \E q \in Ask : Permission(q)
    \/ \E r \in replies : Deliver(r)

AdapterSpec == AdapterInit /\ [][AdapterNext]_vars

\* Goroutines run, and the agent answers what it is asked while it lives.
AdapterFairSpec == AdapterSpec /\ \A t \in Turn : WF_vars(Serve(t))

Reply == [via : Turn, id : Nat \ {0}, verdict : {"selected", "refused"}]

AdapterTypeOK ==
    /\ process \in {"off", "up", "exited"}
    /\ init \in {"none", "ok", "failed"} \cup Turn
    /\ sessions \in Acp \cup {None}
    /\ bound \in [Acp -> Model \cup {None}] /\ model \in [Acp -> Model \cup {None}]
    /\ listener \in [Acp -> Turn \cup {None}]
    /\ turn \in [Turn -> [at : Steps, method : {"start", "message"}, wants : Model \cup {None},
                          acp : Acp \cup {None}, ctx : {"live", "done"},
                          heard : SUBSET (Turn \X Acp)]]
    /\ work \in [Turn -> Acp \cup {None}]
    /\ ask \in [Ask -> [at : {"none", "asked", "relayed", "approved", "denied"},
                        acp : Acp \cup {None}, via : Turn \cup {None}, id : Nat,
                        got : {"none", "selected", "refused"}]]
    /\ replies \subseteq Reply
    /\ decided \subseteq Ask /\ alone \subseteq Turn

\* No tool runs on a timeout, a lost connection or the adapter's own word, nor on a reply
\* to an earlier request that comes when another one waits on the same connection:
\* every approval is of a request for which the bridge itself selected an option.
ApprovalIsDecided ==
    \A q \in Ask : ask[q].at = "approved" => q \in decided

\* A turn gets text of its own agent session only.  As long as no other prompt, not
\* even a cancelled one that still runs at the agent, overlaps with its own in that
\* session, it hears itself alone and keeps its listener, so that none of its text and
\* of its permission requests is lost.
LonePromptIsHeard ==
    \A t \in Turn :
        /\ \A h \in turn[t].heard : h[2] = turn[t].acp
        /\ t \in alone =>
              /\ \A h \in turn[t].heard : h[1] = t
              /\ listener[turn[t].acp] = t

\* Every request is answered, also when the process cannot be started or exits, the
\* connection closes, or the handshake of another turn fails while this one waits for it.
TurnsAnswered ==
    \A t \in Turn : turn[t].at = "init" ~> turn[t].at \in Answered
=============================================================================
