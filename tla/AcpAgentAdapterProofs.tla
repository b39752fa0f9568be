------------------------- MODULE AcpAgentAdapterProofs -------------------------
(***************************************************************************)
(* Proofs about AcpAgentAdapter, for any number of turns, sessions, models *)
(* and permission requests.                                                *)
(***************************************************************************)
EXTENDS AcpAgentAdapter, FiniteSetTheorems, TLAPS

TurnType == [at : Steps, method : {"start", "message"}, wants : Model \cup {None},
             acp : Acp \cup {None}, ctx : {"live", "done"}, heard : SUBSET (Turn \X Acp)]
AskType == [at : {"none", "asked", "relayed", "approved", "denied"}, acp : Acp \cup {None},
            via : Turn \cup {None}, id : Nat, got : {"none", "selected", "refused"}]

\* From the prompt until the listener is removed.
Prompted == {"prompting", "ended", "refused"}

\* A turn hears text only between its prompt and its answer, and only from its own
\* session; from the binding of the model on it has one.
TurnOK(v) ==
    /\ v \in TurnType
    /\ \A h \in v.heard : h[2] = v.acp
    /\ v.at \notin Prompted => v.heard = {}
    /\ v.at \in {"bind", "prompt"} \cup Prompted => v.acp \in Acp

\* The listener of an agent session is a turn with a prompt in that session.
ListenersPrompt ==
    \A a \in Acp : listener[a] # None =>
       turn[listener[a]].at \in Prompted /\ turn[listener[a]].acp = a

\* A lone turn has prompted, has heard itself, listens, and is all there is in its session.
Lone(t) ==
    /\ turn[t].at \in Prompted
    /\ listener[turn[t].acp] = t
    /\ \A h \in turn[t].heard : h[1] = t
    /\ Active(turn[t].acp) \subseteq {t}

TurnsInv ==
    /\ turn \in [Turn -> TurnType] /\ \A t \in Turn : TurnOK(turn[t])
    /\ listener \in [Acp -> Turn \cup {None}]
    /\ work \in [Turn -> Acp \cup {None}]
    /\ alone \subseteq Turn
    /\ ListenersPrompt
    /\ \A t \in alone : Lone(t)

AgentTypes ==
    /\ process \in {"off", "up", "exited"}
    /\ init \in {"none", "ok", "failed"} \cup Turn
    /\ sessions \in Acp \cup {None}
    /\ bound \in [Acp -> Model \cup {None}] /\ model \in [Acp -> Model \cup {None}]

\* Requests over one connection have ids of their own, as many as there are; a reply
\* that selects, under way or received, is to a request that the bridge decided.
AsksInv ==
    /\ ask \in [Ask -> AskType] /\ replies \subseteq Reply /\ decided \subseteq Ask
    /\ \A q \in Ask : /\ ask[q].at \in {"none", "asked"} => ask[q].via = None
                      /\ ask[q].at = "asked" => ask[q].acp \in Acp
                      /\ ask[q].got = "selected" \/ ask[q].at = "approved" => q \in decided
                      /\ ask[q].via # None =>
                            /\ ask[q].id > 0
                            /\ ask[q].id <= Cardinality({p \in Ask : ask[p].via = ask[q].via})
    /\ \A p, q \in Ask : /\ p # q /\ ask[p].via = ask[q].via /\ ask[p].via # None
                         => ask[p].id # ask[q].id
    /\ \A r \in replies : r.verdict = "selected" =>
          \E q \in decided : ask[q].via = r.via /\ ask[q].id = r.id

\* What an answered turn leaves: the context of its connection.
Answer1(c, step) == [NewTurn EXCEPT !.at = step, !.ctx = c]

LEMMA NewTurnOK ==
    /\ TurnOK(NewTurn)
    /\ \A step \in Answered, c \in {"live", "done"} :
          TurnOK(Answer1(c, step)) /\ Answer1(c, step).at = step
    /\ \A m \in {"start", "message"}, w \in Model \cup {None} :
          /\ TurnOK([NewTurn EXCEPT !.at = "init", !.method = m, !.wants = w])
          /\ [NewTurn EXCEPT !.at = "init", !.method = m, !.wants = w].at = "init"
<1>1. PICK v : v = NewTurn
  OBVIOUS
<1>2. v \in TurnType /\ v.heard = {} /\ v.at = "idle"
  BY <1>1 DEF NewTurn, TurnType, Steps
<1>3. TurnOK(v)
  BY <1>2 DEF TurnOK, Prompted
<1>4. ASSUME NEW step \in Answered, NEW c \in {"live", "done"}
      PROVE  TurnOK(Answer1(c, step)) /\ Answer1(c, step).at = step
  <2>1. PICK w : w = [v EXCEPT !.at = step, !.ctx = c]
    OBVIOUS
  <2>2. w \in TurnType /\ w.heard = {} /\ w.at = step
    BY <1>2, <2>1 DEF TurnType, Steps, Answered
  <2>3. step \notin {"bind", "prompt"} \cup Prompted
    BY DEF Answered, Prompted
  <2>4. TurnOK(w)
    BY <2>2, <2>3 DEF TurnOK
  <2> QED
    BY <1>1, <2>1, <2>2, <2>4 DEF Answer1
<1>5. ASSUME NEW m \in {"start", "message"}, NEW x \in Model \cup {None}
      PROVE  /\ TurnOK([NewTurn EXCEPT !.at = "init", !.method = m, !.wants = x])
             /\ [NewTurn EXCEPT !.at = "init", !.method = m, !.wants = x].at = "init"
  <2>1. PICK w : w = [v EXCEPT !.at = "init", !.method = m, !.wants = x]
    OBVIOUS
  <2>2. w \in TurnType /\ w.heard = {} /\ w.at = "init"
    BY <1>2, <2>1 DEF TurnType, Steps
  <2>3. TurnOK(w)
    BY <2>2 DEF TurnOK, Prompted
  <2> QED
    BY <1>1, <2>1, <2>2, <2>3
<1> QED
  BY <1>1, <1>3, <1>4, <1>5

LEMMA AdapterStart == AdapterInit => TurnsInv /\ AgentTypes /\ AsksInv
<1> SUFFICES ASSUME AdapterInit PROVE TurnsInv /\ AgentTypes /\ AsksInv
  OBVIOUS
<1>1. PICK v : v = NewTurn
  OBVIOUS
<1>2. TurnsInv
  BY <1>1, NewTurnOK DEF AdapterInit, TurnsInv, TurnOK, ListenersPrompt
<1>3. AgentTypes
  BY DEF AdapterInit, AgentTypes
<1>4. AsksInv
  <2>1. PICK n : n = NoAsk
    OBVIOUS
  <2>2. n \in AskType /\ n.at = "none" /\ n.via = None /\ n.got # "selected"
    BY <2>1 DEF NoAsk, AskType
  <2> QED
    BY <2>1, <2>2 DEF AdapterInit, AsksInv
<1> QED
  BY <1>2, <1>3, <1>4

-----------------------------------------------------------------------------
(* Turns, listeners and prompts *)

\* A turn that stays on its side of the prompt leaves everybody as lone as before.
LEMMA TurnMoves ==
    ASSUME TurnsInv, NEW t \in Turn, NEW v, TurnOK(v), turn' = [turn EXCEPT ![t] = v],
           UNCHANGED <<listener, alone>>, work' \in [Turn -> Acp \cup {None}],
           \A u \in Turn : work'[u] \in {work[u], None},
           turn[t].at \in Prompted <=> v.at \in Prompted,
           v.at \in Prompted =>
              /\ v.acp = turn[t].acp
              /\ t \in alone => \A h \in v.heard : h[1] = t
    PROVE  TurnsInv'
<1>1. \A u \in Turn : turn'[u] = IF u = t THEN v ELSE turn[u]
  BY DEF TurnsInv
<1>2. turn' \in [Turn -> TurnType] /\ \A u \in Turn : TurnOK(turn'[u])
  BY <1>1 DEF TurnsInv, TurnOK
<1>3. ListenersPrompt'
  BY <1>1 DEF TurnsInv, ListenersPrompt
<1>4. \A a \in Acp : Active(a)' \subseteq Active(a)
  <2> SUFFICES ASSUME NEW a \in Acp, NEW u \in Turn,
                      \/ work'[u] = a
                      \/ turn'[u].acp = a /\ turn'[u].at \in Prompted
               PROVE  u \in Active(a)
    BY DEF Active, Prompted
  <2>1. a # None
    BY AdapterAssumption DEF Acp
  <2> QED
    BY <1>1, <2>1 DEF Active, Prompted
<1>5. ASSUME NEW u \in alone' PROVE Lone(u)'
  <2>1. u \in Turn /\ Lone(u) /\ turn[u].acp \in Acp
    BY <1>5 DEF TurnsInv, TurnOK, Lone
  <2>2. turn'[u].at \in Prompted /\ turn'[u].acp = turn[u].acp
    BY <1>1, <2>1 DEF Lone
  <2>3. \A h \in turn'[u].heard : h[1] = u
    BY <1>1, <1>5, <2>1, <2>2 DEF Lone
  <2>5. (Active(turn[u].acp))' \subseteq {u}
    <3>1. PICK a : a = turn[u].acp
      OBVIOUS
    <3>2. Active(a)' \subseteq {u}
      BY <1>4, <2>1, <3>1 DEF Lone
    <3> QED
      BY <2>2, <3>1, <3>2 DEF Active
  <2> QED
    BY <2>1, <2>2, <2>3, <2>5 DEF Lone
<1> QED
  BY <1>2, <1>3, <1>5 DEF TurnsInv, TurnOK

\* So does a turn that has not prompted yet and does not now.
LEMMA QuietMoves ==
    ASSUME TurnsInv, NEW t \in Turn, turn[t].at \notin Prompted, NEW v, TurnOK(v),
           v.at \notin Prompted, turn' = [turn EXCEPT ![t] = v], UNCHANGED prompts
    PROVE  TurnsInv'
BY TurnMoves DEF prompts, TurnsInv

\* The prompt, over the listener of whoever had one in the session.
LEMMA PromptStep ==
    ASSUME TurnsInv, NEW t \in Turn, SendPrompt(t)
    PROVE  TurnsInv'
<1>1. PICK w, a : w = turn[t] /\ a = turn[t].acp
  OBVIOUS
<1>2. w \in TurnType /\ TurnOK(w) /\ w.at = "prompt" /\ a \in Acp /\ w.acp = a /\ w.heard = {}
  BY <1>1 DEF TurnsInv, SendPrompt, TurnOK, Prompted
<1>3. PICK v : v = [w EXCEPT !.at = "prompting"]
  OBVIOUS
<1>4. TurnOK(v) /\ v.at \in Prompted /\ v.acp = a /\ v.heard = {}
  BY <1>2, <1>3 DEF TurnOK, TurnType, Steps, Prompted
<1>5. /\ turn' = [turn EXCEPT ![t] = v] /\ listener' = [listener EXCEPT ![a] = t]
      /\ \E n \in {a, None} : work' = [work EXCEPT ![t] = n]
      /\ alone' = (alone \ Active(a)) \cup (IF Active(a) = {} THEN {t} ELSE {})
  BY <1>1, <1>3 DEF SendPrompt, GoTo, Set
<1>6. \A u \in Turn : turn'[u] = IF u = t THEN v ELSE turn[u]
  BY <1>5 DEF TurnsInv
<1>7. turn' \in [Turn -> TurnType] /\ \A u \in Turn : TurnOK(turn'[u])
  BY <1>4, <1>6, <1>5 DEF TurnsInv, TurnOK
<1>8. /\ listener' \in [Acp -> Turn \cup {None}] /\ work' \in [Turn -> Acp \cup {None}]
      /\ alone' \subseteq Turn /\ ListenersPrompt'
  <2>1. listener' \in [Acp -> Turn \cup {None}] /\ work' \in [Turn -> Acp \cup {None}]
    BY <1>2, <1>5 DEF TurnsInv
  <2>2. alone' \subseteq Turn
    BY <1>5 DEF TurnsInv
  <2>3. ASSUME NEW b \in Acp, listener'[b] # None
        PROVE  turn'[listener'[b]].at \in Prompted /\ turn'[listener'[b]].acp = b
    <3>1. listener \in [Acp -> Turn \cup {None}]
      BY DEF TurnsInv
    <3>2. CASE b = a
      BY <1>4, <1>5, <1>6, <3>1, <3>2
    <3>3. CASE b # a
      <4>1. listener'[b] = listener[b] /\ listener[b] \in Turn
        BY <1>5, <2>3, <3>1, <3>3
      <4>2. turn[listener[b]].at \in Prompted /\ turn[listener[b]].acp = b
        BY <2>3, <4>1 DEF TurnsInv, ListenersPrompt
      <4>3. listener[b] # t
        BY <1>1, <1>2, <4>2 DEF Prompted
      <4> QED
        BY <1>6, <4>1, <4>2, <4>3
    <3> QED
      BY <3>2, <3>3
  <2> QED
    BY <2>1, <2>2, <2>3 DEF ListenersPrompt
<1>9. \A b \in Acp : Active(b)' \subseteq IF b = a THEN Active(a) \cup {t} ELSE Active(b)
  <2> SUFFICES ASSUME NEW b \in Acp, NEW u \in Turn,
                      \/ work'[u] = b
                      \/ turn'[u].acp = b /\ turn'[u].at \in Prompted
               PROVE  u \in IF b = a THEN Active(a) \cup {t} ELSE Active(b)
    BY DEF Active, Prompted
  <2>1. b # None
    BY AdapterAssumption DEF Acp
  <2>2. CASE u # t
    BY <1>5, <1>6, <2>2 DEF Active, Prompted, TurnsInv
  <2>3. CASE u = t
    BY <1>4, <1>5, <1>6, <2>1, <2>3 DEF TurnsInv
  <2> QED
    BY <2>2, <2>3
<1>10. ASSUME NEW u \in alone' PROVE Lone(u)'
  <2>1. CASE u = t
    <3>1. t \notin alone
      BY <1>1, <1>2 DEF TurnsInv, Lone, Prompted
    <3>2. Active(a) = {}
      BY <1>5, <1>10, <2>1, <3>1
    <3>3. Active(a)' \subseteq {t}
      BY <1>2, <1>9, <3>2
    <3>4. turn'[t] = v /\ listener'[a] = t
      BY <1>2, <1>5, <1>6 DEF TurnsInv
    <3> QED
      BY <1>4, <2>1, <3>3, <3>4 DEF Lone, Active
  <2>2. CASE u # t
    <3>1. u \in alone /\ u \notin Active(a) /\ Lone(u) /\ u \in Turn
      BY <1>5, <1>10, <2>2 DEF TurnsInv
    <3>2. PICK b : b = turn[u].acp
      OBVIOUS
    <3>3. b \in Acp /\ b # a
      BY <3>1, <3>2 DEF TurnsInv, TurnOK, Lone, Active, Prompted
    <3>4. Active(b)' \subseteq {u}
      BY <1>9, <3>1, <3>2, <3>3 DEF Lone
    <3>5. turn'[u] = turn[u] /\ listener'[b] = listener[b]
      BY <1>5, <1>6, <2>2, <3>1, <3>3 DEF TurnsInv
    <3> QED
      BY <3>1, <3>2, <3>4, <3>5 DEF Lone, Active
  <2> QED
    BY <2>1, <2>2
<1> QED
  BY <1>7, <1>8, <1>10 DEF TurnsInv

\* The answer takes the listener of the session away, which a lone turn in another
\* session does not miss.
LEMMA FinishStep ==
    ASSUME TurnsInv, NEW t \in Turn, FinishTurn(t)
    PROVE  TurnsInv'
<1>1. PICK a : a = turn[t].acp
  OBVIOUS
<1>2. /\ a \in Acp /\ t \in Active(a) /\ turn[t].ctx \in {"live", "done"}
      /\ turn[t].at \in Prompted
  BY <1>1 DEF TurnsInv, FinishTurn, TurnOK, TurnType, Active, Prompted
<1>3. PICK step \in Answered : turn' = [turn EXCEPT ![t] = Answer1(turn[t].ctx, step)]
  BY DEF FinishTurn, Answer, Set, Verdict, Answered, Answer1
<1>4. PICK v : v = Answer1(turn[t].ctx, step)
  OBVIOUS
<1>5. TurnOK(v) /\ v.at \notin Prompted
  BY <1>2, <1>4, NewTurnOK DEF Answered, Prompted
<1>6. /\ listener' = [listener EXCEPT ![a] = None] /\ alone' = alone \ {t} /\ work' = work
      /\ turn' = [turn EXCEPT ![t] = v]
  BY <1>1, <1>3, <1>4 DEF FinishTurn, removeListener
<1>7. \A u \in Turn : turn'[u] = IF u = t THEN v ELSE turn[u]
  BY <1>6 DEF TurnsInv
<1>8. /\ turn' \in [Turn -> TurnType] /\ \A u \in Turn : TurnOK(turn'[u])
      /\ listener' \in [Acp -> Turn \cup {None}] /\ work' \in [Turn -> Acp \cup {None}]
      /\ alone' \subseteq Turn
  BY <1>5, <1>6, <1>7 DEF TurnsInv, TurnOK
<1>9. ListenersPrompt'
  <2> SUFFICES ASSUME NEW b \in Acp, listener'[b] # None
               PROVE  turn'[listener'[b]].at \in Prompted /\ turn'[listener'[b]].acp = b
    BY DEF ListenersPrompt
  <2>1. b # a /\ listener'[b] = listener[b] /\ listener[b] \in Turn
    BY <1>6 DEF TurnsInv
  <2>2. turn[listener[b]].at \in Prompted /\ turn[listener[b]].acp = b
    BY <2>1 DEF TurnsInv, ListenersPrompt
  <2> QED
    BY <1>1, <1>7, <2>1, <2>2
<1>10. ASSUME NEW u \in alone' PROVE Lone(u)'
  <2>1. u \in Turn /\ u # t /\ Lone(u) /\ turn'[u] = turn[u]
    BY <1>6, <1>7, <1>10 DEF TurnsInv
  <2>2. PICK b : b = turn[u].acp
    OBVIOUS
  <2>3. b \in Acp /\ b # a
    BY <1>2, <2>1, <2>2 DEF TurnsInv, TurnOK, Lone
  <2>4. Active(b)' \subseteq Active(b)
    BY <1>5, <1>6, <1>7 DEF Active, Prompted
  <2>5. listener'[b] = listener[b]
    BY <1>6, <2>3 DEF TurnsInv
  <2> QED
    BY <2>1, <2>2, <2>4, <2>5 DEF Lone, Active
<1> QED
  BY <1>8, <1>9, <1>10 DEF TurnsInv

\* Text reaches the turn that listens; a lone one is the only source in its session.
LEMMA ChunkStep ==
    ASSUME TurnsInv, NEW t \in Turn, Chunk(t)
    PROVE  TurnsInv'
<1>1. PICK a : a = work[t]
  OBVIOUS
<1>2. PICK u : u = listener[a]
  OBVIOUS
<1>3. a \in Acp /\ u \in Turn /\ turn[u].at \in Prompted /\ turn[u].acp = a /\ t \in Active(a)
  BY <1>1, <1>2 DEF Chunk, listenerOf, TurnsInv, ListenersPrompt, Active
<1>4. PICK w : w = turn[u]
  OBVIOUS
<1>5. PICK v : v = [w EXCEPT !.heard = @ \cup {<<t, a>>}]
  OBVIOUS
<1>6. turn' = [turn EXCEPT ![u] = v] /\ UNCHANGED prompts
  BY <1>1, <1>2, <1>4, <1>5 DEF Chunk, listenerOf
<1>7. w \in TurnType /\ TurnOK(w) /\ w.at \in Prompted /\ w.acp = a
  BY <1>3, <1>4 DEF TurnsInv
<1>8. v \in TurnType /\ v.at = w.at /\ v.acp = a /\ v.heard = w.heard \cup {<<t, a>>}
  BY <1>3, <1>5, <1>7 DEF TurnType
<1>9. TurnOK(v)
  BY <1>7, <1>8 DEF TurnOK
<1>10. u \in alone => \A h \in v.heard : h[1] = u
  BY <1>3, <1>4, <1>8 DEF TurnsInv, Lone
<1> QED
  BY <1>3, <1>4, <1>6, <1>7, <1>8, <1>9, <1>10, TurnMoves DEF prompts, TurnsInv

LEMMA TurnsStep == TurnsInv /\ AgentTypes /\ [AdapterNext]_vars => TurnsInv'
<1> SUFFICES ASSUME TurnsInv, AgentTypes, [AdapterNext]_vars PROVE TurnsInv'
  OBVIOUS
<1>a. \A t \in Turn : turn[t] \in TurnType /\ TurnOK(turn[t])
  BY DEF TurnsInv
<1>b. CASE UNCHANGED <<turn, prompts>>
  BY <1>b DEF TurnsInv, ListenersPrompt, TurnOK, prompts, Lone, Active
\* A turn without a prompt that goes to another step, or that fails.
<1>c. ASSUME NEW t \in Turn, turn[t].at \notin Prompted, UNCHANGED prompts,
             NEW step \in Steps \ Prompted, GoTo(t, step),
             step \in {"bind", "prompt"} => turn[t].acp \in Acp
      PROVE  TurnsInv'
  <2>1. PICK w : w = turn[t]
    OBVIOUS
  <2>2. TurnOK([w EXCEPT !.at = step]) /\ [w EXCEPT !.at = step].at = step
    BY <1>a, <1>c, <2>1 DEF TurnOK, TurnType
  <2> QED
    BY <1>c, <2>1, <2>2, QuietMoves DEF GoTo, Set
<1>d. ASSUME NEW t \in Turn, turn[t].at \notin Prompted, Fail(t), UNCHANGED prompts
      PROVE  TurnsInv'
  <2>1. turn' = [turn EXCEPT ![t] = Answer1(turn[t].ctx, "failed")]
    BY <1>d DEF Fail, Answer, Set, Answer1
  <2>2. turn[t].ctx \in {"live", "done"}
    BY <1>a DEF TurnType
  <2>3. "failed" \in Answered /\ "failed" \notin Prompted
    BY DEF Answered, Prompted
  <2> QED
    BY <1>d, <2>1, <2>2, <2>3, NewTurnOK, QuietMoves
<1>e. {"handshake", "lookup", "new", "bind", "prompt"} \subseteq Steps \ Prompted
  BY DEF Steps, Prompted
<1>1. ASSUME NEW t \in Turn, Receive(t) PROVE TurnsInv'
  <2>1. PICK m \in {"start", "message"}, w \in Model \cup {None} :
           turn' = [turn EXCEPT ![t] = [NewTurn EXCEPT !.at = "init", !.method = m, !.wants = w]]
    BY <1>1, AdapterAssumption DEF Receive, Set
  <2> QED
    BY <1>1, <2>1, NewTurnOK, QuietMoves DEF Receive, Prompted
<1>2. ASSUME NEW t \in Turn, Initialize(t) PROVE TurnsInv'
  <2>1. turn[t].at \notin Prompted /\ UNCHANGED prompts
    BY <1>2 DEF Initialize, Prompted
  <2>2. GoTo(t, "handshake") \/ GoTo(t, "lookup") \/ Fail(t)
    BY <1>2 DEF Initialize
  <2> QED
    BY <1>c, <1>d, <1>e, <2>1, <2>2
<1>3. ASSUME NEW t \in Turn, Handshake(t) PROVE TurnsInv'
  <2>1. turn[t].at \notin Prompted /\ UNCHANGED prompts /\ (GoTo(t, "lookup") \/ Fail(t))
    BY <1>3 DEF Handshake, Prompted
  <2> QED
    BY <1>c, <1>d, <1>e, <2>1
<1>4. ASSUME NEW t \in Turn, Lookup(t) PROVE TurnsInv'
  <2>1. turn[t].at = "lookup" /\ turn[t].at \notin Prompted /\ UNCHANGED prompts
    BY <1>4 DEF Lookup, Prompted
  <2>2. CASE GoTo(t, "new")
    BY <1>c, <1>e, <2>1, <2>2
  <2>3. CASE Fail(t)
    BY <1>d, <2>1, <2>3
  <2>4. ASSUME sessions # None, NEW step \in {"bind", "prompt"},
               Set(t, [turn[t] EXCEPT !.acp = sessions, !.at = step])
        PROVE  TurnsInv'
    <3>1. PICK w, a : w = turn[t] /\ a = sessions
      OBVIOUS
    <3>2. a \in Acp
      BY <2>4, <3>1 DEF AgentTypes
    <3>3. /\ TurnOK([w EXCEPT !.acp = a, !.at = step])
          /\ [w EXCEPT !.acp = a, !.at = step].at \notin Prompted
      BY <1>a, <2>1, <2>4, <3>1, <3>2 DEF TurnOK, TurnType, Steps, Prompted
    <3> QED
      BY <2>1, <2>4, <3>1, <3>3, QuietMoves DEF Set
  <2> QED
    BY <1>4, <2>2, <2>3, <2>4 DEF Lookup
<1>5. ASSUME NEW t \in Turn, NewSession(t) PROVE TurnsInv'
  <2>1. turn[t].at = "new" /\ turn[t].at \notin Prompted /\ UNCHANGED prompts
    BY <1>5 DEF NewSession, Prompted
  <2>2. CASE Fail(t)
    BY <1>d, <2>1, <2>2
  <2>3. ASSUME NEW a \in Acp, NEW step \in {"bind", "prompt"},
               Set(t, [turn[t] EXCEPT !.acp = a, !.at = step])
        PROVE  TurnsInv'
    <3>1. PICK w : w = turn[t]
      OBVIOUS
    <3>2. /\ TurnOK([w EXCEPT !.acp = a, !.at = step])
          /\ [w EXCEPT !.acp = a, !.at = step].at \notin Prompted
      BY <1>a, <2>1, <2>3, <3>1 DEF TurnOK, TurnType, Steps, Prompted
    <3> QED
      BY <2>1, <2>3, <3>1, <3>2, QuietMoves DEF Set
  <2> QED
    BY <1>5, <2>2, <2>3 DEF NewSession
<1>6. ASSUME NEW t \in Turn, BindModel(t) PROVE TurnsInv'
  <2>1. /\ turn[t].at \notin Prompted /\ turn[t].acp \in Acp /\ UNCHANGED prompts
        /\ GoTo(t, "prompt") \/ Fail(t)
    BY <1>6, <1>a DEF BindModel, TurnOK, Prompted
  <2> QED
    BY <1>c, <1>d, <1>e, <2>1
\* Between the prompt and the answer.
<1>f. ASSUME NEW t \in Turn, turn[t].at \in Prompted, NEW step \in Prompted, GoTo(t, step),
             UNCHANGED <<listener, alone>>, \/ UNCHANGED work
                                           \/ work' = [work EXCEPT ![t] = None]
      PROVE  TurnsInv'
  <2>1. PICK w : w = turn[t]
    OBVIOUS
  <2>2. PICK v : v = [w EXCEPT !.at = step]
    OBVIOUS
  <2>3. TurnOK(v) /\ v.at \in Prompted /\ v.acp = w.acp /\ v.heard = w.heard
    BY <1>a, <1>f, <2>1, <2>2 DEF TurnOK, TurnType, Steps, Prompted
  <2>4. turn' = [turn EXCEPT ![t] = v]
    BY <1>f, <2>1, <2>2 DEF GoTo, Set
  <2>5. work' \in [Turn -> Acp \cup {None}] /\ \A u \in Turn : work'[u] \in {work[u], None}
    BY <1>f DEF TurnsInv
  <2>6. t \in alone => \A h \in v.heard : h[1] = t
    BY <2>1, <2>3 DEF TurnsInv, Lone
  <2> QED
    BY <1>f, <2>1, <2>3, <2>4, <2>5, <2>6, TurnMoves
<1>7. ASSUME NEW t \in Turn, PromptEnds(t) PROVE TurnsInv'
  <2>1. /\ turn[t].at \in Prompted /\ UNCHANGED <<listener, alone>>
        /\ work' = [work EXCEPT ![t] = None]
        /\ GoTo(t, "ended") \/ GoTo(t, "refused")
    BY <1>7 DEF PromptEnds, Prompted
  <2>2. "ended" \in Prompted /\ "refused" \in Prompted
    BY DEF Prompted
  <2> QED
    BY <1>f, <2>1, <2>2
<1>8. ASSUME NEW t \in Turn, FailTurn(t) PROVE TurnsInv'
  <2>1. CASE turn[t].at = "prompting"
    <3>1. turn[t].at \in Prompted /\ "refused" \in Prompted /\ GoTo(t, "refused")
          /\ UNCHANGED <<listener, alone, work>>
      BY <1>8, <2>1 DEF FailTurn, Prompted, prompts
    <3> QED
      BY <1>f, <3>1
  <2>2. CASE turn[t].at # "prompting"
    BY <1>8, <1>d, <2>2 DEF FailTurn, Prompted
  <2> QED
    BY <2>1, <2>2
<1>9. ASSUME NEW t \in Turn, Disconnect(t) PROVE TurnsInv'
  <2>1. PICK w : w = turn[t]
    OBVIOUS
  <2>2. PICK v : v = [w EXCEPT !.ctx = "done"]
    OBVIOUS
  <2>3. TurnOK(v) /\ v.at = w.at /\ v.acp = w.acp /\ v.heard = w.heard
    BY <1>a, <2>1, <2>2 DEF TurnOK, TurnType
  <2>4. turn' = [turn EXCEPT ![t] = v] /\ UNCHANGED prompts
    BY <1>9, <2>1, <2>2 DEF Disconnect, Set
  <2>5. t \in alone => \A h \in v.heard : h[1] = t
    BY <2>1, <2>3 DEF TurnsInv, Lone
  <2> QED
    BY <2>1, <2>3, <2>4, <2>5, TurnMoves DEF TurnsInv, prompts
<1>10. ASSUME NEW t \in Turn, AgentStops(t) \/ AgentExits PROVE TurnsInv'
  <2>1. UNCHANGED <<listener, alone, turn>>
    BY <1>10 DEF AgentStops, AgentExits
  <2>2. work' \in [Turn -> Acp \cup {None}] /\ \A u \in Turn : work'[u] \in {work[u], None}
    BY <1>10 DEF AgentStops, AgentExits, TurnsInv
  <2>3. turn' = [turn EXCEPT ![t] = turn[t]]
    BY <2>1 DEF TurnsInv
  <2>4. t \in alone => \A h \in turn[t].heard : h[1] = t
    BY DEF TurnsInv, Lone
  <2> QED
    BY <1>a, <2>1, <2>2, <2>3, <2>4, TurnMoves
<1>11. ASSUME Turn = {}, AgentExits PROVE TurnsInv'
  BY <1>11 DEF TurnsInv, AgentExits, ListenersPrompt, Lone, Active
<1>12. ASSUME NEW q \in Ask, Permission(q) PROVE UNCHANGED <<turn, prompts>>
  BY <1>12 DEF Permission, AskPermission, RelayPermission, BridgeReplies, EndRelay
<1>13. ASSUME NEW r \in replies, Deliver(r) PROVE UNCHANGED <<turn, prompts>>
  BY <1>13 DEF Deliver
<1>14. CloseSession \/ UNCHANGED vars => UNCHANGED <<turn, prompts>>
  BY DEF CloseSession, vars
<1> QED
  BY <1>b, <1>1, <1>2, <1>3, <1>4, <1>5, <1>6, <1>7, <1>8, <1>9, <1>10, <1>11, <1>12, <1>13,
     <1>14, PromptStep, FinishStep, ChunkStep DEF AdapterNext, Serve

-----------------------------------------------------------------------------
LEMMA AgentStep == TurnsInv /\ AgentTypes /\ [AdapterNext]_vars => AgentTypes'
<1> SUFFICES ASSUME TurnsInv, AgentTypes, [AdapterNext]_vars PROVE AgentTypes'
  OBVIOUS
<1>a. \A t \in Turn : turn[t] \in TurnType /\ TurnOK(turn[t])
  BY DEF TurnsInv
<1>b. CASE UNCHANGED <<process, init, sessions, bound, model>>
  BY <1>b DEF AgentTypes
<1>1. ASSUME NEW t \in Turn, Initialize(t) \/ Handshake(t) PROVE AgentTypes'
  <2>1. UNCHANGED <<sessions, bound, model>>
    BY <1>1 DEF Initialize, Handshake, agent
  <2>2. process' \in {"off", "up", "exited"} /\ init' \in {"none", "ok", "failed"} \cup Turn
    BY <1>1 DEF Initialize, Handshake, AgentTypes
  <2> QED
    BY <2>1, <2>2 DEF AgentTypes
<1>2. ASSUME NEW t \in Turn, Lookup(t) PROVE AgentTypes'
  BY <1>2 DEF Lookup, AgentTypes
<1>3. ASSUME NEW t \in Turn, NewSession(t) PROVE AgentTypes'
  <2>1. UNCHANGED <<process, init>>
    BY <1>3 DEF NewSession
  <2>2. CASE UNCHANGED <<sessions, bound, model>>
    BY <2>1, <2>2 DEF AgentTypes
  <2>3. ASSUME NEW a \in Acp, model' = [model EXCEPT ![a] = Default],
               bound' = [bound EXCEPT ![a] = Default], sessions' \in {a, sessions}
        PROVE  AgentTypes'
    BY <2>1, <2>3, AdapterAssumption DEF AgentTypes
  <2> QED
    BY <1>3, <2>2, <2>3 DEF NewSession
<1>4. ASSUME NEW t \in Turn, BindModel(t) PROVE AgentTypes'
  <2>1. PICK a, w : a = turn[t].acp /\ w = turn[t].wants
    OBVIOUS
  <2>2. a \in Acp /\ w \in Model \cup {None} /\ UNCHANGED <<process, init>>
    BY <1>4, <1>a, <2>1 DEF BindModel, TurnOK, TurnType
  <2>3. model' \in [Acp -> Model \cup {None}]
    BY <1>4, <2>1, <2>2 DEF BindModel, AgentTypes
  <2>4. bound' \in [Acp -> Model \cup {None}] /\ sessions' \in Acp \cup {None}
    BY <1>4, <2>1, <2>2 DEF BindModel, AgentTypes
  <2> QED
    BY <2>2, <2>3, <2>4 DEF AgentTypes
<1>5. ASSUME NEW t \in Turn, FailTurn(t) PROVE AgentTypes'
  BY <1>5 DEF FailTurn, AgentTypes, agent
<1>6. CASE CloseSession \/ AgentExits
  BY <1>6 DEF CloseSession, AgentExits, AgentTypes
<1>7. ASSUME NEW t \in Turn, \/ Receive(t) \/ SendPrompt(t) \/ PromptEnds(t) \/ FinishTurn(t)
                             \/ Chunk(t) \/ AgentStops(t) \/ Disconnect(t)
      PROVE  UNCHANGED <<process, init, sessions, bound, model>>
  BY <1>7 DEF Receive, SendPrompt, PromptEnds, FinishTurn, Chunk, AgentStops, Disconnect, agent
<1>9. ASSUME NEW q \in Ask, Permission(q)
      PROVE  UNCHANGED <<process, init, sessions, bound, model>>
  BY <1>9 DEF Permission, AskPermission, RelayPermission, BridgeReplies, EndRelay, agent
<1>10. ASSUME NEW r \in replies, Deliver(r)
       PROVE  UNCHANGED <<process, init, sessions, bound, model>>
  BY <1>10 DEF Deliver, agent
<1>8. UNCHANGED vars => UNCHANGED <<process, init, sessions, bound, model>>
  BY DEF vars, agent
<1> QED
  BY <1>b, <1>1, <1>2, <1>3, <1>4, <1>5, <1>6, <1>7, <1>8, <1>9, <1>10
     DEF AdapterNext, Serve

-----------------------------------------------------------------------------
(* Permissions *)

\* A request that keeps its place among those of its connection.
LEMMA AskMoves ==
    ASSUME AsksInv, NEW q \in Ask, NEW v \in AskType, ask' = [ask EXCEPT ![q] = v],
           v.via = ask[q].via, v.via # None => v.id = ask[q].id,
           UNCHANGED decided, replies' \subseteq replies,
           v.at \in {"none", "asked"} => v.via = None, v.at = "asked" => v.acp \in Acp,
           v.got = "selected" \/ v.at = "approved" => q \in decided
    PROVE  AsksInv'
<1>1. \A p \in Ask : ask'[p] = IF p = q THEN v ELSE ask[p]
  BY DEF AsksInv
<1>2. ask' \in [Ask -> AskType]
  BY DEF AsksInv
<1>3. \A p \in Ask : /\ ask'[p].via = ask[p].via
                     /\ ask[p].via # None => ask'[p].id = ask[p].id
  BY <1>1
<1>5. ASSUME NEW p \in Ask
      PROVE  /\ ask'[p].at \in {"none", "asked"} => ask'[p].via = None
             /\ ask'[p].at = "asked" => ask'[p].acp \in Acp
             /\ ask'[p].got = "selected" \/ ask'[p].at = "approved" => p \in decided
             /\ ask'[p].via # None =>
                   /\ ask'[p].id > 0
                   /\ ask'[p].id <= Cardinality({o \in Ask : ask'[o].via = ask'[p].via})
  <2>1. /\ ask'[p].at \in {"none", "asked"} => ask'[p].via = None
        /\ ask'[p].at = "asked" => ask'[p].acp \in Acp
        /\ ask'[p].got = "selected" \/ ask'[p].at = "approved" => p \in decided
    BY <1>1 DEF AsksInv
  <2>2. {o \in Ask : ask'[o].via = ask'[p].via} = {o \in Ask : ask[o].via = ask[p].via}
    BY <1>3
  <2> QED
    BY <1>3, <2>1, <2>2 DEF AsksInv
<1>6. \A p, o \in Ask : /\ p # o /\ ask'[p].via = ask'[o].via /\ ask'[p].via # None
                       => ask'[p].id # ask'[o].id
  BY <1>3 DEF AsksInv
<1>7. ASSUME NEW r \in replies', r.verdict = "selected"
      PROVE  \E p \in decided : ask'[p].via = r.via /\ ask'[p].id = r.id
  <2>1. r \in replies /\ r.via \in Turn /\ decided \subseteq Ask
    BY DEF AsksInv, Reply
  <2>2. PICK p \in decided : ask[p].via = r.via /\ ask[p].id = r.id
    BY <1>7, <2>1 DEF AsksInv
  <2> QED
    BY <1>3, <2>1, <2>2, AdapterAssumption
<1>8. replies' \subseteq Reply /\ decided \subseteq Ask
  BY DEF AsksInv
<1> QED
  BY <1>2, <1>5, <1>6, <1>7, <1>8 DEF AsksInv

\* A request that goes out gets the next number of its connection.
LEMMA RelayNumbers ==
    ASSUME AsksInv, NEW q \in Ask, NEW u \in Turn, ask[q].at = "asked",
           NEW v \in AskType, ask' = [ask EXCEPT ![q] = v], UNCHANGED <<replies, decided>>,
           v.at = "relayed", v.via = u, v.id = nextID(u), v.got = "none"
    PROVE  AsksInv'
<1>1. \A p \in Ask : ask'[p] = IF p = q THEN v ELSE ask[p]
  BY DEF AsksInv
<1>2. ask' \in [Ask -> AskType] /\ replies' \subseteq Reply /\ decided' \subseteq Ask
  BY DEF AsksInv
<1>3. ask[q].via = None /\ u # None
  BY AdapterAssumption DEF AsksInv
<1> DEFINE Via(w) == {p \in Ask : ask[p].via = w}
           ViaNext(w) == {p \in Ask : ask'[p].via = w}
<1>4. IsFiniteSet(Ask)
  BY AdapterAssumption, FS_Interval DEF Ask
<1>5. \A w : IsFiniteSet(Via(w)) /\ Cardinality(Via(w)) \in Nat
  BY <1>4, FS_Subset, FS_CardinalityType
<1>6. q \notin Via(u) /\ ViaNext(u) = Via(u) \cup {q}
  BY <1>1, <1>3
<1>7. Cardinality(ViaNext(u)) = Cardinality(Via(u)) + 1
  <2>1. PICK S : S = Via(u)
    OBVIOUS
  <2>2. IsFiniteSet(S) /\ q \notin S
    BY <1>5, <1>6, <2>1
  <2>3. Cardinality(S \cup {q}) = Cardinality(S) + 1
    BY <2>2, FS_AddElement
  <2>4. ViaNext(u) = S \cup {q}
    BY <1>6, <2>1
  <2> QED
    BY <2>1, <2>3, <2>4
<1>8. \A w : w # u /\ w # None => ViaNext(w) = Via(w)
  BY <1>1, <1>3
<1>9. \A p \in Ask : ask[p].via # None =>
         ask[p].id > 0 /\ ask[p].id <= Cardinality(Via(ask[p].via)) /\ ask[p].id \in Nat
  <2>1. \A p \in Ask : ask[p].id \in Nat
    BY DEF AsksInv, AskType
  <2> QED
    BY <2>1 DEF AsksInv
<1>10. v.id = Cardinality(Via(u)) + 1
  BY DEF nextID
<1> HIDE DEF Via, ViaNext
<1>11. ASSUME NEW p \in Ask
       PROVE  /\ ask'[p].at \in {"none", "asked"} => ask'[p].via = None
              /\ ask'[p].at = "asked" => ask'[p].acp \in Acp
              /\ ask'[p].got = "selected" \/ ask'[p].at = "approved" => p \in decided'
              /\ ask'[p].via # None =>
                    /\ ask'[p].id > 0
                    /\ ask'[p].id <= Cardinality(ViaNext(ask'[p].via))
  <2>1. CASE p = q
    <3>1. ask'[p] = v
      BY <1>1, <2>1
    <3>2. Cardinality(Via(u)) \in Nat
      BY <1>5
    <3> QED
      BY <1>7, <1>10, <3>1, <3>2
  <2>2. CASE p # q
    <3>1. ask'[p] = ask[p]
      BY <1>1, <2>2
    <3>2. /\ ask[p].at \in {"none", "asked"} => ask[p].via = None
          /\ ask[p].at = "asked" => ask[p].acp \in Acp
          /\ ask[p].got = "selected" \/ ask[p].at = "approved" => p \in decided
      BY DEF AsksInv
    <3>3. Cardinality(Via(u)) \in Nat
      BY <1>5
    <3>4. ask[p].via # None => ask[p].id > 0 /\ ask[p].id <= Cardinality(ViaNext(ask[p].via))
      <4>1. CASE ask[p].via = u
        BY <1>3, <1>7, <1>9, <3>3, <4>1
      <4>2. CASE ask[p].via # u
        BY <1>8, <1>9, <4>2
      <4> QED
        BY <4>1, <4>2
    <3> QED
      BY <3>1, <3>2, <3>4
  <2> QED
    BY <2>1, <2>2
<1>12. ASSUME NEW p \in Ask, NEW o \in Ask, p # o, ask'[p].via = ask'[o].via,
              ask'[p].via # None
       PROVE  ask'[p].id # ask'[o].id
  <2>1. CASE p # q /\ o # q
    BY <1>1, <1>12, <2>1 DEF AsksInv
  <2>2. Cardinality(Via(u)) \in Nat
    BY <1>5
  <2>3. ASSUME NEW x \in Ask, x # q, ask'[x].via = u PROVE ask'[x].id # v.id
    <3>1. ask'[x] = ask[x]
      BY <1>1, <2>3
    <3> QED
      BY <1>3, <1>9, <1>10, <2>2, <2>3, <3>1
  <2>4. CASE p = q
    BY <1>1, <1>12, <2>3, <2>4
  <2>5. CASE o = q
    BY <1>1, <1>12, <2>3, <2>5
  <2> QED
    BY <2>1, <2>4, <2>5
<1>13. ASSUME NEW r \in replies', r.verdict = "selected"
       PROVE  \E p \in decided' : ask'[p].via = r.via /\ ask'[p].id = r.id
  <2>1. r \in replies /\ r.via \in Turn /\ decided \subseteq Ask
    BY DEF AsksInv, Reply
  <2>2. PICK p \in decided : ask[p].via = r.via /\ ask[p].id = r.id
    BY <1>13, <2>1 DEF AsksInv
  <2>3. p # q
    BY <1>3, <2>1, <2>2, AdapterAssumption
  <2> QED
    BY <1>1, <2>1, <2>2, <2>3
<1> QED
  BY <1>2, <1>11, <1>12, <1>13 DEF AsksInv, ViaNext

LEMMA AsksStep == TurnsInv /\ AsksInv /\ [AdapterNext]_vars => AsksInv'
<1> SUFFICES ASSUME TurnsInv, AsksInv, [AdapterNext]_vars PROVE AsksInv'
  OBVIOUS
<1>a. CASE UNCHANGED asks
  BY <1>a DEF asks, AsksInv
<1>b. PICK n : n = NoAsk
  OBVIOUS
<1>c. n \in AskType /\ n.at = "none" /\ n.via = None /\ n.got = "none"
  BY <1>b DEF NoAsk, AskType
<1>1. ASSUME NEW q \in Ask, AskPermission(q) PROVE AsksInv'
  <2>1. PICK t \in Turn : /\ work[t] # None
                          /\ ask' = [ask EXCEPT ![q] = [n EXCEPT !.at = "asked", !.acp = work[t]]]
    BY <1>1, <1>b DEF AskPermission, SetAsk
  <2>2. PICK a, v : a = work[t] /\ v = [n EXCEPT !.at = "asked", !.acp = a]
    OBVIOUS
  <2>3. a \in Acp
    BY <2>1, <2>2 DEF TurnsInv
  <2>4. /\ v \in AskType /\ v.at = "asked" /\ v.acp = a /\ v.via = None /\ v.got = "none"
    BY <1>c, <2>2, <2>3 DEF AskType
  <2>5. ask[q].via = None /\ UNCHANGED <<replies, decided>>
    BY <1>1, <1>b, <1>c DEF AskPermission
  <2> QED
    BY <2>1, <2>2, <2>3, <2>4, <2>5, AskMoves
<1>2. ASSUME NEW q \in Ask, RelayPermission(q) PROVE AsksInv'
  <2>1. PICK u : u = listener[ask[q].acp]
    OBVIOUS
  <2>2. ask[q].at = "asked" /\ ask[q].via = None /\ UNCHANGED <<replies, decided>>
    BY <1>2 DEF RelayPermission, AsksInv
  <2>3. u \in Turn \cup {None}
    BY <2>1, <2>2 DEF AsksInv, TurnsInv
  <2>4. CASE u = None
    <3>1. PICK v : v = [n EXCEPT !.at = "denied"]
      OBVIOUS
    <3>2. v \in AskType /\ v.at = "denied" /\ v.via = None /\ v.got = "none"
      BY <1>c, <3>1 DEF AskType
    <3>3. ask' = [ask EXCEPT ![q] = v]
      BY <1>2, <1>b, <2>1, <2>4, <3>1 DEF RelayPermission, SetAsk, listenerOf
    <3> QED
      BY <2>2, <3>2, <3>3, AskMoves
  <2>5. CASE u # None
    <3>1. PICK v, k : k = nextID(u) /\ v = [n EXCEPT !.at = "relayed", !.via = u, !.id = k]
      OBVIOUS
    <3>2. k \in Nat
      <4>1. IsFiniteSet(Ask)
        BY AdapterAssumption, FS_Interval DEF Ask
      <4>2. IsFiniteSet({p \in Ask : ask[p].via = u})
        BY <4>1, FS_Subset
      <4>3. Cardinality({p \in Ask : ask[p].via = u}) \in Nat
        BY <4>2, FS_CardinalityType
      <4> QED
        BY <3>1, <4>3 DEF nextID
    <3>3. /\ v \in AskType /\ v.at = "relayed" /\ v.via = u /\ v.id = k /\ v.got = "none"
      BY <1>c, <2>3, <3>1, <3>2 DEF AskType
    <3>4. ask' = [ask EXCEPT ![q] = v]
      BY <1>2, <1>b, <2>1, <2>5, <3>1 DEF RelayPermission, SetAsk, listenerOf
    <3> QED
      BY <2>2, <2>3, <2>5, <3>1, <3>3, <3>4, RelayNumbers
  <2> QED
    BY <2>4, <2>5
<1>3. ASSUME NEW q \in Ask, BridgeReplies(q) PROVE AsksInv'
  <2>1. ask[q] \in AskType /\ ask[q].via \in Turn /\ ask[q].id > 0 /\ UNCHANGED ask
    BY <1>3 DEF BridgeReplies, AsksInv, AskType
  <2>2. PICK verdict \in {"selected", "refused"} :
           /\ replies' = replies \cup {[via |-> ask[q].via, id |-> ask[q].id,
                                         verdict |-> verdict]}
           /\ decided' = IF verdict = "selected" THEN decided \cup {q} ELSE decided
    BY <1>3 DEF BridgeReplies
  <2>3. PICK s : s = [via |-> ask[q].via, id |-> ask[q].id, verdict |-> verdict]
    OBVIOUS
  <2>4. s \in Reply /\ s.via = ask[q].via /\ s.id = ask[q].id /\ s.verdict = verdict
    BY <2>1, <2>3 DEF Reply, AskType
  <2>5. replies' = replies \cup {s} /\ decided \subseteq decided' /\ decided' \subseteq Ask
    BY <2>2, <2>3 DEF AsksInv
  <2>6. ASSUME NEW r \in replies', r.verdict = "selected"
        PROVE  \E p \in decided' : ask[p].via = r.via /\ ask[p].id = r.id
    <3>1. CASE r = s
      BY <2>2, <2>4, <2>6, <3>1
    <3>2. CASE r \in replies
      BY <2>5, <2>6, <3>2 DEF AsksInv
    <3> QED
      BY <2>5, <3>1, <3>2
  <2> QED
    BY <2>1, <2>4, <2>5, <2>6 DEF AsksInv
<1>4. ASSUME NEW q \in Ask, EndRelay(q) PROVE AsksInv'
  <2>1. PICK w : w = ask[q]
    OBVIOUS
  <2>2. PICK at \in {"approved", "denied"} :
           /\ ask' = [ask EXCEPT ![q] = [w EXCEPT !.at = at]]
           /\ at = "approved" => w.got = "selected"
    BY <1>4, <2>1 DEF EndRelay, SetAsk
  <2>3. PICK v : v = [w EXCEPT !.at = at]
    OBVIOUS
  <2>4. /\ w \in AskType /\ v \in AskType /\ v.at = at /\ v.via = w.via /\ v.id = w.id
        /\ v.got = w.got /\ UNCHANGED <<replies, decided>>
    BY <1>4, <2>1, <2>3 DEF EndRelay, AsksInv, AskType
  <2>5. w.got = "selected" => q \in decided
    BY <2>1 DEF AsksInv
  <2> QED
    BY <2>1, <2>2, <2>3, <2>4, <2>5, AskMoves
<1>5. ASSUME NEW r \in replies, Deliver(r) PROVE AsksInv'
  <2>1. replies' \subseteq replies /\ UNCHANGED decided /\ r \in Reply
    BY <1>5 DEF Deliver, AsksInv
  <2>2. CASE UNCHANGED ask
    BY <2>1, <2>2 DEF AsksInv
  <2>3. ASSUME NEW q \in waitsFor(r), ask' = [ask EXCEPT ![q].got = r.verdict]
        PROVE  AsksInv'
    <3>1. q \in Ask /\ ask[q].at = "relayed" /\ ask[q].via = r.via /\ ask[q].id = r.id
      BY <2>3 DEF waitsFor
    <3>2. r.verdict = "selected" => q \in decided
      <4>1. r.via # None
        BY <2>1, AdapterAssumption DEF Reply
      <4>2. ASSUME r.verdict = "selected" PROVE q \in decided
        <5>1. PICK p \in decided : ask[p].via = r.via /\ ask[p].id = r.id
          BY <4>2 DEF AsksInv
        <5>2. p \in Ask
          BY DEF AsksInv
        <5> QED
          BY <3>1, <4>1, <5>1, <5>2 DEF AsksInv
      <4> QED
        BY <4>2
    <3>3. PICK w, g : w = ask[q] /\ g = r.verdict
      OBVIOUS
    <3>4. PICK v : v = [w EXCEPT !.got = g]
      OBVIOUS
    <3>5. w \in AskType /\ g \in {"selected", "refused"}
      BY <2>1, <3>1, <3>3 DEF AsksInv, Reply
    <3>6. /\ v \in AskType /\ v.at = w.at /\ v.via = w.via /\ v.id = w.id /\ v.got = g
      BY <3>4, <3>5 DEF AskType
    <3>7. ask' = [ask EXCEPT ![q] = v]
      BY <2>3, <3>3, <3>4
    <3> QED
      BY <2>1, <3>1, <3>2, <3>3, <3>6, <3>7, AskMoves
  <2> QED
    BY <1>5, <2>2, <2>3 DEF Deliver
<1>6. ASSUME NEW t \in Turn, Disconnect(t) PROVE AsksInv'
  BY <1>6 DEF Disconnect, AsksInv
<1>7. ASSUME NEW t \in Turn, \/ Receive(t) \/ Initialize(t) \/ Handshake(t) \/ Lookup(t)
                             \/ NewSession(t) \/ BindModel(t) \/ SendPrompt(t) \/ FailTurn(t)
                             \/ PromptEnds(t) \/ FinishTurn(t) \/ Chunk(t) \/ AgentStops(t)
      PROVE  UNCHANGED asks
  BY <1>7 DEF Receive, Initialize, Handshake, Lookup, NewSession, BindModel, SendPrompt,
              FailTurn, PromptEnds, FinishTurn, Chunk, AgentStops
<1>8. CloseSession \/ AgentExits \/ UNCHANGED vars => UNCHANGED asks
  BY DEF CloseSession, AgentExits, vars
<1> QED
  BY <1>a, <1>1, <1>2, <1>3, <1>4, <1>5, <1>6, <1>7, <1>8 DEF AdapterNext, Serve, Permission

LEMMA AdapterAlways == AdapterSpec => [](TurnsInv /\ AgentTypes /\ AsksInv)
BY AdapterStart, TurnsStep, AgentStep, AsksStep, PTL DEF AdapterSpec

\* The adapter's tables, turns and permission requests are well typed.
THEOREM AdapterTypes == AdapterSpec => []AdapterTypeOK
<1>1. TurnsInv /\ AgentTypes /\ AsksInv => AdapterTypeOK
  BY DEF TurnsInv, AgentTypes, AsksInv, AdapterTypeOK, TurnType, AskType
<1> QED
  BY <1>1, AdapterAlways, PTL

\* No tool runs that the bridge did not select an option for: a reply finds the request
\* with its id on its connection, and no two requests of a connection share one.
THEOREM ApprovalsAreDecided == AdapterSpec => []ApprovalIsDecided
<1>1. AsksInv => ApprovalIsDecided
  BY DEF AsksInv, ApprovalIsDecided
<1> QED
  BY <1>1, AdapterAlways, PTL

\* A turn hears its own agent session only, and a prompt that overlaps with no other in
\* its session is heard by its own turn, which hears nothing else.
THEOREM LonePromptsAreHeard == AdapterSpec => []LonePromptIsHeard
<1>1. TurnsInv => LonePromptIsHeard
  BY DEF TurnsInv, TurnOK, Lone, LonePromptIsHeard
<1> QED
  BY <1>1, AdapterAlways, PTL
=============================================================================
