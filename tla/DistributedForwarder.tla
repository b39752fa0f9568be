------------------------ MODULE DistributedForwarder ------------------------
(***************************************************************************)
(* distributedTaskRouter (distributed_forwarder.go): bridges that pass a   *)
(* request on to the node that is to execute it.  The node at which it     *)
(* enters chooses a target and remembers it for the session; every later   *)
(* node follows the target header through its own table of next hops, and  *)
(* a hop counter in the headers bounds the way.  The tables are arbitrary, *)
(* so loops and detours are among them.  The router looks the session up,  *)
(* chooses and stores the route without holding a lock across the three.   *)
(*                                                                         *)
(* The requests of the model share one key of the route store, session: or *)
(* thread:.  Requests with another key or with none meet them only in the  *)
(* turn of the round robin; a client that names one conversation now by    *)
(* its session and now by its thread alone has two keys, and two routes.   *)
(***************************************************************************)
EXTENDS Naturals, Sequences, FiniteSets

CONSTANTS
    Node,
    Ingress,     \* the node that clients call
    Candidates,  \* the nodes its rule selects, in the order of their ids
    RoundRobin,  \* the rule's strategy: round_robin, otherwise first
    Meshed,      \* the nodes that may have explicit next hops
    HopLimit,
    Request,
    NoNode

ASSUME ForwarderAssumption ==
    /\ Ingress \in Node /\ Meshed \subseteq Node
    /\ Candidates \in Seq(Node \ {Ingress}) /\ Candidates # << >>
    /\ RoundRobin \in BOOLEAN /\ HopLimit \in Nat
    /\ NoNode \notin Node

VARIABLES
    router,   \* the nodes that have a router: rules are configured
    nextHop,  \* r.routes of every node, the target itself where there is none
    turn,     \* r.roundRobin
    route,    \* the key's entry of the route store
    request,  \* where a request is, and its headers
    seen,     \* requests whose target was stored or found when this one looked
    calm      \* no route expired, no two tasks chose at once

forwarderVars == <<router, nextHop, turn, route, request, seen, calm>>
config == <<router, nextHop>>

Targets == {Candidates[i] : i \in DOMAIN Candidates}
Methods == {"task", "followUp", "other"}

NewRequest == [at |-> "new", node |-> Ingress, method |-> "other", target |-> NoNode, hop |-> 0]

ForwarderInit ==
    /\ router \in {n \in SUBSET Node : Ingress \in n}
    /\ nextHop \in [Node -> [Targets -> Node]]
    /\ \A n \in Node \ (Meshed \cap router) : nextHop[n] = [t \in Targets |-> t]
    /\ turn = 0
    /\ route = NoNode
    /\ request = [r \in Request |-> NewRequest]
    /\ seen = [r \in Request |-> {}]
    /\ calm = TRUE

Put(r, record) == request' = [request EXCEPT ![r] = record]

-----------------------------------------------------------------------------
(* The way of a request from one node *)

Execute(r) == Put(r, [request[r] EXCEPT !.at = "executed"])

\* validateHopLimit
HopAllowed(r) == request[r].hop + 1 <= HopLimit

\* copyForwardRequestHeaders
NextHopCount(r) == request[r].hop + 1

\* decisionForTarget and forward: the next hop may be this node, unknown to the
\* catalog, without a private endpoint, or unreachable.
ForwardTo(r, method, target) ==
    LET n == request[r].node
        hop == nextHop[n][target]
        q == [request[r] EXCEPT !.target = target, !.method = method] IN
    \/ hop = n /\ Put(r, [q EXCEPT !.at = "executed"])
    \/ hop # n /\ Put(r, [q EXCEPT !.at = "refused"])
    \/ /\ hop # n /\ HopAllowed(r)
       /\ Put(r, [q EXCEPT !.at = "arrived", !.node = hop, !.hop = NextHopCount(r)])

\* A forwarded request: a node without a router executes whatever it gets.
Arrive(r) ==
    LET n == request[r].node IN
    /\ request[r].at = "arrived"
    /\ IF n \in router /\ request[r].target # n
       THEN ForwardTo(r, request[r].method, request[r].target)
       ELSE Execute(r)
    /\ UNCHANGED <<config, turn, route, seen, calm>>

-----------------------------------------------------------------------------
(* The node at which it enters *)

Choosing == {r \in Request : request[r].at \in {"choose", "chosen"}}
Decided ==
    {r \in Request : /\ request[r].method = "task" /\ request[r].target # NoNode
                     /\ request[r].at # "chosen"}

\* Whether the stored route decides: for tasks, and for session.cancel and an
\* xworkmate.tasks.get without run identifiers.
followsRoute(method) == method \in {"task", "followUp"}

\* forwardDecision up to the lookup in the route store.
Look(r) ==
    /\ request[r].at = "new"
    /\ \E method \in Methods :
          IF followsRoute(method) /\ route # NoNode
          THEN ForwardTo(r, method, route)
          ELSE Put(r, [request[r] EXCEPT !.method = method,
                                         !.at = IF method = "task" THEN "choose" ELSE "executed"])
    /\ seen' = [seen EXCEPT ![r] = Decided]
    /\ calm' = (calm /\ \A s, t \in Choosing' : s = t)
    /\ UNCHANGED <<config, turn, route>>

\* selectNode
Selected == IF RoundRobin THEN Candidates[(turn % Len(Candidates)) + 1] ELSE Candidates[1]

NextTurn == (turn + 1) % Len(Candidates)

\* targetForRequest: no rule matches the method, no node matches the rule, or the
\* rule names this node; otherwise the rule selects a node.
SelectTarget(r) ==
    /\ request[r].at = "choose"
    /\ \/ Execute(r) /\ UNCHANGED turn
       \/ /\ Put(r, [request[r] EXCEPT !.at = "chosen", !.target = Selected])
          /\ turn' = NextTurn
    /\ UNCHANGED <<config, route, seen, calm>>

\* A request with another key, or with none, is given a target.
OtherSelects ==
    /\ turn' = NextTurn
    /\ UNCHANGED <<config, route, request, seen, calm>>

\* Mutant: the choice is not remembered.
StoredNothing(target) == route

\* routeStore.set, before anything is sent: the route stays if that fails.
Stored(target) == target

StoreRoute(r) ==
    /\ request[r].at = "chosen"
    /\ route' = Stored(request[r].target)
    /\ ForwardTo(r, "task", request[r].target)
    /\ UNCHANGED <<config, turn, seen, calm>>

\* The entry is older than defaultSessionRouteTTL; it is never renewed.
RouteExpires ==
    /\ route # NoNode
    /\ route' = NoNode
    /\ calm' = FALSE
    /\ UNCHANGED <<config, turn, request, seen>>

-----------------------------------------------------------------------------
Handle(r) == Look(r) \/ SelectTarget(r) \/ StoreRoute(r) \/ Arrive(r)

ForwarderNext == RouteExpires \/ OtherSelects \/ \E r \in Request : Handle(r)

ForwarderSpec == ForwarderInit /\ [][ForwarderNext]_forwarderVars

ForwarderTypeOK ==
    /\ router \subseteq Node
    /\ nextHop \in [Node -> [Targets -> Node]]
    /\ turn \in 0..(Len(Candidates) - 1)
    /\ route \in Targets \cup {NoNode}
    /\ request \in [Request -> [at : {"new", "choose", "chosen", "arrived", "executed", "refused"},
                                node : Node, method : Methods, target : Targets \cup {NoNode},
                                hop : 0..HopLimit]]
    /\ seen \in [Request -> SUBSET Request]
    /\ calm \in BOOLEAN

\* While the route lives and no two tasks of the session chose at once, every message,
\* cancellation and poll is executed by the node that executed the session's earlier
\* forwarded tasks, whichever way it takes and although one of them may have failed on
\* the way.
SessionStaysOnItsNode ==
    calm =>
    \A r \in Request : \A earlier \in seen[r] :
        /\ request[r].method \in {"task", "followUp"}
        /\ request[r].at = "executed" /\ request[earlier].at = "executed"
        => request[r].node = request[earlier].node
=============================================================================
