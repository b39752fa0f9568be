------------------------------- MODULE Routing -------------------------------
(***************************************************************************)
(* Where a turn runs: the checks and rewriting of the /gateway/openclaw    *)
(* endpoint (http_handler.go), the front end's own guess whether a request *)
(* is an OpenClaw task, and the resolver (routing.go, router.go).          *)
(*                                                                         *)
(* A request's params are a function of the keys these read; "" is a key   *)
(* that is absent.  Keys of the routing object carry the prefix "routing". *)
(* Of a string only what the comparisons tell apart is kept: "GATEWAY" is  *)
(* a spelling that strings.EqualFold takes for gateway and a switch on the *)
(* string does not.                                                        *)
(***************************************************************************)
EXTENDS Naturals, Sequences, FiniteSets

TargetKey == {"executionTarget", "requestedExecutionTarget"}
GatewayKey == {"preferredGatewayProviderId", "gatewayProviderId", "gatewayProvider"}
RoutingGatewayKey ==
    {"routing.preferredGatewayProviderId", "routing.gatewayProviderId", "routing.gatewayProvider"}
RoutingKey ==
    RoutingGatewayKey \cup
    {"routing.routingMode", "routing.explicitExecutionTarget", "routing.explicitProviderId",
     "routing.role"}
Key == TargetKey \cup GatewayKey \cup RoutingKey \cup {"provider"}

\* The values a key is given, besides being absent.
Values(k) ==
    CASE k \in TargetKey \cup {"routing.explicitExecutionTarget"} ->
            {"gateway", "GATEWAY", "single-agent", "agent"}
      [] k \in GatewayKey \cup RoutingGatewayKey -> {"openclaw", "dsh", "unknown"}
      [] k \in {"provider", "routing.explicitProviderId"} -> {"openclaw", "codex"}
      [] k = "routing.routingMode" -> {"explicit"}
      [] OTHER -> {"coder"}

\* The requests that give at most n keys a value.
ParamsWith(n) ==
    UNION {{[k \in Key |-> IF k \in K THEN f[k] ELSE ""] :
               f \in {g \in [K -> UNION {Values(k) : k \in K}] : \A k \in K : g[k] \in Values(k)}} :
           K \in {K \in SUBSET Key : Cardinality(K) <= n}}

isGatewayExecutionTarget(v) == v \in {"gateway", "GATEWAY"}
isAgentExecutionTarget(v) == v \in {"agent", "single-agent"}
isOpenClawProvider(v) == v = "openclaw"

---------------------------------------------------------------------------
(* The front end. *)

requestHasExplicitAgentRouting(p) ==
    \/ \E k \in TargetKey \cup {"routing.explicitExecutionTarget"} : isAgentExecutionTarget(p[k])
    \/ \E k \in {"provider", "routing.explicitProviderId"} : p[k] # "" /\ ~isOpenClawProvider(p[k])

requestUsesOpenClawGatewaySubmit(p) ==
    /\ ~requestHasExplicitAgentRouting(p)
    /\ \/ \E k \in TargetKey \cup {"routing.explicitExecutionTarget"} : isGatewayExecutionTarget(p[k])
       \/ \E k \in {"gatewayProvider", "gatewayProviderId"} \cup RoutingGatewayKey :
             isOpenClawProvider(p[k])

\* What /gateway/openclaw refuses: another provider or another target.
ConflictsWithOpenClaw(p) ==
    \/ \E k \in {"provider", "routing.explicitProviderId"} : p[k] # ""
    \/ \E k \in TargetKey \cup {"routing.explicitExecutionTarget"} :
          p[k] # "" /\ ~isGatewayExecutionTarget(p[k])
    \/ \E k \in GatewayKey \cup RoutingGatewayKey : p[k] # "" /\ ~isOpenClawProvider(p[k])

\* Mutant: the endpoint leaves the caller's gateway preference as it is.
ForceTargetOnly(p) ==
    [p EXCEPT !["routing.routingMode"] = "explicit",
              !["routing.explicitExecutionTarget"] = "gateway"]

forceOpenClawGatewayRequest(p) ==
    [p EXCEPT !["routing.routingMode"] = "explicit",
              !["routing.explicitExecutionTarget"] = "gateway",
              !["routing.preferredGatewayProviderId"] = "openclaw",
              !["routing.explicitProviderId"] = "",
              !["requestedExecutionTarget"] = "gateway",
              !["executionTarget"] = "gateway"]

---------------------------------------------------------------------------
(* The resolver.  What it takes from outside the request is a record: the  *)
(* class of the prompt, the language model's label, the router type of the *)
(* environment, the available providers in their order, and the            *)
(* preferences of the memory files.                                        *)

\* What the classifier answers: "" without an endpoint or key, when the call
\* fails or takes too long, and when the model's answer has no label in it.
Label == {"", "gateway", "single-agent"}

\* The keywords of looksLocal are looked for before those of looksOnline.
PromptClass == {"local", "online", "other"}

World ==
    {w \in [prompt : PromptClass, label : Label, routerType : {"", "dsh"},
            available : {<<>>, <<"codex">>, <<"codex", "hermes">>},
            preferredRoute : Label, preferredProvider : {"", "hermes"}] :
        \* the label and the preferred route are read only when nothing before decides
        /\ w.prompt # "other" => w.label = ""
        /\ w.prompt # "other" \/ w.label # "" => w.preferredRoute = ""}

normalizeGatewayProvider(v) == IF v \in {"openclaw", "dsh", "dsbot"} THEN v ELSE ""

resolveGatewayProvider(preferred, w) ==
    CASE normalizeGatewayProvider(preferred) # "" -> preferred
      [] OTHER -> IF w.routerType = "dsh" THEN "dsh" ELSE "openclaw"

mapExplicitTarget(v) == IF v = "gateway" THEN "gateway" ELSE "single-agent"

\* A prompt that looks local or online, then the label, then the preferred
\* route, which does not choose a single agent where there is none.
resolveExecution(explicit, w) ==
    IF explicit # "" THEN mapExplicitTarget(explicit)
    ELSE CASE w.prompt = "local" -> "single-agent"
           [] w.prompt = "online" -> "gateway"
           [] w.prompt = "other" /\ w.label # "" -> w.label
           [] OTHER -> IF w.preferredRoute = "gateway" \/ w.available = <<>>
                       THEN "gateway" ELSE "single-agent"

IsAvailable(provider, w) == \E i \in DOMAIN w.available : w.available[i] = provider

\* "" is no provider; for a single agent it is answered as unavailable.  An
\* explicit provider that is not available gives way to the only one there is.
resolveProvider(explicit, target, w) ==
    CASE target = "single-agent" /\ explicit # "" ->
            IF IsAvailable(explicit, w) THEN explicit
            ELSE IF Len(w.available) = 1 THEN w.available[1] ELSE ""
      [] target # "single-agent" \/ IsAvailable(w.preferredProvider, w) ->
            IF IsAvailable(w.preferredProvider, w) THEN w.preferredProvider ELSE ""
      [] OTHER -> IF w.available = <<>> THEN "" ELSE w.available[1]

Unresolved(status) == [status |-> status, target |-> "", provider |-> "", gateway |-> ""]

FirstSet(a, b) == IF a # "" THEN a ELSE b

\* Resolver.Resolve, without skills and model, which decide nothing here.
ResolveRequest(explicit, preferred, explicitProvider, w) ==
    LET target == resolveExecution(explicit, w)
        provider == resolveProvider(explicitProvider, target, w)
    IN  [status |-> IF target = "single-agent" /\ provider = ""
                    THEN "unavailable" ELSE "available",
         target |-> target,
         provider |-> provider,
         gateway |-> IF target = "gateway" THEN resolveGatewayProvider(preferred, w) ELSE ""]

\* DefaultRoutingEngine.Resolve.
Resolve(p, w) ==
    LET explicit == FirstSet(p["routing.explicitExecutionTarget"], p["executionTarget"])
        preferred == FirstSet(p["routing.preferredGatewayProviderId"],
                              FirstSet(p["gatewayProviderId"], p["gatewayProvider"]))
    IN  CASE p["routing.role"] # "" -> Unresolved("unavailable")
          [] p["routing.role"] = "" /\ explicit = "" /\ preferred = ""
             /\ (\A k \in RoutingKey : p[k] = "") -> Unresolved("ROUTING_REQUIRED")
          [] OTHER -> ResolveRequest(explicit, preferred, p["routing.explicitProviderId"], w)
=============================================================================
