----------------------------- MODULE MCGateway ------------------------------
(* The way of a turn to a model: its context is put together, the budget is *)
(* asked, the gateway checks the policy of its key and the trace of its     *)
(* hops.  They share nothing: a behaviour is of one of them.                *)
EXTENDS Budget, ApiKeyPolicy, PeerRouting, Context, TLC

VARIABLE part
gatewayVars == <<policyVars, peerVars, contextVars, budgetVars, part>>

Model(name, kind, combo, pool) == [name |-> name, kind |-> kind, combo |-> combo, pool |-> pool]

MCModels == {Model("m1", "plain", None, None), Model("m2", "plain", "c2", None),
             Model("auto/x", "auto", None, None), Model("qtSd/g", "quota", None, "g")}

NoSchedule == [enabled |-> FALSE, tzKnown |-> TRUE, from |-> 0, until |-> 0, days |-> {}]
Night == [enabled |-> TRUE, tzKnown |-> TRUE, from |-> 2, until |-> 1, days |-> {0}]

Plain == [isActive |-> TRUE, isBanned |-> FALSE, expiresAt |-> None, schedule |-> NoSchedule,
          usageLimited |-> FALSE, allowedEndpoints |-> {}, allowedQuotas |-> {},
          allowedCombos |-> {}, allowedModels |-> {}, publicOnly |-> FALSE, hasId |-> TRUE,
          rateLimits |-> {}, perDay |-> 0, perMinute |-> 0, throttled |-> FALSE]

MCPolicies ==
    {[Plain EXCEPT !.perMinute = 1, !.allowedModels = {"m1"}, !.throttled = TRUE],
     [Plain EXCEPT !.allowedCombos = {"c2"}, !.publicOnly = TRUE,
                   !.rateLimits = {[limit |-> 1, window |-> "day"]}],
     [Plain EXCEPT !.allowedCombos = {"c3"}, !.schedule = Night, !.expiresAt = 0],
     [Plain EXCEPT !.allowedQuotas = {"g"}, !.usageLimited = TRUE,
                   !.allowedEndpoints = {"chat"}, !.perDay = 1],
     [Plain EXCEPT !.isActive = FALSE, !.hasId = FALSE]}

\* Three gateways that are each other's peers; a leaf without an id and an id used twice;
\* one that the others do not know as a peer.
ByName(x, y, z) == "a" :> x @@ "b" :> y @@ "c" :> z
Mesh == [g \in Gateways |-> Gateways]
MCFederations ==
    {[id |-> ByName("a", "b", "c"), hops |-> ByName(0, 2, 33), peers |-> Mesh, upstreams |-> Mesh],
     [id |-> ByName("a", "b", "c"), hops |-> ByName(1, 1, 2), peers |-> Mesh, upstreams |-> Mesh],
     [id |-> ByName("a", "a", NoId), hops |-> ByName(3, 3, 3), peers |-> Mesh,
      upstreams |-> ByName({"b", "c"}, {"a", "c"}, {})],
     [id |-> ByName("a", "b", NoId), hops |-> ByName(3, 3, 3),
      peers |-> ByName({"b", "c"}, {"c"}, {"a"}), upstreams |-> Mesh]}

\* What is said: quarantined text from a trusted channel, under its own role and in an
\* answer, and a tool's; longer and shorter than a snippet.
Said(role, provenance, length) == [role |-> role, provenance |-> provenance, length |-> length]
MCReplies ==
    {Said("owner", "quarantine", 9), Said("assistant", "quarantine", 5),
     Said("tool", "orchestrator", 4), Said("quarantine", "quarantine", 8)}

\* A budget that the facts alone exceed, one that some of the talk or of what is
\* recalled fits in, and none.
Within(enabled, tail, recall, tokens) ==
    [enabled |-> enabled, dialogTail |-> tail, recallK |-> recall, maxTokens |-> tokens]
MCContextConfigs == {Within(TRUE, 2, 1, 6), Within(TRUE, 2, 2, 12), Within(FALSE, 2, 1, 1)}
MCKnowledgeLists == {<<5, 9>>}

\* The second brings less than is spent, and a reserve above its limit.
Daily(limit, reserve) == [dailyTokenLimit |-> limit, reserveForOwner |-> reserve]
MCConfigs == {Daily(2, 1), Daily(1, 2)}

\* A behaviour of another part has one federation and one configuration, which it never
\* looks at.
GatewayInit ==
    /\ PolicyInit /\ PeerInit /\ ContextInit /\ BudgetInit
    /\ part \in {"policy", "peers", "context", "budget"}
    /\ part # "peers" => federation = CHOOSE f \in Federations : TRUE
    /\ part # "budget" => config = CHOOSE c \in Configs : TRUE
GatewayNext ==
    \/ part = "policy" /\ PolicyNext /\ UNCHANGED <<peerVars, contextVars, budgetVars, part>>
    \/ part = "peers" /\ PeerNext /\ UNCHANGED <<policyVars, contextVars, budgetVars, part>>
    \/ part = "context" /\ ContextNext /\ UNCHANGED <<policyVars, peerVars, budgetVars, part>>
    \/ part = "budget" /\ BudgetNext /\ UNCHANGED <<policyVars, peerVars, contextVars, part>>

GatewaySpec ==
    /\ GatewayInit /\ [][GatewayNext]_gatewayVars
    /\ WF_peerVars(part = "peers" /\ PeerProgress /\ UNCHANGED <<policyVars, contextVars, budgetVars, part>>)
=============================================================================
