------------------------------ MODULE Approval ------------------------------
(***************************************************************************)
(* The gate of packages/core/trust-domains/gate: the verdict on an action  *)
(* (engine.ts over actions.ts and mcp-actions.ts), the second factor an    *)
(* approval needs (second-factor.ts, channels.ts, approve-check.ts,        *)
(* totp.ts) and the store of the actions that wait (pending.ts).           *)
(*                                                                         *)
(* The store is a SQLite file: a call is one SQL statement after another,  *)
(* and handlers of different processes interleave between them.  That is   *)
(* what the guard and the row count of consume's UPDATE are for.  The code *)
(* that calls the store on an /approve is not in the repository; its order *)
(* (peek, check, consume, evaluate with confirmed, execute) is the one the *)
(* signatures and comments of the store and the engine call for.           *)
(***************************************************************************)
EXTENDS Integers, SequencesExt, FiniteSets

CONSTANTS
    Tokens,        \* the tokens create may draw; each is drawn once
    Handlers,      \* the /approve handlers
    Sessions,      \* the sessions requests and approvals come from
    ChannelOf,     \* channelFromSession, by session
    McpIds,        \* the tools a server may register
    McpSpecs,      \* what registerMcpTool may say of them: class and requiresBroker
    Requested,     \* the ids of the actions that are requested
    Settings,      \* the configurations: second factor, paired channels, schema
    Ttl,           \* PendingStoreOptions.ttlMs, in TOTP steps
    Null,          \* null and undefined
    MaxTime, MaxCrashes, MaxChanges   \* bounds: clock, crashes, changes of registry and health

ActionClasses == <<"read-only", "reversible", "irreversible">>
Classes == ToSet(ActionClasses)
Channels == <<"telegram", "discord", "webchat", "matrix", "slack">>
ApproveChannels == ToSet(Channels) \cup {"totp"}
Provenances == {"owner", "system", "scheduler", "channel"}

\* ACTIONS, the closed registry of the core.
CoreIds == {"llm.invoke", "message.send", "memory.read", "web.fetch", "file.read",
            "file.write", "sandbox.run", "action.dangerous"}
CoreSpec(id) ==
    [actionClass |-> CASE id \in {"memory.read", "web.fetch", "file.read"} -> "read-only"
                       [] id = "action.dangerous" -> "irreversible"
                       [] OTHER -> "reversible",
     requiresBroker |-> id \in {"web.fetch", "sandbox.run"}]

ActionSpec == [actionClass : Classes, requiresBroker : BOOLEAN]

\* A row of pending_actions, and what formatApproveHint told the owner about it.
Pending == [id : Requested, origin : Sessions, hinted : ApproveChannels \cup {Null},
            required : ApproveChannels \cup {Null}, expires : Nat, consumed : BOOLEAN]

ASSUME ApprovalAssumption ==
    /\ ChannelOf \in [Sessions -> ToSet(Channels) \cup {Null}]
    /\ McpSpecs \subseteq ActionSpec
    /\ McpIds \cap CoreIds = {}
    /\ Settings \subseteq [classes : SUBSET Classes, crossChannel : BOOLEAN, totp : BOOLEAN,
                           secret : BOOLEAN, paired : SUBSET ToSet(Channels), has2faCols : BOOLEAN]
    /\ {Ttl, MaxTime, MaxCrashes, MaxChanges} \subseteq Nat
    /\ Null \notin ApproveChannels /\ Null \notin Tokens /\ Null \notin Pending

VARIABLES
    settings,   \* aegis configuration and schema of the store, read at start
    mcp,        \* the registry of mcp-actions.ts: id to spec, Null when absent
    deps,       \* GateDeps: brokerAvailable and gateHealthy
    changes,    \* how often mcp and deps changed so far
    clock,      \* Date.now(), in TOTP steps
    pending,    \* the table pending_actions: token to row, Null when absent
    handlers,   \* where each /approve handler stands
    performed,  \* performed[token]: how often its action was executed
    refused,    \* the tokens whose action the gate denied after the approval
    by,         \* by[token]: the session of the approval that was consumed
    crashes     \* how often a handler's process died

vars == <<settings, mcp, deps, changes, clock, pending, handlers, performed, refused, by, crashes>>

-----------------------------------------------------------------------------
(* engine.ts: a pure function of the request, the registries and GateDeps. *)

SpecOf(id) == IF id \in CoreIds THEN CoreSpec(id) ELSE IF id \in McpIds THEN mcp[id] ELSE Null

Order == [class \in Classes |-> CHOOSE i \in DOMAIN ActionClasses : ActionClasses[i] = class]

\* Fault: the skill's class counts instead of the action's.
EffectiveClassOfSkill(class, skill) == IF skill = Null THEN class ELSE skill

EffectiveClass(class, skill) ==
    IF skill = Null \/ Order[skill] < Order[class] THEN class ELSE skill

TrustedForReadonly == {"owner", "system"}
TrustedForBackground == {"scheduler"}
TrustedForEffect == {"owner"}

Verdict(class, prov, confirmed) ==
    CASE class = "read-only" ->
           IF prov \in TrustedForReadonly \cup TrustedForBackground THEN "allow" ELSE "deny"
      [] class = "reversible" ->
           IF prov \in TrustedForEffect \cup TrustedForBackground THEN "allow" ELSE "deny"
      [] class = "irreversible" ->
           IF prov \notin TrustedForEffect THEN "deny"
           ELSE IF confirmed THEN "allow" ELSE "confirm_required"

\* req: the action's id, its provenance, the skill's class and whether it is confirmed.
Evaluate(req) ==
    LET spec == SpecOf(req.id)
    IN  IF \/ ~deps.gateHealthy
           \/ spec = Null
           \/ spec # Null /\ spec.requiresBroker /\ ~deps.brokerAvailable
        THEN "deny"
        ELSE Verdict(EffectiveClass(spec.actionClass, req.skill), req.prov, req.confirmed)

-----------------------------------------------------------------------------
(* second-factor.ts and approve-check.ts.                                  *)

\* Fault: the channel the request came from is not left out.
PickAnyPaired(origin, paired) ==
    LET places == {i \in DOMAIN Channels : Channels[i] \in paired}
    IN  IF places = {} THEN Null ELSE Channels[Min(places)]

\* pickAlternateChannel: the first paired channel but the one of the request.
PickAlternateChannel(origin, paired) ==
    LET places == {i \in DOMAIN Channels : Channels[i] # origin /\ Channels[i] \in paired}
    IN  IF places = {} THEN Null ELSE Channels[Min(places)]

ResolveRequiredChannel(class, session) ==
    LET alternate == IF /\ settings.crossChannel /\ Cardinality(settings.paired) >= 2
                        /\ ChannelOf[session] # Null
                     THEN PickAlternateChannel(ChannelOf[session], settings.paired)
                     ELSE Null
    IN  IF class \notin settings.classes THEN Null
        ELSE IF alternate # Null THEN alternate
        ELSE IF settings.totp /\ settings.secret THEN "totp" ELSE Null

\* A code is the TOTP step it was read at, Null when there is none or it is wrong.
VerifyTotp(code) == code # Null /\ code \in (clock - 1) .. (clock + 1)

\* checkPendingApproval returns null.
CheckPendingApproval(row, session, code) ==
    CASE row.required = Null -> TRUE
      [] row.required = "totp" -> settings.secret /\ VerifyTotp(code)
      [] OTHER -> ChannelOf[session] = row.required

-----------------------------------------------------------------------------
(* PendingStore.                                                           *)

\* mapRow knows three of the channels; the columns may not be there at all.
MapRow(row) ==
    [row EXCEPT !.required = IF @ \in {"telegram", "discord", "totp"} THEN @ ELSE Null]

Alive(token) == /\ pending[token] # Null
                /\ ~pending[token].consumed
                /\ pending[token].expires >= clock

Peek(token) == IF Alive(token) THEN MapRow(pending[token]) ELSE Null

Create(token, id, session, required) ==
    pending' = [pending EXCEPT ![token] =
                   [id |-> id, origin |-> session,
                    hinted |-> required,
                    required |-> IF settings.has2faCols THEN required ELSE Null,
                    expires |-> clock + Ttl, consumed |-> FALSE]]

Idle == [at |-> "idle", token |-> Null, session |-> Null]

Init ==
    /\ settings \in Settings
    /\ mcp = [id \in McpIds |-> Null]
    /\ deps = [brokerAvailable |-> TRUE, gateHealthy |-> TRUE]
    /\ changes = 0 /\ clock = 0 /\ crashes = 0
    /\ pending = [t \in Tokens |-> Null]
    /\ handlers = [h \in Handlers |-> Idle]
    /\ performed = [t \in Tokens |-> 0]
    /\ refused = {}
    /\ by = [t \in Tokens |-> Null]

\* Fault: INSERT OR REPLACE, a token drawn twice takes over the row.
RequestReplacing(id, prov, skill, session, token) ==
    /\ Evaluate([id |-> id, prov |-> prov, skill |-> skill, confirmed |-> FALSE]) = "confirm_required"
    /\ Create(token, id, session,
              ResolveRequiredChannel(EffectiveClass(SpecOf(id).actionClass, skill), session))
    /\ UNCHANGED <<settings, mcp, deps, changes, clock, handlers, performed, refused, by, crashes>>

\* An action is requested and has to wait.  What the gate allows runs at once, and
\* what it denies ends there: neither touches this state.
Request(id, prov, skill, session, token) ==
    /\ Evaluate([id |-> id, prov |-> prov, skill |-> skill, confirmed |-> FALSE]) = "confirm_required"
    /\ pending[token] = Null
    /\ Create(token, id, session,
              ResolveRequiredChannel(EffectiveClass(SpecOf(id).actionClass, skill), session))
    /\ UNCHANGED <<settings, mcp, deps, changes, clock, handlers, performed, refused, by, crashes>>

\* /approve: what peek returns passes the check.  Where it does not, the owner is
\* sent a hint and nothing changes.
Approve(h, token, session, code) ==
    /\ handlers[h].at = "idle"
    /\ Peek(token) # Null
    /\ CheckPendingApproval(Peek(token), session, code)
    /\ handlers' = [handlers EXCEPT ![h] = [at |-> "checked", token |-> token, session |-> session]]
    /\ UNCHANGED <<settings, mcp, deps, changes, clock, pending, performed, refused, by, crashes>>

\* Fault: the UPDATE of consume comes before its SELECT.
ConsumePeekSwapped(h) ==
    /\ handlers[h].at = "checked"
    /\ pending' = [pending EXCEPT ![handlers[h].token].consumed = TRUE]
    /\ handlers' = [handlers EXCEPT ![h].at = "consuming"]
    /\ UNCHANGED <<settings, mcp, deps, changes, clock, performed, refused, by, crashes>>

\* Fault: the test of the second peek is inverted.
ConsumePeekInverted(h) ==
    /\ handlers[h].at = "checked"
    /\ handlers' = [handlers EXCEPT ![h] = IF Peek(@.token) # Null THEN Idle
                                           ELSE [@ EXCEPT !.at = "consuming"]]
    /\ UNCHANGED <<settings, mcp, deps, changes, clock, pending, performed, refused, by, crashes>>

\* The SELECT of consume: peek again.
ConsumePeek(h) ==
    /\ handlers[h].at = "checked"
    /\ handlers' = [handlers EXCEPT ![h] = IF Peek(@.token) = Null THEN Idle
                                           ELSE [@ EXCEPT !.at = "consuming"]]
    /\ UNCHANGED <<settings, mcp, deps, changes, clock, pending, performed, refused, by, crashes>>

\* Fault: the UPDATE has no AND consumed = 0, so it always changes a row.
ConsumeUpdateUnguarded(h) ==
    LET token == handlers[h].token
    IN  /\ handlers[h].at = "consuming"
        /\ pending' = [pending EXCEPT ![token].consumed = TRUE]
        /\ handlers' = [handlers EXCEPT ![h].at = "consumed"]
        /\ by' = [by EXCEPT ![token] = handlers[h].session]
        /\ UNCHANGED <<settings, mcp, deps, changes, clock, performed, refused, crashes>>

\* The UPDATE of consume; no row changed means that another handler was first.
ConsumeUpdate(h) ==
    LET token == handlers[h].token
    IN  /\ handlers[h].at = "consuming"
        /\ IF pending[token].consumed
           THEN /\ handlers' = [handlers EXCEPT ![h] = Idle]
                /\ UNCHANGED <<pending, by>>
           ELSE /\ pending' = [pending EXCEPT ![token].consumed = TRUE]
                /\ handlers' = [handlers EXCEPT ![h].at = "consumed"]
                /\ by' = [by EXCEPT ![token] = handlers[h].session]
        /\ UNCHANGED <<settings, mcp, deps, changes, clock, performed, refused, crashes>>

\* The action goes through the gate again, confirmed, and is executed.
Perform(h) ==
    LET token == handlers[h].token
    IN  /\ handlers[h].at = "consumed"
        /\ IF Evaluate([id |-> pending[token].id, prov |-> "owner", skill |-> Null,
                        confirmed |-> TRUE]) = "allow"
           THEN performed' = [performed EXCEPT ![token] = @ + 1] /\ UNCHANGED refused
           ELSE refused' = refused \cup {token} /\ UNCHANGED performed
        /\ handlers' = [handlers EXCEPT ![h] = Idle]
        /\ UNCHANGED <<settings, mcp, deps, changes, clock, pending, by, crashes>>

-----------------------------------------------------------------------------
(* The world around: registry, health, time and crashes.                   *)

Change ==
    /\ changes < MaxChanges
    /\ changes' = changes + 1
    /\ UNCHANGED <<settings, clock, pending, handlers, performed, refused, by, crashes>>

RegisterMcpTool(id, spec) == Change /\ mcp' = [mcp EXCEPT ![id] = spec] /\ UNCHANGED deps

ClearMcpActions == Change /\ mcp' = [id \in McpIds |-> Null] /\ UNCHANGED deps

DepsChange ==
    /\ Change
    /\ deps' \in [brokerAvailable : BOOLEAN, gateHealthy : BOOLEAN]
    /\ UNCHANGED mcp

Tick ==
    /\ clock < MaxTime
    /\ clock' = clock + 1
    /\ UNCHANGED <<settings, mcp, deps, changes, pending, handlers, performed, refused, by, crashes>>

Crash(h) ==
    /\ crashes < MaxCrashes
    /\ handlers[h].at # "idle"
    /\ crashes' = crashes + 1
    /\ handlers' = [handlers EXCEPT ![h] = Idle]
    /\ UNCHANGED <<settings, mcp, deps, changes, clock, pending, performed, refused, by>>

HandlerStep(h) == ConsumePeek(h) \/ ConsumeUpdate(h) \/ Perform(h)

Next ==
    \/ \E id \in Requested, prov \in Provenances, skill \in Classes \cup {Null},
          session \in Sessions, token \in Tokens : Request(id, prov, skill, session, token)
    \/ \E h \in Handlers :
        \/ \E token \in Tokens, session \in Sessions, code \in (0 .. clock) \cup {Null} :
               Approve(h, token, session, code)
        \/ ConsumePeek(h) \/ ConsumeUpdate(h) \/ Perform(h) \/ Crash(h)
    \/ \E id \in McpIds, spec \in McpSpecs : RegisterMcpTool(id, spec)
    \/ ClearMcpActions \/ DepsChange \/ Tick

Spec == Init /\ [][Next]_vars

\* An /approve handler that was called runs to its end; owners, tools and crashes need not come.
FairSpec == Spec /\ \A h \in Handlers : WF_vars(HandlerStep(h))

-----------------------------------------------------------------------------
(* Properties.                                                             *)

Handler == [at : {"checked", "consuming", "consumed"}, token : Tokens, session : Sessions]

\* Every variable has its type, and a handler under way holds the token of a row.
TypeOK ==
    /\ settings \in Settings
    /\ mcp \in [McpIds -> McpSpecs \cup {Null}]
    /\ deps \in [brokerAvailable : BOOLEAN, gateHealthy : BOOLEAN]
    /\ changes \in Nat /\ clock \in Nat /\ crashes \in Nat
    /\ pending \in [Tokens -> Pending \cup {Null}]
    /\ handlers \in [Handlers -> Handler \cup {Idle}]
    /\ performed \in [Tokens -> Nat]
    /\ refused \in SUBSET Tokens
    /\ by \in [Tokens -> Sessions \cup {Null}]
    /\ \A h \in Handlers : handlers[h] # Idle => pending[handlers[h].token] # Null

\* One approval executes one action once, however many handlers of however many
\* processes answer the same /approve at the same time.
AtMostOnce == \A t \in Tokens : performed[t] <= 1

\* A consumed token is executed, refused by the gate, or in the hands of exactly one
\* handler; only a crash between consume and execution loses one.
NothingLost ==
    Cardinality({t \in Tokens : pending[t] # Null /\ pending[t].consumed}) <=
        Cardinality({t \in Tokens : performed[t] > 0}) + Cardinality(refused)
        + Cardinality({h \in Handlers : handlers[h].at = "consumed"}) + crashes

\* With two of Telegram and Discord paired an irreversible action never runs on an
\* approval from the channel that asked for it, whichever of several racing
\* approvals the store takes (THREAT_MODEL.md, V6).
SecondFactorHeld ==
    \A t \in Tokens :
        /\ performed[t] > 0
        /\ settings.crossChannel /\ settings.has2faCols
        /\ "irreversible" \in settings.classes
        /\ settings.paired = {"telegram", "discord"}
        /\ ChannelOf[pending[t].origin] # Null
        => ChannelOf[by[t]] \in settings.paired \ {ChannelOf[pending[t].origin]}

\* A skill's own class never makes the gate more lenient than the action's class,
\* for any provenance: max(request, skill) of engine.ts and the order of its tests.
Strictness == [allow |-> 0, confirm_required |-> 1, deny |-> 2]

SkillNeverLowers ==
    \A id \in Requested, skill \in Classes, prov \in Provenances, confirmed \in BOOLEAN :
        LET req == [id |-> id, prov |-> prov, skill |-> Null, confirmed |-> confirmed]
        IN  Strictness[Evaluate(req)] <= Strictness[Evaluate([req EXCEPT !.skill = skill])]

\* An approval that passed the check ends with the token spent or expired, unless
\* the processes that handle it die.
SpentOrExpired ==
    \A h \in Handlers, t \in Tokens :
        handlers[h].at = "checked" /\ handlers[h].token = t
            ~> \/ pending[t] # Null /\ (pending[t].consumed \/ pending[t].expires < clock)
               \/ crashes > 0

\* formatApproveHint tells the owner the channel to confirm from: an action is only
\* executed when it was confirmed from there.
HintEnforced ==
    \A t \in Tokens :
        performed[t] > 0 /\ pending[t].hinted \in ToSet(Channels) =>
            ChannelOf[by[t]] = pending[t].hinted

\* The promise of HumanGate, about the tokens.
Ticket(t) ==
    IF pending[t] = Null THEN "none"
    ELSE IF ~pending[t].consumed THEN "waiting"
    ELSE IF performed[t] > 0 THEN "performed"
    ELSE IF \E h \in Handlers : handlers[h].at = "consumed" /\ handlers[h].token = t
         THEN "granted" ELSE "void"

Gate == INSTANCE HumanGate WITH Tickets <- Tokens, ticket <- [t \in Tokens |-> Ticket(t)],
                                runs <- performed

GateSpec == Gate!Spec
=============================================================================
