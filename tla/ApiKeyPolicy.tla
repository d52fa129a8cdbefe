---------------------------- MODULE ApiKeyPolicy ----------------------------
(***************************************************************************)
(* The policy of an API key: llm-router/rotation/apiKeyPolicy.ts.          *)
(*                                                                         *)
(* enforceApiKeyPolicy is a pipeline.  It reads the metadata of the key    *)
(* once and then asks one check after the other; between two awaits the    *)
(* dashboard may change the key, other requests pass and time goes on.     *)
(* What the checks ask (the key table, combos, quotas, usage, budgets,     *)
(* the rate limiter) is not in the repository: each may answer or throw.   *)
(***************************************************************************)
EXTENDS Integers, FiniteSets, Sequences

CONSTANTS
    Keys,         \* the secrets of API keys
    Requests,     \* the requests that may be under way together
    Policies,     \* the metadata records the dashboard may store for a key
    Models,       \* models a request may name: [name, kind, combo, pool]
    Endpoints,    \* categories of endpoints; the last resort is NoCategory
    EnvRate,      \* DEFAULT_RATE_LIMIT_PER_DAY: a number, None or Junk
    HourCount,    \* hours in a day of the model
    Junk,         \* a value of a setting that is no number
    None,         \* null
    MaxTime,      \* bound: clock, in hours
    MaxChanges,   \* bound: changes of keys by the dashboard
    MaxTargets    \* bound: targets routing tries for one request

ASSUME PolicyAssumption ==
    /\ {MaxTime, MaxChanges, MaxTargets} \subseteq Nat
    /\ HourCount \in Nat \ {0}
    /\ None \notin Keys \cup Policies \cup Models

VARIABLES
    keyRows,      \* the table of keys: key to metadata, None when there is none
    hour,         \* the clock
    changes,      \* how often the dashboard changed a key
    rateCount,    \* the rate limiter's counters: key, window to requests
    requests      \* where each request stands

policyVars == <<keyRows, hour, changes, rateCount, requests>>

Windows == {"minute", "day", "week", "month"}

-----------------------------------------------------------------------------
(* Schedules                                                               *)

\* Fault: an overnight window is taken for an empty one.
SameDayOnly(s, t) ==
    /\ (t \div HourCount) \in s.days
    /\ s.from <= t % HourCount /\ t % HourCount < s.until

\* isWithinSchedule: a schedule whose timezone is unknown lets everything pass.
IsWithinSchedule(s, t) ==
    LET local == t % HourCount
    IN  \/ ~s.enabled \/ ~s.tzKnown
        \/ /\ (t \div HourCount) \in s.days
           /\ IF s.until < s.from THEN local >= s.from \/ local < s.until
                                  ELSE local >= s.from /\ local < s.until

-----------------------------------------------------------------------------
(* Access to models.  The operators say "ok", "refused" or "unavailable";  *)
(* answers says which of the services consulted fail.                      *)

\* resolveRequestedComboName, isComboAllowedForKey, matchesComboAccessRule: a rule
\* names a combo with or without the prefix combo/.
ComboVerdict(allowedCombos, m, answers) ==
    CASE allowedCombos = {}                               -> "ok"
      [] allowedCombos # {} /\ ~answers.combos            -> "unavailable"
      [] OTHER -> IF m.combo = None \/ m.combo \in allowedCombos THEN "ok" ELSE "refused"

ModelRestricted(p) == p.allowedModels # {} \/ p.publicOnly

\* validateModelAccess.  A failure to resolve the name counts as no combo, so that
\* the list of models decides.
ModelVerdict(p, m, answers) ==
    LET verdict == ComboVerdict(p.allowedCombos, m, answers)
        isCombo == \/ p.allowedCombos # {} /\ m.combo # None
                   \/ m.kind \in {"auto", "quota"}
                   \/ answers.names /\ m.combo # None
    IN  IF m = None \/ p.allowedQuotas # {} THEN "ok"
        ELSE IF verdict # "ok" THEN verdict
        ELSE IF ModelRestricted(p) /\ ~isCombo /\ ~answers.listed THEN "refused" ELSE "ok"

\* validateQuotaAccess
QuotaVerdict(p, m, answers) ==
    CASE m = None -> "ok"
      [] m # None /\ p.allowedQuotas = {} -> IF m.kind = "quota" THEN "refused" ELSE "ok"
      [] m # None /\ p.allowedQuotas # {} /\ ~answers.scope -> "unavailable"
      [] OTHER -> IF m.kind = "quota" /\ m.pool \in p.allowedQuotas THEN "ok" ELSE "refused"

\* Fault: a target of the quota kind is left to the list of models.
RoutingTargetByModel(p, m, answers) ==
    IF p.allowedQuotas # {}
    THEN IF ~answers.scope THEN "unavailable"
         ELSE IF m.kind = "quota" /\ m.pool \in p.allowedQuotas THEN "ok" ELSE "refused"
    ELSE LET verdict == ComboVerdict(p.allowedCombos, m, answers)
             isCombo == m.kind = "auto" \/ (answers.names /\ m.combo # None)
         IN  IF verdict # "ok" THEN verdict
             ELSE IF ModelRestricted(p) /\ ~isCombo /\ ~answers.listed THEN "refused" ELSE "ok"

\* validateApiKeyRoutingTarget with its two parts: quota, then combos and models.
RoutingVerdict(p, m, answers) ==
    LET verdict == ComboVerdict(p.allowedCombos, m, answers)
        isCombo == \/ p.allowedCombos # {} /\ m.combo # None
                   \/ m.kind = "auto"
                   \/ answers.names /\ m.combo # None
    IN  CASE p.allowedQuotas = {} /\ m.kind = "quota" -> "refused"
          [] p.allowedQuotas # {} /\ ~answers.scope   -> "unavailable"
          [] p.allowedQuotas # {} /\ answers.scope ->
                IF m.kind = "quota" /\ m.pool \in p.allowedQuotas THEN "ok" ELSE "refused"
          [] OTHER ->
                IF verdict # "ok" THEN verdict
                ELSE IF ModelRestricted(p) /\ ~isCombo /\ ~answers.listed THEN "refused"
                ELSE "ok"

\* isModelAllowedForKey reads the row of the key again.
Listed(k, m) ==
    /\ keyRows[k] # None /\ m # None
    /\ keyRows[k].allowedModels = {} \/ m.name \in keyRows[k].allowedModels

Answers(k, m) ==
    {a \in [scope : BOOLEAN, combos : BOOLEAN, names : BOOLEAN, listed : BOOLEAN] :
        a.listed = Listed(k, m)}

-----------------------------------------------------------------------------
(* Rate limits                                                             *)

\* buildDefaultRateLimits: what is no number counts as 1000.
EnvRules ==
    LET perDay == IF EnvRate = Junk THEN 1000 ELSE EnvRate
    IN  IF EnvRate \in {None, 0} THEN {}
        ELSE {[limit |-> perDay, window |-> "day"], [limit |-> 5 * perDay, window |-> "week"],
              [limit |-> 20 * perDay, window |-> "month"]}

\* buildRateLimitRules: rules of the key's own replace all others.
RateRules(p) ==
    IF p.rateLimits # {} THEN p.rateLimits
    ELSE EnvRules
         \cup {[limit |-> n, window |-> "day"] : n \in {p.perDay} \ {0}}
         \cup {[limit |-> n, window |-> "minute"] : n \in {p.perMinute} \ {0}}

RateExceeded(k, rules) == \E rule \in rules : rateCount[k][rule.window] >= rule.limit

Charge(k, rules) ==
    [rateCount EXCEPT ![k] = [w \in Windows |->
        IF \E rule \in rules : rule.window = w THEN @[w] + 1 ELSE @[w]]]

-----------------------------------------------------------------------------
Idle == [at |-> "idle", key |-> None, model |-> None, policy |-> None,
         failed |-> {}, charged |-> 0, targets |-> 0]

PolicyInit ==
    /\ keyRows = [k \in Keys |-> None]
    /\ hour = 0
    /\ changes = 0
    /\ rateCount = [k \in Keys |-> [w \in Windows |-> 0]]
    /\ requests = [r \in Requests |-> Idle]

Go(r, stage) == requests' = [requests EXCEPT ![r].at = stage]

\* A refused request is over, and what it was is forgotten.
Refused(q) == [Idle EXCEPT !.at = "rejected", !.charged = q.charged]

Reject(r) == requests' = [requests EXCEPT ![r] = Refused(@)]

Passed(q, stage, failed) == [q EXCEPT !.at = stage, !.failed = @ \cup failed]

\* Anything but "ok" ends the request; failed are the services that threw.
Continue(r, verdict, failed, stage) ==
    requests' = [requests EXCEPT
        ![r] = IF verdict = "ok" THEN Passed(@, stage, failed) ELSE Refused(@)]

Threw(verdict, service) == IF verdict = "unavailable" THEN {service} ELSE {}

\* resolvePlaygroundTestKey: a key that a dashboard session names by its id.
PlaygroundKey(named, session, found) == IF session /\ found THEN named ELSE None

\* A request with a bearer key, or with the id of a key, or with neither; without a
\* key nothing is checked.
Arrive(r, bearer, named, session, found, m) ==
    LET k == IF bearer # None THEN bearer ELSE PlaygroundKey(named, session, found)
    IN  /\ requests[r].at = "idle"
        /\ requests' = [requests EXCEPT ![r] =
             [Idle EXCEPT !.at = IF k = None THEN "admitted" ELSE "metadata",
                          !.key = k, !.model = m]]
        /\ UNCHANGED <<keyRows, hour, changes, rateCount>>

\* validateKeyStatus, then the schedule: nothing is awaited in between.
RefusedAtOnce(p) ==
    \/ ~p.isActive \/ p.isBanned
    \/ p.expiresAt # None /\ hour > p.expiresAt
    \/ p.schedule.enabled /\ ~IsWithinSchedule(p.schedule, hour)

\* Fault: a failing key table is taken for an unknown key.
ReadMetadataOpen(r) ==
    LET p == keyRows[requests[r].key]
    IN  /\ requests[r].at = "metadata"
        /\ \/ requests' = [requests EXCEPT ![r].at = "admitted", ![r].failed = @ \cup {"keys"}]
           \/ p = None /\ Go(r, "admitted")
           \/ /\ p # None
              /\ requests' = [requests EXCEPT ![r] =
                    IF RefusedAtOnce(p) THEN Refused(@)
                                        ELSE [@ EXCEPT !.at = "usage", !.policy = p]]
        /\ UNCHANGED <<keyRows, hour, changes, rateCount>>

\* The metadata is read once; a key without a row is left to the authentication.
ReadMetadata(r) ==
    LET p == keyRows[requests[r].key]
    IN  /\ requests[r].at = "metadata"
        /\ \/ Reject(r)
           \/ p = None /\ Go(r, "admitted")
           \/ /\ p # None
              /\ requests' = [requests EXCEPT ![r] =
                    IF RefusedAtOnce(p) THEN Refused(@)
                                        ELSE [@ EXCEPT !.at = "usage", !.policy = p]]
        /\ UNCHANGED <<keyRows, hour, changes, rateCount>>

\* validateEndpointAccess: an address without a category, or that is no address, passes.
EndpointRefused(p, e) == p.allowedEndpoints # {} /\ e # None /\ e \notin p.allowedEndpoints

\* The usage limit, awaited when there is one, and the endpoint right after it; the
\* category of the request's endpoint matters nowhere else.
CheckUsage(r, verdict, e) ==
    LET p == requests[r].policy
    IN  /\ requests[r].at = "usage"
        /\ p.usageLimited \/ verdict = "ok"
        /\ Continue(r, IF verdict = "ok" /\ EndpointRefused(p, e)
                       THEN "refused" ELSE verdict, Threw(verdict, "usage"), "quota")
        /\ UNCHANGED <<keyRows, hour, changes, rateCount>>

CheckQuota(r) ==
    LET p == requests[r].policy
        m == requests[r].model
    IN  /\ requests[r].at = "quota"
        /\ \E a \in Answers(requests[r].key, m) :
              Continue(r, QuotaVerdict(p, m, a),
                  IF m # None /\ p.allowedQuotas # {} /\ ~a.scope THEN {"quota"} ELSE {}, "model")
        /\ UNCHANGED <<keyRows, hour, changes, rateCount>>

\* validateModelAccess, then the budget and the token limits, which are synchronous and
\* asked of keys with an id only.
CheckModel(r, budget) ==
    LET p == requests[r].policy
        m == requests[r].model
    IN  /\ requests[r].at = "model"
        /\ p.hasId \/ budget = "ok"
        /\ \E a \in Answers(requests[r].key, m) :
              LET verdict == ModelVerdict(p, m, a)
                  threw == m # None /\ p.allowedQuotas = {} /\ p.allowedCombos # {} /\ ~a.combos
              IN  IF verdict = "ok"
                  THEN Continue(r, budget,
                           Threw(budget, "budget") \cup (IF threw THEN {"combos"} ELSE {}), "rate")
                  ELSE Continue(r, verdict, IF threw THEN {"combos"} ELSE {}, "rate")
        /\ UNCHANGED <<keyRows, hour, changes, rateCount>>

\* validateRateLimitAndThrottle: the last check, as it is the one that consumes.  A
\* limiter that throws fails the request.
CheckRate(r) ==
    LET k == requests[r].key
        p == requests[r].policy
        rules == IF p.hasId THEN RateRules(p) ELSE {}
    IN  /\ requests[r].at = "rate"
        /\ \/ rules # {} /\ Reject(r) /\ UNCHANGED rateCount
           \/ RateExceeded(k, rules) /\ Reject(r) /\ UNCHANGED rateCount
           \/ /\ ~RateExceeded(k, rules)
              /\ requests' = [requests EXCEPT
                    ![r].at = IF p.throttled /\ p.hasId THEN "throttled" ELSE "admitted",
                    ![r].charged = @ + (IF rules = {} THEN 0 ELSE 1)]
              /\ rateCount' = Charge(k, rules)
        /\ UNCHANGED <<keyRows, hour, changes>>

Throttle(r) ==
    /\ requests[r].at = "throttled"
    /\ Go(r, "admitted")
    /\ UNCHANGED <<keyRows, hour, changes, rateCount>>

\* Fault: routing asks for the whole policy again.
RouteChargingAgain(r, m) ==
    LET q == requests[r]
        rules == IF q.policy = None THEN {} ELSE RateRules(q.policy)
    IN  /\ q.at = "admitted" /\ q.key # None
        /\ q.targets < MaxTargets
        /\ requests' = [requests EXCEPT ![r].targets = @ + 1,
                                     ![r].charged = @ + (IF rules = {} THEN 0 ELSE 1)]
        /\ rateCount' = Charge(q.key, rules)
        /\ UNCHANGED <<keyRows, hour, changes>>

\* The router proposes a target, a fallback or what a combo resolves to, and uses it
\* when it is let through; targets counts them.
Route(r, m) ==
    LET q == requests[r]
    IN  /\ q.at = "admitted" /\ q.policy # None
        /\ q.targets < MaxTargets
        /\ \E a \in Answers(q.key, m) : RoutingVerdict(q.policy, m, a) = "ok"
        /\ requests' = [requests EXCEPT ![r].targets = @ + 1]
        /\ UNCHANGED <<keyRows, hour, changes, rateCount>>

\* The dashboard stores, replaces or deletes a key.
ChangeKey(k, p) ==
    /\ changes < MaxChanges /\ p # keyRows[k]
    /\ keyRows' = [keyRows EXCEPT ![k] = p]
    /\ changes' = changes + 1
    /\ UNCHANGED <<hour, rateCount, requests>>

\* An hour passes: the limiter's minutes are over, its days at the end of the day.
HourPasses ==
    /\ hour < MaxTime
    /\ hour' = hour + 1
    /\ rateCount' = [k \in Keys |-> [w \in Windows |->
          IF w = "minute" \/ (w = "day" /\ hour' % HourCount = 0) THEN 0 ELSE rateCount[k][w]]]
    /\ UNCHANGED <<keyRows, changes, requests>>

PolicyNext ==
    \/ \E r \in Requests :
         \/ \E bearer, named \in Keys \cup {None}, session, found \in BOOLEAN,
               m \in Models \cup {None} :
                  Arrive(r, bearer, named, session, found, m)
         \/ ReadMetadata(r)
         \/ \E verdict \in {"ok", "refused", "unavailable"}, e \in Endpoints \cup {None} :
                  CheckUsage(r, verdict, e)
         \/ CheckQuota(r)
         \/ \E budget \in {"ok", "refused", "unavailable"} : CheckModel(r, budget)
         \/ CheckRate(r)
         \/ Throttle(r)
         \/ \E m \in Models : Route(r, m)
    \/ \E k \in Keys, p \in Policies \cup {None} : ChangeKey(k, p)
    \/ HourPasses

PolicySpec == PolicyInit /\ [][PolicyNext]_policyVars

-----------------------------------------------------------------------------
(* Properties                                                              *)

\* Whatever target the routing check lets through for a request, the full policy would
\* have let through for the same metadata and the same answers: the second copy of the
\* rules, which is written differently, is nowhere wider than the first.
RoutingNeverWidens ==
    \A r \in Requests, m \in Models :
        LET p == requests[r].policy
        IN  p # None => \A a \in Answers(requests[r].key, m) :
                RoutingVerdict(p, m, a) = "ok" =>
                    QuotaVerdict(p, m, a) = "ok" /\ ModelVerdict(p, m, a) = "ok"

\* A request is charged once, when it has passed every check, however many targets are
\* tried for it; what is refused consumes nothing.
ChargedOnce ==
    \A r \in Requests :
        LET q == requests[r]
        IN  q.charged = IF /\ q.at \in {"throttled", "admitted"}
                           /\ q.policy # None /\ q.policy.hasId /\ RateRules(q.policy) # {}
                        THEN 1 ELSE 0

\* A service that fails stops the request: nothing is admitted over the failure of a
\* check, whichever check it was and whatever the others said.
FailClosed ==
    \A r \in Requests : requests[r].at \in {"throttled", "admitted"} => requests[r].failed = {}

\* A schedule from one hour until another covers the hours one counts from the first
\* up to the other, midnight or not, on the days it names.
ScheduleIsInterval ==
    \A from, until \in 0 .. HourCount - 1, days \in SUBSET (0 .. MaxTime \div HourCount) :
        LET s == [enabled |-> TRUE, tzKnown |-> TRUE, from |-> from, until |-> until, days |-> days]
            length == (until - from) % HourCount
        IN  IsWithinSchedule(s, hour) <=>
              /\ (hour \div HourCount) \in days
              /\ (hour % HourCount) \in {(from + i) % HourCount : i \in 0 .. length - 1}
=============================================================================
