--------------------------- MODULE GatewayProofs ----------------------------
(* Proofs about the way of a turn to a model: the policy of API keys, for   *)
(* every set of keys, policies and models, every length of the day and any  *)
(* number of overlapping requests; the requests of gateways to each other,  *)
(* for every federation; and the context of a turn, for any episodes, texts *)
(* and budget.                                                              *)
EXTENDS ApiKeyPolicy, PeerRouting, Context, Recursion, TLAPS

-----------------------------------------------------------------------------
(* Routing                                                                 *)

\* The narrower check implies both checks of the policy, for one model and whatever the
\* services answer.
LEMMA NarrowerForOne ==
    ASSUME NEW p, NEW m, m # None,
           NEW a \in [scope : BOOLEAN, combos : BOOLEAN, names : BOOLEAN, listed : BOOLEAN],
           RoutingVerdict(p, m, a) = "ok"
    PROVE  QuotaVerdict(p, m, a) = "ok" /\ ModelVerdict(p, m, a) = "ok"
<1>1. CASE p.allowedQuotas # {}
  BY <1>1 DEF RoutingVerdict, QuotaVerdict, ModelVerdict
<1>2. CASE p.allowedQuotas = {}
  <2>1. m.kind # "quota"
    BY <1>2 DEF RoutingVerdict
  <2>2. QuotaVerdict(p, m, a) = "ok"
    BY <1>2, <2>1 DEF QuotaVerdict
  <2>3. ComboVerdict(p.allowedCombos, m, a) = "ok"
    BY <1>2, <2>1 DEF RoutingVerdict
  <2>4. ModelVerdict(p, m, a) = "ok"
    BY <1>2, <2>1, <2>3 DEF RoutingVerdict, ModelVerdict
  <2>5. QED BY <2>2, <2>4
<1>3. QED BY <1>1, <1>2

\* No target the routing check lets through would have been refused by the policy, for
\* the metadata a request carries and whatever the services answer.
THEOREM RoutingIsNarrower == PolicySpec => []RoutingNeverWidens
<1>1. RoutingNeverWidens
  <2>1. SUFFICES ASSUME NEW r \in Requests, NEW m \in Models,
                        NEW a \in Answers(requests[r].key, m),
                        RoutingVerdict(requests[r].policy, m, a) = "ok"
                 PROVE  /\ QuotaVerdict(requests[r].policy, m, a) = "ok"
                        /\ ModelVerdict(requests[r].policy, m, a) = "ok"
    BY DEF RoutingNeverWidens
  <2>2. m # None
    BY PolicyAssumption
  <2>3. a \in [scope : BOOLEAN, combos : BOOLEAN, names : BOOLEAN, listed : BOOLEAN]
    BY DEF Answers
  <2>4. QED BY <2>1, <2>2, <2>3, NarrowerForOne
<1>2. QED BY <1>1, PTL

-----------------------------------------------------------------------------
(* The sequence of checks                                                  *)

Checking == {"usage", "quota", "model", "rate"}
Stages == {"idle", "metadata", "rejected", "throttled", "admitted"} \cup Checking

\* What a request costs the key of this policy.
Price(p) == IF p # None /\ p.hasId /\ RateRules(p) # {} THEN 1 ELSE 0

RequestRecords ==
    [at : Stages, key : Keys \cup {None}, model : Models \cup {None},
     policy : Policies \cup {None}, failed : {{}}, charged : {0, 1}, targets : Nat]

\* A request before its metadata is read, between two checks, let through, or refused.
RequestOK(q) ==
    /\ q \in RequestRecords
    /\ q.at \in {"idle", "metadata"} => q.policy = None
    /\ q.at = "metadata" => q.key \in Keys
    /\ q.at \in Checking => q.policy # None
    /\ q.charged = IF q.at \in {"throttled", "admitted"} THEN Price(q.policy) ELSE 0

PolicyInv ==
    /\ keyRows \in [Keys -> Policies \cup {None}]
    /\ requests \in [Requests -> RequestRecords]
    /\ \A r \in Requests : RequestOK(requests[r])

\* What one request becomes is all that a step has to be asked about.
LEMMA OneRequest ==
    ASSUME PolicyInv, NEW r \in Requests, NEW q, RequestOK(q),
           requests' = [requests EXCEPT ![r] = q], keyRows' = keyRows
    PROVE  PolicyInv'
<1>1. q \in RequestRecords
  BY DEF RequestOK
<1>2. requests' \in [Requests -> RequestRecords]
  BY <1>1 DEF PolicyInv
<1>3. \A s \in Requests : requests'[s] = IF s = r THEN q ELSE requests[s]
  BY DEF PolicyInv
<1>4. \A s \in Requests : RequestOK(requests'[s])
  BY <1>3 DEF PolicyInv
<1>5. keyRows' \in [Keys -> Policies \cup {None}]
  BY DEF PolicyInv
<1>6. QED BY <1>2, <1>4, <1>5 DEF PolicyInv, RequestOK, RequestRecords, Stages, Checking, Price, RateRules, EnvRules

\* A refused request costs nothing, as it was not charged before.
LEMMA RefusedOK ==
    ASSUME NEW q, RequestOK(q), q.charged = 0
    PROVE  RequestOK(Refused(q))
BY DEF RequestOK, RequestRecords, Refused, Idle, Checking, Stages

\* A check that was passed leads to the next one, with nothing that failed.
LEMMA ContinueKeeps ==
    ASSUME PolicyInv, NEW r \in Requests, requests[r].at \in Checking, keyRows' = keyRows,
           NEW verdict, NEW failed, verdict = "ok" => failed = {},
           NEW stage \in Checking, Continue(r, verdict, failed, stage)
    PROVE  PolicyInv'
<1>1. RequestOK(requests[r])
  BY DEF PolicyInv
<1>2. requests[r].charged = 0
  BY <1>1 DEF RequestOK, Checking
<1>3. RequestOK(Refused(requests[r]))
  BY <1>1, <1>2, RefusedOK
<1>4. CASE verdict = "ok"
  <2>1. Passed(requests[r], stage, failed) = [requests[r] EXCEPT !.at = stage]
    BY <1>1, <1>4 DEF RequestOK, RequestRecords, Passed
  <2>2. RequestOK(Passed(requests[r], stage, failed))
    BY <1>1, <1>2, <2>1 DEF RequestOK, RequestRecords, Checking, Stages
  <2>3. requests' = [requests EXCEPT ![r] = Passed(requests[r], stage, failed)]
    BY <1>4 DEF Continue
  <2>4. QED BY <2>2, <2>3, OneRequest
<1>5. CASE verdict # "ok"
  <2>1. requests' = [requests EXCEPT ![r] = Refused(requests[r])]
    BY <1>5 DEF Continue
  <2>2. QED BY <1>3, <2>1, OneRequest
<1>6. QED BY <1>4, <1>5

\* What each of the awaited checks can make of the services that failed.
LEMMA ThrewNothing ==
    ASSUME NEW verdict, NEW service, verdict = "ok"
    PROVE  Threw(verdict, service) = {}
BY DEF Threw

\* No request is there at the start.
LEMMA InitOK == PolicyInit => PolicyInv
<1>1. RequestOK(Idle)
  BY DEF RequestOK, RequestRecords, Idle, Stages, Checking
<1>2. Idle \in RequestRecords
  BY <1>1 DEF RequestOK
<1>3. QED BY <1>1, <1>2 DEF PolicyInit, PolicyInv

\* A new request has no policy yet, and is admitted without a key alone.
LEMMA ArriveKeeps ==
    ASSUME PolicyInv, NEW r \in Requests, NEW bearer \in Keys \cup {None},
           NEW named \in Keys \cup {None}, NEW session, NEW found,
           NEW m \in Models \cup {None}, Arrive(r, bearer, named, session, found, m)
    PROVE  PolicyInv'
<1> DEFINE k == IF bearer # None THEN bearer ELSE PlaygroundKey(named, session, found)
           q == [Idle EXCEPT !.at = IF k = None THEN "admitted" ELSE "metadata",
                             !.key = k, !.model = m]
<1>1. k \in Keys \cup {None}
  BY DEF PlaygroundKey
<1>2. RequestOK(q)
  BY <1>1 DEF RequestOK, RequestRecords, Idle, Stages, Checking, Price
<1>3. requests' = [requests EXCEPT ![r] = q] /\ keyRows' = keyRows
  BY DEF Arrive
<1>4. QED BY <1>2, <1>3, OneRequest

\* The metadata read is a policy of the table, or the request goes on without one.
LEMMA ReadMetadataKeeps ==
    ASSUME PolicyInv, NEW r \in Requests, ReadMetadata(r)
    PROVE  PolicyInv'
<1> DEFINE q == requests[r]
           p == keyRows[q.key]
<1>1. /\ RequestOK(q) /\ q.at = "metadata" /\ q.charged = 0 /\ q.policy = None
      /\ keyRows' = keyRows
  BY DEF PolicyInv, RequestOK, ReadMetadata
<1>2. RequestOK(Refused(q))
  BY <1>1, RefusedOK
<1>3. CASE requests' = [requests EXCEPT ![r] = Refused(q)]
  BY <1>1, <1>2, <1>3, OneRequest
<1>4. CASE Go(r, "admitted")
  <2>1. RequestOK([q EXCEPT !.at = "admitted"])
    BY <1>1 DEF RequestOK, RequestRecords, Stages, Checking, Price
  <2>2. requests' = [requests EXCEPT ![r] = [q EXCEPT !.at = "admitted"]]
    BY <1>4 DEF Go
  <2>3. QED BY <1>1, <2>1, <2>2, OneRequest
<1>5. CASE p # None /\ requests' = [requests EXCEPT ![r] = [q EXCEPT !.at = "usage", !.policy = p]]
  <2>1. p \in Policies
    BY <1>1, <1>5 DEF RequestOK, PolicyInv
  <2>2. RequestOK([q EXCEPT !.at = "usage", !.policy = p])
    BY <1>1, <1>5, <2>1 DEF RequestOK, RequestRecords, Stages, Checking
  <2>3. QED BY <1>1, <1>5, <2>2, OneRequest
<1>6. \/ Reject(r)
      \/ Go(r, "admitted")
      \/ /\ p # None
         /\ requests' = [requests EXCEPT ![r] =
               IF RefusedAtOnce(p) THEN Refused(@) ELSE [@ EXCEPT !.at = "usage", !.policy = p]]
  BY DEF ReadMetadata
<1>7. QED BY <1>3, <1>4, <1>5, <1>6 DEF Reject

\* A usage service that throws refuses the request.
LEMMA CheckUsageKeeps ==
    ASSUME PolicyInv, NEW r \in Requests, NEW verdict, NEW e, CheckUsage(r, verdict, e)
    PROVE  PolicyInv'
<1> DEFINE v == IF verdict = "ok" /\ EndpointRefused(requests[r].policy, e) THEN "refused" ELSE verdict
<1>1. Continue(r, v, Threw(verdict, "usage"), "quota") /\ keyRows' = keyRows
  BY DEF CheckUsage
<1>2. v = "ok" => Threw(verdict, "usage") = {}
  BY DEF Threw
<1>3. requests[r].at \in Checking /\ "quota" \in Checking
  BY DEF CheckUsage, Checking
<1> HIDE DEF v
<1>4. QED BY <1>1, <1>2, <1>3, ContinueKeeps

\* A quota store that throws is a verdict other than "ok".
LEMMA CheckQuotaKeeps ==
    ASSUME PolicyInv, NEW r \in Requests, CheckQuota(r)
    PROVE  PolicyInv'
<1> DEFINE p == requests[r].policy
           m == requests[r].model
           failed(a) == IF m # None /\ p.allowedQuotas # {} /\ ~a.scope THEN {"quota"} ELSE {}
<1>1. PICK a \in Answers(requests[r].key, m) :
          Continue(r, QuotaVerdict(p, m, a), failed(a), "model")
  BY DEF CheckQuota
<1>2. QuotaVerdict(p, m, a) = "ok" => failed(a) = {}
  BY DEF QuotaVerdict
<1>3. requests[r].at \in Checking /\ "model" \in Checking /\ keyRows' = keyRows
  BY DEF CheckQuota, Checking
<1> HIDE DEF failed
<1>4. QED BY <1>1, <1>2, <1>3, ContinueKeeps

\* A combo table that throws is a verdict other than "ok"; so is a budget.
LEMMA CheckModelKeeps ==
    ASSUME PolicyInv, NEW r \in Requests, NEW budget, CheckModel(r, budget)
    PROVE  PolicyInv'
<1> DEFINE p == requests[r].policy
           m == requests[r].model
           threw(a) == m # None /\ p.allowedQuotas = {} /\ p.allowedCombos # {} /\ ~a.combos
           combos(a) == IF threw(a) THEN {"combos"} ELSE {}
           verdict(a) == ModelVerdict(p, m, a)
<1>1. PICK a \in Answers(requests[r].key, m) :
          IF verdict(a) = "ok" THEN Continue(r, budget, Threw(budget, "budget") \cup combos(a), "rate")
          ELSE Continue(r, verdict(a), combos(a), "rate")
  BY DEF CheckModel
<1>2. verdict(a) = "ok" => combos(a) = {}
  BY DEF ModelVerdict, ComboVerdict
<1>3. requests[r].at \in Checking /\ "rate" \in Checking /\ keyRows' = keyRows
  BY DEF CheckModel, Checking
<1>4. budget = "ok" => Threw(budget, "budget") = {}
  BY DEF Threw
<1> HIDE DEF combos, verdict
<1>5. CASE verdict(a) = "ok"
  <2>1. budget = "ok" => Threw(budget, "budget") \cup combos(a) = {}
    BY <1>2, <1>4, <1>5
  <2>2. QED BY <1>1, <1>3, <1>5, <2>1, ContinueKeeps
<1>6. CASE verdict(a) # "ok"
  BY <1>1, <1>3, <1>6, ContinueKeeps
<1>7. QED BY <1>5, <1>6

\* The one step that charges: it charges what the policy costs.
LEMMA CheckRateKeeps ==
    ASSUME PolicyInv, NEW r \in Requests, CheckRate(r)
    PROVE  PolicyInv'
<1> DEFINE q == requests[r]
           p == q.policy
           rules == IF p.hasId THEN RateRules(p) ELSE {}
           price == IF rules = {} THEN 0 ELSE 1
           stage == IF p.throttled /\ p.hasId THEN "throttled" ELSE "admitted"
           next == [q EXCEPT !.at = stage, !.charged = q.charged + price]
<1>1. /\ RequestOK(q) /\ q.at = "rate" /\ p # None /\ q.charged = 0 /\ keyRows' = keyRows
  BY DEF PolicyInv, RequestOK, CheckRate, Checking
<1>2. CASE Reject(r)
  <2>1. requests' = [requests EXCEPT ![r] = Refused(q)]
    BY <1>2 DEF Reject
  <2>2. QED BY <1>1, <2>1, RefusedOK, OneRequest
<1>3. CASE requests' = [requests EXCEPT ![r] = next]
  <2>1. price = Price(p)
    BY <1>1 DEF Price
  <2>2. price \in {0, 1}
    OBVIOUS
  <2>3. stage \in {"throttled", "admitted"}
    OBVIOUS
  <2>4. q \in RequestRecords
    BY <1>1 DEF RequestOK
  <2> HIDE DEF price, stage
  <2>5. q.charged + price = price
    BY <1>1, <2>2
  <2>6. next = [q EXCEPT !.at = stage, !.charged = price]
    BY <2>5
  <2> HIDE DEF q, p
  <2>7. next \in RequestRecords /\ next.at = stage /\ next.charged = price
        /\ next.policy = q.policy /\ next.failed = q.failed
    BY <2>2, <2>3, <2>4, <2>6 DEF RequestRecords, Stages
  <2> HIDE DEF next
  <2>8. q.failed = {}
    BY <2>4 DEF RequestRecords
  <2>9. RequestOK(next)
    BY <1>1, <2>1, <2>3, <2>7, <2>8 DEF RequestOK, Checking, p
  <2>10. QED BY <1>1, <1>3, <2>9, OneRequest DEF q
<1>4. Reject(r) \/ requests' = [requests EXCEPT ![r] = next]
  BY DEF CheckRate
<1>5. QED BY <1>2, <1>3, <1>4

\* The delay of a throttled request changes its stage only.
LEMMA ThrottleKeeps ==
    ASSUME PolicyInv, NEW r \in Requests, Throttle(r)
    PROVE  PolicyInv'
<1>1. /\ RequestOK(requests[r]) /\ requests[r].at = "throttled" /\ keyRows' = keyRows
      /\ requests' = [requests EXCEPT ![r] = [requests[r] EXCEPT !.at = "admitted"]]
  BY DEF PolicyInv, Throttle, Go
<1>2. RequestOK([requests[r] EXCEPT !.at = "admitted"])
  BY <1>1 DEF RequestOK, RequestRecords, Stages, Checking
<1>3. QED BY <1>1, <1>2, OneRequest

\* Trying a target counts the target and charges nothing.
LEMMA RouteKeeps ==
    ASSUME PolicyInv, NEW r \in Requests, NEW m, Route(r, m)
    PROVE  PolicyInv'
<1>1. /\ RequestOK(requests[r]) /\ requests[r].at = "admitted" /\ keyRows' = keyRows
      /\ requests' = [requests EXCEPT ![r] = [requests[r] EXCEPT !.targets = requests[r].targets + 1]]
  BY DEF PolicyInv, Route
<1>2. RequestOK([requests[r] EXCEPT !.targets = requests[r].targets + 1])
  BY <1>1 DEF RequestOK, RequestRecords, Stages, Checking
<1>3. QED BY <1>1, <1>2, OneRequest

\* A change of the table leaves the policies that requests carry.
LEMMA SameRequests ==
    ASSUME PolicyInv, requests' = requests, keyRows' \in [Keys -> Policies \cup {None}]
    PROVE  PolicyInv'
<1>1. \A r \in Requests : RequestOK(requests[r])'
  BY DEF PolicyInv, RequestOK, RequestRecords, Stages, Checking, Price, RateRules, EnvRules
<1>2. QED BY <1>1 DEF PolicyInv, RequestRecords, Stages, Checking

\* Every step preserves the invariant.
LEMMA NextKeeps == PolicyInv /\ [PolicyNext]_policyVars => PolicyInv'
<1> SUFFICES ASSUME PolicyInv, [PolicyNext]_policyVars PROVE PolicyInv'
  OBVIOUS
<1>1. ASSUME NEW r \in Requests, NEW bearer \in Keys \cup {None}, NEW named \in Keys \cup {None},
             NEW session \in BOOLEAN, NEW found \in BOOLEAN, NEW m \in Models \cup {None},
             Arrive(r, bearer, named, session, found, m)
      PROVE  PolicyInv'
  BY <1>1, ArriveKeeps
<1>2. ASSUME NEW r \in Requests, ReadMetadata(r) \/ CheckQuota(r) \/ CheckRate(r) \/ Throttle(r)
      PROVE  PolicyInv'
  BY <1>2, ReadMetadataKeeps, CheckQuotaKeeps, CheckRateKeeps, ThrottleKeeps
<1>3. ASSUME NEW r \in Requests, NEW verdict, NEW e, CheckUsage(r, verdict, e)
      PROVE  PolicyInv'
  BY <1>3, CheckUsageKeeps
<1>4. ASSUME NEW r \in Requests, NEW budget, CheckModel(r, budget)
      PROVE  PolicyInv'
  BY <1>4, CheckModelKeeps
<1>5. ASSUME NEW r \in Requests, NEW m, Route(r, m)
      PROVE  PolicyInv'
  BY <1>5, RouteKeeps
<1>6. ASSUME NEW k \in Keys, NEW p \in Policies \cup {None}, ChangeKey(k, p)
      PROVE  PolicyInv'
  <2>1. requests' = requests /\ keyRows' \in [Keys -> Policies \cup {None}]
    BY <1>6 DEF ChangeKey, PolicyInv
  <2>2. QED BY <2>1, SameRequests
<1>7. CASE HourPasses \/ UNCHANGED policyVars
  <2>1. requests' = requests /\ keyRows' \in [Keys -> Policies \cup {None}]
    BY <1>7 DEF HourPasses, PolicyInv, policyVars
  <2>2. QED BY <2>1, SameRequests
<1>8. QED BY <1>1, <1>2, <1>3, <1>4, <1>5, <1>6, <1>7 DEF PolicyNext

\* A request is charged exactly when it has passed every check, however many requests
\* overlap, whatever the dashboard does to the key, and however many targets are tried.
THEOREM RequestsAreChargedOnce == PolicySpec => []ChargedOnce
<1>1. PolicyInv => ChargedOnce
  BY DEF PolicyInv, RequestOK, ChargedOnce, Price
<1>2. QED BY <1>1, InitOK, NextKeeps, PTL DEF PolicySpec

\* No request is admitted over a check that failed.
THEOREM ChecksFailClosed == PolicySpec => []FailClosed
<1>1. PolicyInv => FailClosed
  BY DEF PolicyInv, RequestOK, RequestRecords, FailClosed
<1>2. QED BY <1>1, InitOK, NextKeeps, PTL DEF PolicySpec

-----------------------------------------------------------------------------
(* Schedules                                                               *)

\* The remainders the schedules need: of an hour of the day, of an hour past midnight,
\* and of a difference of two hours.
LEMMA HoursOfDay ==
    ASSUME NEW x \in Int
    PROVE  /\ x % HourCount \in 0 .. HourCount - 1
           /\ x \in 0 .. HourCount - 1 => x % HourCount = x
           /\ x \in HourCount .. 2 * HourCount - 1 => x % HourCount = x - HourCount
           /\ x \in 1 - HourCount .. -1 => x % HourCount = x + HourCount
BY PolicyAssumption

\* A sum of two hours passes midnight once at most.
LEMMA PastMidnight ==
    ASSUME NEW x \in 0 .. 2 * HourCount - 1
    PROVE  x % HourCount = IF x < HourCount THEN x ELSE x - HourCount
<1>1. HourCount \in Nat \ {0} /\ x \in Int
  BY PolicyAssumption
<1>2. CASE x < HourCount
  <2>1. x \in 0 .. HourCount - 1
    BY <1>1, <1>2
  <2>2. QED BY <1>1, <1>2, <2>1, HoursOfDay
<1>3. CASE ~(x < HourCount)
  <2>1. x \in HourCount .. 2 * HourCount - 1
    BY <1>1, <1>3
  <2>2. QED BY <1>1, <1>3, <2>1, HoursOfDay
<1>4. QED BY <1>2, <1>3

\* An hour lies between two others exactly when counting on from the first one meets it
\* before the second.
LEMMA WindowIsCounted ==
    ASSUME NEW from \in 0 .. HourCount - 1, NEW until \in 0 .. HourCount - 1,
           NEW local \in 0 .. HourCount - 1
    PROVE  (IF until < from THEN local >= from \/ local < until ELSE local >= from /\ local < until)
           <=> \E i \in 0 .. ((until - from) % HourCount) - 1 : (from + i) % HourCount = local
<1> DEFINE H == HourCount
           length == (until - from) % H
<1>1. H \in Nat \ {0}
  BY PolicyAssumption
<1>2. length = IF until < from THEN until - from + H ELSE until - from
  <2>1. /\ until - from \in Int
        /\ until < from => until - from \in 1 - H .. -1
        /\ ~(until < from) => until - from \in 0 .. H - 1
    BY <1>1
  <2> DEFINE x == until - from
  <2> HIDE DEF x
  <2>2. /\ x \in 0 .. H - 1 => x % H = x
        /\ x \in 1 - H .. -1 => x % H = x + H
    BY <2>1, HoursOfDay DEF x
  <2>3. QED BY <2>1, <2>2 DEF x
<1>3. length \in 0 .. H - 1
  BY <1>1, <1>2
<1>4. ASSUME NEW i \in 0 .. length - 1
      PROVE  (from + i) % H = IF from + i < H THEN from + i ELSE from + i - H
  <2>1. from + i \in 0 .. 2 * H - 1
    BY <1>1, <1>3
  <2>2. i \in Int
    BY <1>3
  <2> DEFINE x == from + i
  <2> HIDE DEF length, x
  <2>3. x % H = IF x < H THEN x ELSE x - H
    BY <2>1, PastMidnight DEF x
  <2>4. QED BY <1>1, <2>2, <2>3 DEF x
<1> DEFINE hit == IF local >= from THEN local - from ELSE local - from + H
<1>5. hit \in 0 .. H - 1 /\ local = IF from + hit < H THEN from + hit ELSE from + hit - H
  BY <1>1
<1>6. (IF until < from THEN local >= from \/ local < until ELSE local >= from /\ local < until)
      <=> hit < length
  BY <1>1, <1>2
<1>7. ASSUME hit < length
      PROVE  \E i \in 0 .. length - 1 : (from + i) % H = local
  <2>1. hit \in 0 .. length - 1
    BY <1>1, <1>3, <1>5, <1>7
  <2>2. (from + hit) % H = local
    BY <1>4, <1>5, <2>1
  <2>3. QED BY <2>1, <2>2
<1>8. ASSUME NEW i \in 0 .. length - 1, (from + i) % H = local
      PROVE  hit < length
  <2>1. local = IF from + i < H THEN from + i ELSE from + i - H
    BY <1>4, <1>8
  <2>2. hit = i
    BY <1>1, <1>3, <2>1
  <2>3. QED BY <1>3, <2>2
<1>9. QED BY <1>6, <1>7, <1>8

\* For every length of the day and every pair of hours, a schedule covers the hours one
\* counts from its first up to its last, over midnight or not.
THEOREM SchedulesAreIntervals == PolicySpec => []ScheduleIsInterval
<1> DEFINE HourInv == hour \in Nat
<1>1. PolicyInit => HourInv
  BY DEF PolicyInit
<1>2. HourInv /\ [PolicyNext]_policyVars => HourInv'
  <2> SUFFICES ASSUME HourInv, [PolicyNext]_policyVars PROVE HourInv'
    OBVIOUS
  <2>1. ASSUME NEW r \in Requests, NEW verdict, NEW e, NEW budget, NEW m,
               \/ ReadMetadata(r) \/ CheckUsage(r, verdict, e) \/ CheckQuota(r)
               \/ CheckModel(r, budget) \/ CheckRate(r) \/ Throttle(r) \/ Route(r, m)
        PROVE  hour' = hour
    BY <2>1 DEF ReadMetadata, CheckUsage, CheckQuota, CheckModel, CheckRate, Throttle, Route
  <2>2. ASSUME NEW r, NEW bearer, NEW named, NEW session, NEW found, NEW m,
               Arrive(r, bearer, named, session, found, m)
        PROVE  hour' = hour
    BY <2>2 DEF Arrive
  <2>3. ASSUME NEW k, NEW p, ChangeKey(k, p)
        PROVE  hour' = hour
    BY <2>3 DEF ChangeKey
  <2>4. CASE HourPasses
    BY <2>4 DEF HourPasses
  <2>5. CASE UNCHANGED policyVars
    BY <2>5 DEF policyVars
  <2> HIDE DEF HourInv
  <2>6. hour' = hour => HourInv'
    BY DEF HourInv
  <2>7. QED BY <2>1, <2>2, <2>3, <2>4, <2>5, <2>6 DEF PolicyNext
<1>3. HourInv => ScheduleIsInterval
  <2>1. SUFFICES ASSUME hour \in Nat,
                        NEW from \in 0 .. HourCount - 1, NEW until \in 0 .. HourCount - 1,
                        NEW days
                 PROVE  LET s == [enabled |-> TRUE, tzKnown |-> TRUE,
                                  from |-> from, until |-> until, days |-> days]
                            length == (until - from) % HourCount
                        IN  IsWithinSchedule(s, hour) <=>
                              /\ (hour \div HourCount) \in days
                              /\ (hour % HourCount) \in {(from + i) % HourCount : i \in 0 .. length - 1}
    BY DEF ScheduleIsInterval
  <2>2. hour % HourCount \in 0 .. HourCount - 1
    BY <2>1, HoursOfDay
  <2> DEFINE local == hour % HourCount
             day == hour \div HourCount
             s == [enabled |-> TRUE, tzKnown |-> TRUE, from |-> from, until |-> until, days |-> days]
  <2>3. IsWithinSchedule(s, hour) <=>
          /\ day \in days
          /\ IF until < from THEN local >= from \/ local < until ELSE local >= from /\ local < until
    BY DEF IsWithinSchedule
  <2> HIDE DEF local, day, s
  <2>4. local \in 0 .. HourCount - 1
    BY <2>2 DEF local
  <2>5. (IF until < from THEN local >= from \/ local < until ELSE local >= from /\ local < until)
        <=> \E i \in 0 .. ((until - from) % HourCount) - 1 : (from + i) % HourCount = local
    BY <2>1, <2>4, WindowIsCounted
  <2>6. IsWithinSchedule(s, hour) <=>
          /\ day \in days
          /\ local \in {(from + i) % HourCount : i \in 0 .. ((until - from) % HourCount) - 1}
    BY <2>3, <2>5
  <2>7. QED BY <2>6 DEF local, day, s
<1> HIDE DEF HourInv
<1>4. QED BY <1>1, <1>2, <1>3, PTL DEF PolicySpec

-----------------------------------------------------------------------------
(* Peer routing: what a trace says of the branch it came along.            *)

PeerHeaders == Seq(Ids \cup {NoId})

PeerTyped ==
    /\ federation \in Federations
    /\ stack \in Seq([at : Gateways, trace : PeerHeaders, marked : BOOLEAN, left : SUBSET Gateways])
    /\ inFlight \in [to : Gateways \cup {NoId}, trace : PeerHeaders, marked : BOOLEAN]

\* A trace that a gateway wrote is read as it is.
Written(trace) == trace \in Seq(Ids) /\ Len(trace) <= HeaderCap

\* It has the id of a gateway that the request was at, n hops or more before.
Carries(g, trace, n) ==
    /\ federation.id[g] \in Ids /\ federation.id[g] \in ToSet(trace)
    /\ Len(trace) >= n

\* A gateway at work did not refuse, and its trace tells the way it was passed on.
TracedTo(j) ==
    /\ ~Refuses(stack[j].at, stack[j].trace)
    /\ stack[j].marked => Written(stack[j].trace)
    /\ \A i \in 1 .. j - 1 : Traced(i, j) => Carries(stack[i].at, stack[j].trace, j - i)

\* So does that of the request on its way.
TracedOn ==
    inFlight.marked =>
        /\ Written(inFlight.trace)
        /\ \A i \in DOMAIN stack : Traced(i, Len(stack)) =>
               Carries(stack[i].at, inFlight.trace, Len(stack) + 1 - i)

PeerInv ==
    /\ PeerTyped /\ HeaderHolds
    /\ \A j \in DOMAIN stack : TracedTo(j)
    /\ TracedOn

\* Every way to read a header gives ids only, and a written one is read as it is.
LEMMA ParseIs ==
    /\ \A header \in PeerHeaders : ParseTrace(header) \in Seq(Ids)
    /\ \A trace : Written(trace) => ParseTrace(trace) = trace
<1>1. ASSUME NEW header \in PeerHeaders PROVE ParseTrace(header) \in Seq(Ids)
  <2> DEFINE All == Ids \cup {NoId}
  <2>1. All \cap Ids = Ids /\ header \in Seq(All) BY DEF PeerHeaders
  <2> HIDE DEF All
  <2>2. Kept(header, Ids) \in Seq(All \cap Ids) BY <2>1, KeptType
  <2>3. <<>> \in Seq(Ids) OBVIOUS
  <2>4. QED BY <2>1, <2>2, <2>3, Zenon DEF ParseTrace
<1>2. ASSUME NEW trace, Written(trace) PROVE ParseTrace(trace) = trace
  <2>1. trace \in Seq(Ids) /\ Len(trace) <= HeaderCap BY <1>2 DEF Written
  <2>2. Kept(trace, Ids) = trace BY <2>1, KeptAll
  <2>3. HeaderCap \in Nat /\ Len(trace) \in Nat BY <2>1, PeerAssumption
  <2>4. QED BY <2>1, <2>2, <2>3 DEF ParseTrace
<1>3. QED BY <1>1, <1>2

\* The environment of every gateway is of its type, and the trace has room for its hops.
LEMMA FederationIs ==
    ASSUME PeerTyped
    PROVE  /\ \A g \in Gateways : /\ federation.id[g] \in Ids \cup {NoId}
                                  /\ federation.upstreams[g] \in SUBSET Gateways
                                  /\ MaxPeerHops(g) \in Nat
           /\ NoId \notin Ids /\ NoId \notin Gateways
           /\ Nowhere \in [to : Gateways \cup {NoId}, trace : PeerHeaders, marked : BOOLEAN]
<1>1. /\ federation.id \in [Gateways -> Ids \cup {NoId}]
      /\ federation.upstreams \in [Gateways -> SUBSET Gateways]
      /\ federation.hops \in [Gateways -> Int]
  BY PeerAssumption DEF PeerTyped
<1>2. \A g \in Gateways : MaxPeerHops(g) \in Nat BY <1>1 DEF MaxPeerHops
<1>3. <<>> \in PeerHeaders BY DEF PeerHeaders
<1>4. Nowhere \in [to : Gateways \cup {NoId}, trace : PeerHeaders, marked : BOOLEAN]
  BY <1>3 DEF Nowhere
<1>5. QED BY <1>1, <1>2, <1>4, PeerAssumption

\* A gateway that did not refuse a request writes a trace with its own id.
LEMMA TraceGrows ==
    ASSUME PeerTyped, HeaderHolds, NEW g \in Gateways, NEW u, NEW header \in PeerHeaders,
           ~Refuses(g, header), Marks(g, u)
    PROVE  /\ federation.id[g] \in Ids
           /\ ParseTrace(header) \in Seq(Ids)
           /\ TraceFor(g, u, header) = Append(ParseTrace(header), federation.id[g])
           /\ Written(TraceFor(g, u, header))
<1> DEFINE trace == ParseTrace(header)
           id == federation.id[g]
<1>1. id \in Ids /\ id # NoId BY FederationIs DEF Marks
<1>2. trace \in Seq(Ids) BY ParseIs
<1>3. id \notin ToSet(trace) /\ ~(Len(trace) >= MaxPeerHops(g)) BY <1>1 DEF Refuses
<1>4. TraceFor(g, u, header) = Append(trace, id) BY <1>3 DEF TraceFor
<1>5. MaxPeerHops(g) \in Nat /\ MaxPeerHops(g) <= HeaderCap BY <1>1, FederationIs DEF HeaderHolds
<1> HIDE DEF trace, id
<1>6. Append(trace, id) \in Seq(Ids) /\ Len(Append(trace, id)) = Len(trace) + 1 BY <1>1, <1>2
<1>7. Len(trace) + 1 <= HeaderCap BY <1>2, <1>3, <1>5, PeerAssumption
<1>8. Written(Append(trace, id)) BY <1>6, <1>7 DEF Written
<1>9. QED BY <1>1, <1>2, <1>4, <1>8 DEF trace, id

\* What is appended to a trace leaves what it has.
LEMMA CarriesMore ==
    ASSUME NEW trace \in Seq(Ids), NEW id \in Ids
    PROVE  /\ id \in ToSet(Append(trace, id))
           /\ ToSet(trace) \subseteq ToSet(Append(trace, id))
           /\ Len(Append(trace, id)) = Len(trace) + 1
<1> DEFINE r == Append(trace, id)
<1>1. Len(r) = Len(trace) + 1 /\ Len(trace) \in Nat /\ r[Len(trace) + 1] = id OBVIOUS
<1>2. \A i \in 1 .. Len(trace) : r[i] = trace[i] OBVIOUS
<1>3. DOMAIN r = 1 .. Len(trace) + 1 /\ DOMAIN trace = 1 .. Len(trace) OBVIOUS
<1> HIDE DEF r
<1>4. QED BY <1>1, <1>2, <1>3 DEF ToSet, r

\* A request that a client sends has no gateway before it.
LEMMA ClientKeepsTraces ==
    ASSUME PeerInv, NEW g \in Gateways, NEW header \in PeerHeaders, ClientSends(g, header)
    PROVE  PeerInv'
<1>1. UNCHANGED <<federation, stack>> /\ inFlight' = [to |-> g, trace |-> header, marked |-> FALSE]
  BY DEF ClientSends
<1>2. PeerTyped' BY <1>1 DEF PeerInv, PeerTyped
<1>3. HeaderHolds' BY <1>1 DEF PeerInv, HeaderHolds, MaxPeerHops
<1>4. (\A j \in DOMAIN stack : TracedTo(j))'
  BY <1>1 DEF PeerInv, TracedTo, Refuses, MaxPeerHops, Traced, Carries, Written
<1>5. TracedOn' BY <1>1 DEF TracedOn
<1>6. QED BY <1>2, <1>3, <1>4, <1>5 DEF PeerInv

\* What TracedTo says depends on the gateways up to this one only.
LEMMA TracedToKept ==
    ASSUME PeerTyped, UNCHANGED federation,
           NEW j \in DOMAIN stack, TracedTo(j),
           \A k \in 1 .. j : /\ stack'[k].at = stack[k].at
                             /\ stack'[k].trace = stack[k].trace
                             /\ stack'[k].marked = stack[k].marked
    PROVE  TracedTo(j)'
<1>1. j \in 1 .. j /\ j \in Nat BY DEF PeerTyped
<1>2. (~Refuses(stack[j].at, stack[j].trace))' BY <1>1 DEF TracedTo, Refuses, MaxPeerHops
<1>3. (stack[j].marked => Written(stack[j].trace))' BY <1>1 DEF TracedTo, Written
<1>4. ASSUME NEW i \in 1 .. j - 1, Traced(i, j)' PROVE Carries(stack[i].at, stack[j].trace, j - i)'
  <2>1. i \in 1 .. j /\ \A k \in i + 1 .. j : k \in 1 .. j BY <1>1
  <2>2. Traced(i, j) BY <1>4, <2>1 DEF Traced
  <2>3. Carries(stack[i].at, stack[j].trace, j - i) BY <2>2 DEF TracedTo
  <2>4. QED BY <1>1, <2>1, <2>3 DEF Carries
<1>5. QED BY <1>2, <1>3, <1>4 DEF TracedTo

\* A gateway takes a request only when its trace does not stop it.
LEMMA ReceiveKeepsTraces ==
    ASSUME PeerInv, NEW g \in Gateways, Receive(g)
    PROVE  PeerInv'
<1> USE DEF PeerInv
<1>0. PICK n \in Nat : n = Len(stack) BY DEF PeerTyped
<1> DEFINE new == [at |-> g, trace |-> inFlight.trace, marked |-> inFlight.marked,
                   left |-> federation.upstreams[g]]
           Entries == [at : Gateways, trace : PeerHeaders, marked : BOOLEAN, left : SUBSET Gateways]
<1>1. /\ UNCHANGED federation /\ inFlight' = Nowhere /\ inFlight.to = g
      /\ Refuses(g, inFlight.trace) => UNCHANGED stack
      /\ ~Refuses(g, inFlight.trace) => stack' = Append(stack, new)
  BY DEF Receive
<1>2. new \in Entries /\ stack \in Seq(Entries) BY FederationIs DEF PeerTyped
<1>3. PeerTyped'
  <2> HIDE DEF Entries, new
  <2>1. stack' \in Seq(Entries) BY <1>1, <1>2
  <2>2. federation' \in Federations BY <1>1 DEF PeerTyped
  <2>3. inFlight' \in [to : Gateways \cup {NoId}, trace : PeerHeaders, marked : BOOLEAN]
    BY <1>1, FederationIs
  <2>4. QED BY <2>1, <2>2, <2>3 DEF PeerTyped, Entries
<1>4. HeaderHolds' BY <1>1 DEF HeaderHolds, MaxPeerHops
<1>5. TracedOn' BY <1>1 DEF TracedOn, Nowhere
<1>6. (\A j \in DOMAIN stack : TracedTo(j))'
  <2>1. CASE Refuses(g, inFlight.trace)
    BY <1>1, <2>1 DEF TracedTo, Refuses, MaxPeerHops, Traced, Carries, Written
  <2>2. CASE ~Refuses(g, inFlight.trace)
    <3>1. stack' = Append(stack, new) BY <1>1, <2>2
    <3> HIDE DEF new
    <3>2. /\ DOMAIN stack' = 1 .. n + 1 /\ DOMAIN stack = 1 .. n
          /\ stack'[n + 1] = new /\ \A k \in 1 .. n : stack'[k] = stack[k]
      <4> HIDE DEF Entries
      <4>1. QED BY <1>0, <1>2, <3>1
    <3>3. ASSUME NEW j \in 1 .. n PROVE TracedTo(j)'
      <4>1. \A k \in 1 .. j : stack'[k] = stack[k] BY <1>2, <3>2
      <4>2. TracedTo(j) /\ j \in DOMAIN stack BY <3>2
      <4>3. QED BY <1>1, <4>1, <4>2, TracedToKept
    <3>4. TracedTo(n + 1)'
      <4>1. /\ new.at = g /\ new.trace = inFlight.trace /\ new.marked = inFlight.marked BY DEF new
      <4>2. (~Refuses(stack[n + 1].at, stack[n + 1].trace))'
        BY <1>1, <2>2, <3>2, <4>1 DEF Refuses, MaxPeerHops
      <4>3. stack'[n + 1].marked => Written(stack[n + 1].trace)'
        BY <1>1, <3>2, <4>1 DEF TracedOn, Written
      <4>4. ASSUME NEW i \in 1 .. n, \A k \in i + 1 .. n + 1 : stack'[k].marked
            PROVE  Carries(stack[i].at, stack[n + 1].trace, n + 1 - i)'
        <5>1. inFlight.marked /\ Traced(i, n)
          <6>1. n + 1 \in i + 1 .. n + 1 /\ \A k \in i + 1 .. n : k \in i + 1 .. n + 1 /\ k \in 1 .. n
            BY <1>2
          <6>2. stack'[n + 1].marked BY <4>4, <6>1
          <6>3. \A k \in i + 1 .. n : stack[k].marked BY <3>2, <4>4, <6>1
          <6>4. QED BY <3>2, <4>1, <6>2, <6>3 DEF Traced
        <5>2. Carries(stack[i].at, inFlight.trace, n + 1 - i) BY <1>0, <3>2, <5>1 DEF TracedOn
        <5>3. QED BY <1>1, <3>2, <4>1, <5>2 DEF Carries
      <4>5. n + 1 - 1 = n BY <1>2
      <4>6. QED BY <4>2, <4>3, <4>4, <4>5 DEF TracedTo, Traced
    <3>5. 1 .. n + 1 = (1 .. n) \cup {n + 1} BY <1>2
    <3>6. QED BY <3>2, <3>3, <3>4, <3>5
  <2>3. QED BY <2>1, <2>2
<1>7. QED BY <1>3, <1>4, <1>5, <1>6

\* The gateway at work passes a request on with the trace it came with and its own id.
LEMMA ForwardKeepsTraces ==
    ASSUME PeerInv, NEW u \in Gateways, Forward(u)
    PROVE  PeerInv'
<1> USE DEF PeerInv
<1> DEFINE n == Len(stack)
           top == stack[n]
           written == TraceFor(top.at, u, top.trace)
           Entries == [at : Gateways, trace : PeerHeaders, marked : BOOLEAN, left : SUBSET Gateways]
           Way == [to : Gateways \cup {NoId}, trace : PeerHeaders, marked : BOOLEAN]
<1>1. stack # <<>> /\ Last(stack) = top BY DEF Forward, Last
<1>2. /\ UNCHANGED federation
      /\ inFlight' = [to |-> u, trace |-> written, marked |-> Marks(top.at, u)]
      /\ stack' = [stack EXCEPT ![n].left = @ \ {u}]
  BY <1>1 DEF Forward
<1>3. stack \in Seq(Entries) /\ n \in Nat \ {0} /\ n \in DOMAIN stack
  <2>1. stack \in Seq(Entries) BY DEF PeerTyped
  <2> HIDE DEF Entries
  <2>2. QED BY <1>1, <2>1
<1>4. top \in Entries
  <2> HIDE DEF Entries
  <2>1. QED BY <1>3
<1>5. top.at \in Gateways /\ top.trace \in PeerHeaders /\ ~Refuses(top.at, top.trace) /\ TracedTo(n)
  BY <1>3, <1>4 DEF TracedTo
<1>6. /\ DOMAIN stack' = DOMAIN stack /\ DOMAIN stack = 1 .. n
      /\ \A k \in 1 .. n : /\ stack'[k].at = stack[k].at /\ stack'[k].trace = stack[k].trace
                           /\ stack'[k].marked = stack[k].marked
      /\ stack' \in Seq(Entries) /\ Len(stack') = n
  <2>1. [top EXCEPT !.left = @ \ {u}] \in Entries BY <1>4
  <2>2. /\ [top EXCEPT !.left = @ \ {u}].at = top.at /\ [top EXCEPT !.left = @ \ {u}].trace = top.trace
        /\ [top EXCEPT !.left = @ \ {u}].marked = top.marked
    BY <1>4
  <2> DEFINE less == [top EXCEPT !.left = @ \ {u}]
  <2>3. stack' = [stack EXCEPT ![n] = less] BY <1>2
  <2> HIDE DEF less, Entries
  <2>4. \A k \in 1 .. n : stack'[k] = IF k = n THEN less ELSE stack[k] BY <1>3, <2>3
  <2>5. stack' \in Seq(Entries) /\ Len(stack') = n BY <1>3, <2>1, <2>3 DEF less
  <2>6. DOMAIN stack' = DOMAIN stack /\ DOMAIN stack = 1 .. n BY <1>3, <2>3
  <2>7. QED BY <2>2, <2>4, <2>5, <2>6 DEF less
<1> HIDE DEF Entries
<1>7. written \in PeerHeaders
  <2>1. CASE ~Marks(top.at, u) BY <2>1 DEF TraceFor, PeerHeaders
  <2>2. CASE Marks(top.at, u)
    <3>1. written \in Seq(Ids) BY <1>5, <2>2, TraceGrows DEF Written
    <3>2. QED BY <3>1 DEF PeerHeaders
  <2>3. QED BY <2>1, <2>2
<1>8. PeerTyped'
  <2>1. Marks(top.at, u) \in BOOLEAN BY DEF Marks
  <2>2. inFlight' \in Way BY <1>2, <1>7, <2>1
  <2>3. QED BY <1>2, <1>6, <2>2 DEF PeerTyped, Entries
<1>9. HeaderHolds' BY <1>2 DEF HeaderHolds, MaxPeerHops
<1>10. ASSUME NEW j \in DOMAIN stack PROVE TracedTo(j)'
  <2>1. \A k \in 1 .. j : k \in 1 .. n BY <1>3, <1>6
  <2>2. TracedTo(j) OBVIOUS
  <2>3. QED BY <1>2, <1>6, <2>1, <2>2, TracedToKept
<1>11. TracedOn'
  <2>1. SUFFICES ASSUME Marks(top.at, u)
                 PROVE  /\ Written(written)
                        /\ \A i \in DOMAIN stack : Traced(i, n)' =>
                               Carries(stack[i].at, inFlight.trace, n + 1 - i)'
    BY <1>2, <1>6 DEF TracedOn, Written
  <2> DEFINE read == ParseTrace(top.trace)
             id == federation.id[top.at]
  <2>2. id \in Ids /\ read \in Seq(Ids) /\ written = Append(read, id) /\ Written(written)
    BY <1>5, <2>1, TraceGrows
  <2> HIDE DEF read, id
  <2>3. id \in ToSet(written) /\ ToSet(read) \subseteq ToSet(written) /\ Len(written) = Len(read) + 1
    BY <2>2, CarriesMore
  <2>4. ASSUME NEW i \in DOMAIN stack, Traced(i, n)
        PROVE  Carries(stack[i].at, written, n + 1 - i)
    <3>1. Len(read) \in Nat BY <2>2
    <3>2. CASE i = n
      <4>1. n + 1 - i = 1 /\ Len(written) >= 1 BY <1>3, <2>3, <3>1, <3>2
      <4>2. federation.id[stack[i].at] \in Ids /\ federation.id[stack[i].at] \in ToSet(written)
        BY <2>2, <2>3, <3>2 DEF id
      <4>3. QED BY <4>1, <4>2 DEF Carries
    <3>3. CASE i # n
      <4>1. i \in 1 .. n - 1 /\ n \in i + 1 .. n BY <1>3, <1>6, <3>3
      <4>2. top.marked BY <2>4, <4>1 DEF Traced
      <4>3. read = top.trace BY <1>5, <4>2, ParseIs DEF TracedTo, read
      <4>4. Carries(stack[i].at, read, n - i) BY <1>5, <2>4, <4>1, <4>3 DEF TracedTo
      <4>5. Len(read) >= n - i => Len(written) >= n + 1 - i BY <1>3, <2>3, <3>1, <4>1
      <4>6. QED BY <2>3, <4>4, <4>5 DEF Carries
    <3>4. QED BY <3>2, <3>3
  <2>5. ASSUME NEW i \in DOMAIN stack, Traced(i, n)' PROVE Traced(i, n)
    <3>1. \A k \in i + 1 .. n : k \in 1 .. n BY <1>3, <1>6
    <3>2. QED BY <1>6, <2>5, <3>1 DEF Traced
  <2>6. ASSUME NEW i \in DOMAIN stack, Traced(i, n)'
        PROVE  Carries(stack[i].at, inFlight.trace, n + 1 - i)'
    <3>1. Carries(stack[i].at, written, n + 1 - i) BY <2>4, <2>5, <2>6
    <3>2. inFlight'.trace = written BY <1>2
    <3>3. stack'[i].at = stack[i].at BY <1>6
    <3>4. QED BY <1>2, <3>1, <3>2, <3>3 DEF Carries
  <2>7. QED BY <2>2, <2>6
<1>12. (\A j \in DOMAIN stack : TracedTo(j))' BY <1>6, <1>10
<1>13. QED BY <1>8, <1>9, <1>11, <1>12

\* An answer ends the request everywhere, and who gives up hands back to the one before.
LEMMA AnswersKeepTraces ==
    ASSUME PeerInv, ProviderAnswers \/ GiveUp
    PROVE  PeerInv'
<1> USE DEF PeerInv
<1> DEFINE Entries == [at : Gateways, trace : PeerHeaders, marked : BOOLEAN, left : SUBSET Gateways]
<1>1. UNCHANGED <<federation, inFlight>> /\ inFlight = Nowhere /\ stack # <<>>
  BY DEF ProviderAnswers, GiveUp
<1>2. PICK n \in Nat : n = Len(stack) BY DEF PeerTyped
<1>3. stack \in Seq(Entries) /\ DOMAIN stack = 1 .. n BY <1>2 DEF PeerTyped
<1>4. PICK m \in 0 .. n : /\ DOMAIN stack' = 1 .. m /\ stack' \in Seq(Entries)
                          /\ \A k \in 1 .. m : stack'[k] = stack[k]
  <2> HIDE DEF Entries
  <2>1. CASE ProviderAnswers
    <3>1. stack' = <<>> BY <2>1 DEF ProviderAnswers
    <3>2. DOMAIN stack' = 1 .. 0 /\ stack' \in Seq(Entries) BY <3>1
    <3>3. 0 \in 0 .. n OBVIOUS
    <3>4. QED BY <3>2, <3>3
  <2>2. CASE GiveUp
    <3>1. stack' = SubSeq(stack, 1, n - 1) BY <1>2, <2>2 DEF GiveUp, Front
    <3>2. n # 0 BY <1>1, <1>2, <1>3
    <3>3. /\ DOMAIN stack' = 1 .. n - 1 /\ stack' \in Seq(Entries)
          /\ \A k \in 1 .. n - 1 : stack'[k] = stack[k]
      BY <1>2, <1>3, <3>1, <3>2
    <3>4. n - 1 \in 0 .. n BY <3>2
    <3>5. QED BY <3>3, <3>4
  <2>3. QED BY <2>1, <2>2
<1>5. PeerTyped' BY <1>1, <1>4 DEF PeerTyped
<1>6. HeaderHolds' BY <1>1 DEF HeaderHolds, MaxPeerHops
<1>7. ASSUME NEW j \in 1 .. m PROVE TracedTo(j)'
  <2>1. \A k \in 1 .. j : stack'[k] = stack[k] BY <1>4
  <2>2. TracedTo(j) /\ j \in DOMAIN stack BY <1>3, <1>4
  <2>3. QED BY <1>1, <2>1, <2>2, TracedToKept
<1>8. (\A j \in DOMAIN stack : TracedTo(j))' BY <1>4, <1>7
<1>9. TracedOn' BY <1>1 DEF TracedOn, Nowhere
<1>10. QED BY <1>5, <1>6, <1>8, <1>9

\* Where the header of a request holds the hops that are allowed, the traces tell the
\* way of the request, in every federation, with every header a client may send.
LEMMA TracesAreKept == PeerSpec /\ HeaderHolds => []PeerInv
<1>1. PeerInit /\ HeaderHolds => PeerInv
  <2> SUFFICES ASSUME PeerInit, HeaderHolds PROVE PeerInv OBVIOUS
  <2>1. stack = <<>> /\ inFlight = Nowhere /\ federation \in Federations BY DEF PeerInit
  <2>2. <<>> \in PeerHeaders BY DEF PeerHeaders
  <2>3. PeerTyped BY <2>1, <2>2 DEF PeerTyped, Nowhere
  <2>4. TracedOn BY <2>1 DEF TracedOn, Nowhere
  <2>5. \A j \in DOMAIN stack : TracedTo(j) BY <2>1
  <2>6. QED BY <2>3, <2>4, <2>5 DEF PeerInv
<1>2. PeerInv /\ [PeerNext]_peerVars => PeerInv'
  <2> SUFFICES ASSUME PeerInv, [PeerNext]_peerVars PROVE PeerInv' OBVIOUS
  <2>1. ASSUME NEW g \in Gateways, NEW h \in Gateways, NEW n \in {0, 1, HeaderCap + 1},
               ClientSends(g, [i \in 1 .. n |-> federation.id[h]])
        PROVE  PeerInv'
    <3>1. federation.id[h] \in Ids \cup {NoId} /\ n \in Nat
      BY FederationIs, PeerAssumption DEF PeerInv
    <3>2. [i \in 1 .. n |-> federation.id[h]] \in PeerHeaders BY <3>1 DEF PeerHeaders
    <3>3. QED BY <2>1, <3>2, ClientKeepsTraces
  <2>2. ASSUME NEW g \in Gateways, Receive(g) PROVE PeerInv' BY <2>2, ReceiveKeepsTraces
  <2>3. ASSUME NEW g \in Gateways, Forward(g) PROVE PeerInv' BY <2>3, ForwardKeepsTraces
  <2>4. CASE ProviderAnswers \/ GiveUp BY <2>4, AnswersKeepTraces
  <2>5. CASE UNCHANGED peerVars
    BY <2>5 DEF peerVars, PeerInv, PeerTyped, HeaderHolds, TracedTo, TracedOn, Refuses,
                MaxPeerHops, Traced, Carries, Written
  <2>6. QED BY <2>1, <2>2, <2>3, <2>4, <2>5 DEF PeerNext
<1>3. QED BY <1>1, <1>2, PTL DEF PeerSpec

\* A request that keeps its trace is handled by no gateway twice and by no more than the
\* hops that the last one allows, for every federation, whatever the routers choose, the
\* client sends and is refused; provided that the header holds the ids of these hops.
THEOREM PeersAreNotRevisited == PeerSpec /\ HeaderHolds => []NoRevisit
<1>1. PeerInv => NoRevisit
  <2> SUFFICES ASSUME PeerInv, NEW i \in DOMAIN stack, NEW j \in DOMAIN stack,
                      i < j, Traced(i, j), federation.id[stack[j].at] # NoId
               PROVE  /\ federation.id[stack[i].at] # federation.id[stack[j].at]
                      /\ j - i < MaxPeerHops(stack[j].at)
    BY DEF NoRevisit
  <2> DEFINE trace == stack[j].trace
             g == stack[j].at
  <2>1. i \in 1 .. j - 1 /\ j \in i + 1 .. j /\ i \in Nat /\ j \in Nat BY DEF PeerInv, PeerTyped
  <2>2. stack[j].marked BY <2>1 DEF Traced
  <2>3. TracedTo(j) BY DEF PeerInv
  <2>4. Written(trace) /\ Carries(stack[i].at, trace, j - i) /\ ~Refuses(g, trace)
    BY <2>1, <2>2, <2>3 DEF TracedTo
  <2>5. ParseTrace(trace) = trace BY <2>4, ParseIs
  <2>6. federation.id[g] \notin ToSet(trace) /\ ~(Len(trace) >= MaxPeerHops(g))
    BY <2>4, <2>5 DEF Refuses
  <2>7. g \in Gateways
    <3> DEFINE Entries == [at : Gateways, trace : PeerHeaders, marked : BOOLEAN, left : SUBSET Gateways]
    <3>1. stack \in Seq(Entries) BY DEF PeerInv, PeerTyped
    <3>2. stack[j] \in Entries
      <4> HIDE DEF Entries
      <4>1. QED BY <3>1
    <3>3. QED BY <3>2
  <2>8. MaxPeerHops(g) \in Nat BY <2>7, FederationIs DEF PeerInv
  <2>9. Len(trace) \in Nat /\ Len(trace) >= j - i BY <2>4 DEF Written, Carries
  <2> HIDE DEF g, trace
  <2>10. j - i < MaxPeerHops(g) BY <2>1, <2>6, <2>8, <2>9
  <2>11. QED BY <2>4, <2>6, <2>10 DEF Carries, g, trace
<1>2. QED BY <1>1, TracesAreKept, PTL

-----------------------------------------------------------------------------
(* The context of a turn                                                   *)

\* What a context is made of.
Items == [id : Nat, wrapped : BOOLEAN, length : Nat]
Contexts == [hits : Seq(Items), history : Seq(Items), rows : Seq(Nat), trimmed : BOOLEAN]

LEMMA SumType ==
    ASSUME NEW s \in Seq(Int)
    PROVE  SumOf(s) \in Int
<1> DEFINE n == Len(s)
           step == [p \in (1 .. n) \X Int |-> p[2] + s[p[1]]]
           Body(f) == [i \in 0 .. n |-> IF i = 0 THEN 0 ELSE f[i - 1] + s[i]]
           chosen == CHOOSE f : f = Body(f)
<1>1. n \in Nat /\ \A i \in 1 .. n : s[i] \in Int OBVIOUS
<1>2. PICK f \in [0 .. n -> Int] : f[0] = 0 /\ \A i \in 1 .. n : f[i] = step[<<i, f[i - 1]>>]
  <2>1. step \in [(1 .. n) \X Int -> Int] BY <1>1
  <2> DEFINE V == Int
  <2>2. 0 \in V OBVIOUS
  <2>3. step \in [(1 .. n) \X V -> V] BY <2>1
  <2>4. \E f \in [0 .. n -> V] : f[0] = 0 /\ \A i \in 1 .. n : f[i] = step[<<i, f[i - 1]>>]
    <3> HIDE DEF n, V, step
    <3>1. FromTheStart(n, V, 0, step) BY <1>1, <2>2, <2>3 DEF FromTheStart
    <3>2. QED BY <3>1, RecursionUp
  <2>5. QED BY <2>4
<1>3. f = Body(f)
  <2>1. ASSUME NEW i \in 0 .. n PROVE f[i] = IF i = 0 THEN 0 ELSE f[i - 1] + s[i]
    <3> HIDE DEF n
    <3>1. CASE i = 0 BY <1>2, <3>1
    <3>2. CASE i # 0
      <4>1. i \in 1 .. n /\ f[i - 1] \in Int BY <1>1, <1>2, <3>2
      <4>2. QED BY <1>2, <3>2, <4>1
    <3>3. QED BY <3>1, <3>2
  <2> HIDE DEF n
  <2>2. f = [i \in 0 .. n |-> f[i]] BY <1>2
  <2>3. QED BY <2>1, <2>2
<1>4. chosen = Body(chosen) BY <1>3, Zenon
<1>5. SumOf(s) = chosen[n] BY Zenon DEF SumOf
<1> HIDE DEF chosen
<1> DEFINE G == {i \in 0 .. n : chosen[i] \in Int}
<1>6. 0 \in G BY <1>1, <1>4
<1>7. ASSUME NEW i \in 1 .. n, i - 1 \in G PROVE i \in G
  <2>1. chosen[i] = chosen[i - 1] + s[i]
    <3>1. i \in 0 .. n /\ i # 0 BY <1>1
    <3>2. chosen[i] = Body(chosen)[i] BY <1>4, Zenon
    <3>3. QED BY <3>1, <3>2, Zenon
  <2>2. QED BY <1>1, <1>7, <2>1
<1>8. 0 .. n \subseteq G
  <2> HIDE DEF G, n
  <2>1. QED BY <1>1, <1>6, <1>7, Upward
<1>9. QED BY <1>1, <1>5, <1>8

\* A context has a size.
LEMMA TotalType ==
    ASSUME NEW c \in Contexts, NEW u \in Nat
    PROVE  TotalContextTokens(c, u) \in Int
<1>1. {BaseLength, HeaderLength} \subseteq Nat BY ContextAssumption
<1>2. ASSUME NEW s \in Seq(Nat) PROVE BlockLength(s) \in Int
  <2>1. s \in Seq(Int) /\ Len(s) \in Int OBVIOUS
  <2>2. SumOf(s) \in Int BY <2>1, SumType
  <2>3. QED BY <1>1, <2>1, <2>2 DEF BlockLength
<1>3. Lengths(c.hits) \in Seq(Nat)
  <2>1. c.hits \in Seq(Items) BY DEF Contexts
  <2>2. DOMAIN c.hits = 1 .. Len(c.hits) /\ Len(c.hits) \in Nat /\ \A i \in 1 .. Len(c.hits) : c.hits[i] \in Items
    BY <2>1
  <2>3. Lengths(c.hits) \in [1 .. Len(c.hits) -> Nat] BY <2>2 DEF Lengths, Items
  <2>4. QED BY <2>2, <2>3, SeqDef
<1>4. SystemLength(c) \in Int
  <2>1. c.rows \in Seq(Nat) BY DEF Contexts
  <2>2. BlockLength(Lengths(c.hits)) \in Int /\ BlockLength(c.rows) \in Int BY <1>2, <1>3, <2>1
  <2>3. QED BY <1>1, <2>2 DEF SystemLength
<1>5. \A l \in Int : EstimateTokens(l) \in Int BY DEF EstimateTokens
<1> DEFINE e == [i \in DOMAIN c.history |-> EstimateTokens(c.history[i].length)]
<1>6. e \in Seq(Int)
  <2>1. c.history \in Seq(Items) BY DEF Contexts
  <2>2. /\ DOMAIN c.history = 1 .. Len(c.history) /\ Len(c.history) \in Nat
        /\ \A i \in 1 .. Len(c.history) : c.history[i] \in Items
    BY <2>1
  <2>3. \A i \in 1 .. Len(c.history) : c.history[i].length \in Int BY <2>2 DEF Items
  <2>4. e \in [1 .. Len(c.history) -> Int] BY <1>5, <2>2, <2>3
  <2> HIDE DEF e
  <2>5. QED BY <2>2, <2>4, SeqDef
<1>7. SumOf(e) \in Int
  <2> HIDE DEF e
  <2>1. QED BY <1>6, SumType
<1>8. EstimateTokens(SystemLength(c)) \in Int /\ EstimateTokens(u) \in Int BY <1>4, <1>5
<1>9. QED BY <1>7, <1>8 DEF TotalContextTokens

Beginning(s, of) == Len(s) <= Len(of) /\ s = SubSeq(of, 1, Len(s))
Ending(s, of) == Len(s) <= Len(of) /\ s = SubSeq(of, Len(of) - Len(s) + 1, Len(of))

\* What may be left of a context: hits and facts from the front, messages from the
\* back; messages are missing when the hits are, facts when the messages are.
RestOf(d, g) ==
    /\ d \in Contexts
    /\ Beginning(d.hits, g.hits) /\ Ending(d.history, g.history) /\ Beginning(d.rows, g.rows)
    /\ d.hits # <<>> => d.history = g.history /\ d.rows = g.rows
    /\ d.history # <<>> => d.rows = g.rows

SameTexts(c, d) == c.hits = d.hits /\ c.history = d.history /\ c.rows = d.rows

LEMMA SameTotal ==
    ASSUME NEW c, NEW d, NEW u, SameTexts(c, d)
    PROVE  TotalContextTokens(c, u) = TotalContextTokens(d, u)
BY DEF SameTexts, TotalContextTokens, SystemLength

LEMMA FrontOfBeginning ==
    ASSUME NEW S, NEW g \in Seq(S), NEW s \in Seq(S), Beginning(s, g), s # <<>>
    PROVE  /\ Front(s) \in Seq(S) /\ Len(Front(s)) = Len(s) - 1 /\ Front(s) # g
           /\ Beginning(Front(s), g)
           /\ SubSeq(g, 1, Len(Front(s)) + 1) = s
<1> DEFINE n == Len(s)
<1>1. n \in Nat /\ n # 0 /\ Len(g) \in Nat /\ n <= Len(g) /\ s = SubSeq(g, 1, n) BY EmptySeq DEF Beginning
<1>2. Front(s) = SubSeq(s, 1, n - 1) BY DEF Front
<1>3. /\ Front(s) \in Seq(S) /\ Len(Front(s)) = n - 1 /\ \A i \in 1 .. n - 1 : Front(s)[i] = s[i]
  BY <1>1, <1>2, SubSeqProperties
<1>4. /\ SubSeq(g, 1, n - 1) \in Seq(S) /\ Len(SubSeq(g, 1, n - 1)) = n - 1
      /\ \A i \in 1 .. n - 1 : SubSeq(g, 1, n - 1)[i] = g[i]
  BY <1>1, SubSeqProperties
<1>5. \A i \in 1 .. n : s[i] = g[i] BY <1>1, SubSeqProperties
<1>6. Front(s) = SubSeq(g, 1, n - 1)
  <2> HIDE DEF n
  <2>1. \A i \in 1 .. n - 1 : Front(s)[i] = SubSeq(g, 1, n - 1)[i] BY <1>1, <1>3, <1>4, <1>5
  <2>2. QED BY <1>3, <1>4, <2>1, SeqEqual
<1>7. Front(s) # g BY <1>1, <1>3
<1>8. QED BY <1>1, <1>3, <1>6, <1>7 DEF Beginning

LEMMA TailOfEnding ==
    ASSUME NEW S, NEW g \in Seq(S), NEW s \in Seq(S), Ending(s, g), s # <<>>
    PROVE  /\ Tail(s) \in Seq(S) /\ Len(Tail(s)) = Len(s) - 1 /\ Tail(s) # g
           /\ Ending(Tail(s), g)
           /\ SubSeq(g, Len(g) - Len(Tail(s)), Len(g)) = s
<1> DEFINE n == Len(s)
           a == Len(g) - n + 1
           e == SubSeq(g, a + 1, Len(g))
<1>1. n \in Nat /\ n # 0 /\ Len(g) \in Nat /\ n <= Len(g) /\ s = SubSeq(g, a, Len(g)) BY EmptySeq DEF Ending
<1>2. Tail(s) \in Seq(S) /\ Len(Tail(s)) = n - 1 /\ \A i \in 1 .. n - 1 : Tail(s)[i] = s[i + 1]
  BY <1>1, HeadTailProperties
<1>3. e \in Seq(S) /\ Len(e) = n - 1 /\ \A i \in 1 .. n - 1 : e[i] = g[a + 1 + i - 1]
  BY <1>1, SubSeqProperties
<1>4. \A i \in 1 .. n : s[i] = g[a + i - 1] BY <1>1, SubSeqProperties
<1>5. Tail(s) = e
  <2> HIDE DEF n, e
  <2>1. ASSUME NEW i \in 1 .. n - 1 PROVE Tail(s)[i] = e[i]
    <3>1. i + 1 \in 1 .. n /\ a + (i + 1) - 1 = a + 1 + i - 1 BY <1>1
    <3> HIDE DEF a
    <3>2. QED BY <1>2, <1>3, <1>4, <3>1
  <2>2. QED BY <1>2, <1>3, <2>1, SeqEqual
<1>6. Tail(s) # g BY <1>1, <1>2
<1>7. Len(g) - Len(Tail(s)) + 1 = a + 1 /\ Len(g) - Len(Tail(s)) = a BY <1>1, <1>2
<1>8. QED BY <1>1, <1>2, <1>5, <1>6, <1>7 DEF Ending

LEMMA PutBack ==
    ASSUME NEW h, NEW m, NEW f, NEW x, NEW z, NEW c,
           c = [hits |-> h, history |-> m, rows |-> f, trimmed |-> x]
    PROVE  /\ SameTexts([c EXCEPT !.hits = z], [hits |-> z, history |-> m, rows |-> f])
           /\ SameTexts([c EXCEPT !.history = z], [hits |-> h, history |-> z, rows |-> f])
           /\ SameTexts([c EXCEPT !.rows = z], [hits |-> h, history |-> m, rows |-> z])
BY DEF SameTexts

LEMMA DropKeeps ==
    ASSUME NEW g \in Contexts, NEW d, RestOf(d, g)
    PROVE  /\ RestOf(DropOne(d), g)
           /\ Left(d) \in Nat
           /\ Left(d) = 0 => SameTexts(DropOne(d), d)
           /\ Left(d) > 0 => Left(DropOne(d)) = Left(d) - 1 /\ SameTexts(OneMore(DropOne(d), g), d)
<1>1. d \in Contexts BY DEF RestOf
<1>2. PICK a \in Seq(Items), b \in Seq(Items), r \in Seq(Nat), x \in BOOLEAN :
         d = [hits |-> a, history |-> b, rows |-> r, trimmed |-> x]
  BY <1>1 DEF Contexts
<1>3. /\ a \in Seq(Items) /\ b \in Seq(Items) /\ r \in Seq(Nat)
      /\ g.hits \in Seq(Items) /\ g.history \in Seq(Items) /\ g.rows \in Seq(Nat)
  BY <1>2 DEF Contexts
<1> DEFINE ga == g.hits
           gb == g.history
           gr == g.rows
<1> HIDE DEF ga, gb, gr
<1>4. /\ Beginning(a, ga) /\ Ending(b, gb) /\ Beginning(r, gr)
      /\ a # <<>> => b = gb /\ r = gr
      /\ b # <<>> => r = gr
  <2>1. d.hits = a /\ d.history = b /\ d.rows = r BY <1>2
  <2>2. QED BY <2>1, Zenon DEF RestOf, ga, gb, gr
<1>11. /\ Len(a) \in Nat /\ Len(b) \in Nat /\ Len(r) \in Nat
       /\ (Len(a) = 0 <=> a = <<>>) /\ (Len(b) = 0 <=> b = <<>>) /\ (Len(r) = 0 <=> r = <<>>)
       /\ Len(ga) \in Nat /\ Len(gb) \in Nat /\ Len(gr) \in Nat
       /\ ga \in Seq(Items) /\ gb \in Seq(Items) /\ gr \in Seq(Nat)
  BY <1>3, EmptySeq DEF ga, gb, gr
<1> DEFINE Rest(e) ==
              /\ Beginning(e.hits, ga) /\ Ending(e.history, gb) /\ Beginning(e.rows, gr)
              /\ e.hits # <<>> => e.history = gb /\ e.rows = gr
              /\ e.history # <<>> => e.rows = gr
<1>12. ASSUME NEW e \in Contexts, Rest(e) PROVE RestOf(e, g) BY <1>12, Zenon DEF RestOf, ga, gb, gr
<1>5. \A h, m, f, y : Left([hits |-> h, history |-> m, rows |-> f, trimmed |-> y]) = Len(h) + Len(m) + Len(f)
  BY DEF Left
<1>6. Left(d) = Len(a) + Len(b) + Len(r) /\ Left(d) \in Nat
  <2>1. Left(d) = Len(a) + Len(b) + Len(r) BY <1>2, <1>5
  <2> DEFINE la == Len(a)
             lb == Len(b)
             lr == Len(r)
  <2>2. la \in Nat /\ lb \in Nat /\ lr \in Nat BY <1>11
  <2>3. Left(d) = la + lb + lr BY <2>1
  <2> HIDE DEF la, lb, lr
  <2>4. Left(d) \in Nat BY <2>2, <2>3
  <2>5. QED BY <2>1, <2>4
<1>7. CASE a # <<>>
  <2> DEFINE f == Front(a)
             e == DropOne(d)
             put == SubSeq(ga, 1, Len(f) + 1)
  <2>1. f \in Seq(Items) /\ Len(f) = Len(a) - 1 /\ f # ga /\ Beginning(f, ga) /\ put = a
    BY <1>3, <1>4, <1>7, <1>11, FrontOfBeginning
  <2>2. e = [hits |-> f, history |-> b, rows |-> r, trimmed |-> TRUE] BY <1>2, <1>7 DEF DropOne
  <2> HIDE DEF f, e, put
  <2>3. e.hits = f /\ e.history = b /\ e.rows = r BY <2>2
  <2>4. e \in Contexts BY <1>3, <2>1, <2>2 DEF Contexts
  <2>5. RestOf(e, g)
    <3>1. Rest(e) BY <1>4, <1>7, <2>1, <2>3, Zenon
    <3> HIDE DEF Rest
    <3>2. QED BY <1>12, <2>4, <3>1
  <2>6. Left(e) = Left(d) - 1 /\ Left(d) # 0
    <3> DEFINE la == Len(a)
               lb == Len(b)
               lr == Len(r)
    <3>1. Left(e) = Len(f) + lb + lr BY <2>3, Zenon DEF Left
    <3>2. Left(d) = la + lb + lr /\ Len(f) = la - 1 /\ la # 0 BY <1>6, <1>7, <1>11, <2>1
    <3>3. la \in Nat /\ lb \in Nat /\ lr \in Nat BY <1>11
    <3> HIDE DEF la, lb, lr
    <3>4. QED BY <3>1, <3>2, <3>3
  <2>7. SameTexts(OneMore(e, g), d)
    <3>1. OneMore(e, g) = [e EXCEPT !.hits = put]
      BY <1>4, <1>7, <2>1, <2>3, Zenon DEF OneMore, ga, gb, gr, put
    <3>2. SameTexts([e EXCEPT !.hits = put], [hits |-> put, history |-> b, rows |-> r])
      BY <2>2, PutBack
    <3>3. d.hits = a /\ d.history = b /\ d.rows = r BY <1>2
    <3>4. QED BY <1>7, <2>1, <3>1, <3>2, <3>3 DEF SameTexts
  <2>8. QED BY <1>6, <2>5, <2>6, <2>7 DEF e
<1>8. CASE a = <<>> /\ b # <<>>
  <2> DEFINE f == Tail(b)
             e == DropOne(d)
             put == SubSeq(gb, Len(gb) - Len(f), Len(gb))
  <2>1. f \in Seq(Items) /\ Len(f) = Len(b) - 1 /\ f # gb /\ Ending(f, gb) /\ put = b
    BY <1>3, <1>4, <1>8, <1>11, TailOfEnding
  <2>2. e = [hits |-> a, history |-> f, rows |-> r, trimmed |-> TRUE] BY <1>2, <1>8 DEF DropOne
  <2> HIDE DEF f, e, put
  <2>3. e.hits = a /\ e.history = f /\ e.rows = r BY <2>2
  <2>4. e \in Contexts BY <1>3, <2>1, <2>2 DEF Contexts
  <2>5. RestOf(e, g)
    <3>1. Rest(e) BY <1>4, <1>8, <2>1, <2>3, Zenon
    <3> HIDE DEF Rest
    <3>2. QED BY <1>12, <2>4, <3>1
  <2>6. Left(e) = Left(d) - 1 /\ Left(d) # 0
    <3> DEFINE la == Len(a)
               lb == Len(b)
               lr == Len(r)
    <3>1. Left(e) = la + Len(f) + lr BY <2>3, Zenon DEF Left
    <3>2. Left(d) = la + lb + lr /\ Len(f) = lb - 1 /\ lb # 0 BY <1>6, <1>8, <1>11, <2>1
    <3>3. la \in Nat /\ lb \in Nat /\ lr \in Nat BY <1>11
    <3> HIDE DEF la, lb, lr
    <3>4. QED BY <3>1, <3>2, <3>3
  <2>7. SameTexts(OneMore(e, g), d)
    <3>1. OneMore(e, g) = [e EXCEPT !.history = put]
      BY <1>4, <1>8, <2>1, <2>3, Zenon DEF OneMore, ga, gb, gr, put
    <3>2. SameTexts([e EXCEPT !.history = put], [hits |-> a, history |-> put, rows |-> r])
      BY <2>2, PutBack
    <3>3. d.hits = a /\ d.history = b /\ d.rows = r BY <1>2
    <3>4. QED BY <1>8, <2>1, <3>1, <3>2, <3>3 DEF SameTexts
  <2>8. QED BY <1>6, <2>5, <2>6, <2>7 DEF e
<1>9. CASE a = <<>> /\ b = <<>> /\ r # <<>>
  <2> DEFINE f == Front(r)
             e == DropOne(d)
             put == SubSeq(gr, 1, Len(f) + 1)
  <2>1. f \in Seq(Nat) /\ Len(f) = Len(r) - 1 /\ f # gr /\ Beginning(f, gr) /\ put = r
    BY <1>3, <1>4, <1>9, <1>11, FrontOfBeginning
  <2>2. e = [hits |-> a, history |-> b, rows |-> f, trimmed |-> TRUE] BY <1>2, <1>9 DEF DropOne
  <2> HIDE DEF f, e, put
  <2>3. e.hits = a /\ e.history = b /\ e.rows = f BY <2>2
  <2>4. e \in Contexts BY <1>3, <2>1, <2>2 DEF Contexts
  <2>5. RestOf(e, g)
    <3>1. Rest(e) BY <1>4, <1>9, <2>1, <2>3, Zenon
    <3> HIDE DEF Rest
    <3>2. QED BY <1>12, <2>4, <3>1
  <2>6. Left(e) = Left(d) - 1 /\ Left(d) # 0
    <3> DEFINE la == Len(a)
               lb == Len(b)
               lr == Len(r)
    <3>1. Left(e) = la + lb + Len(f) BY <2>3, Zenon DEF Left
    <3>2. Left(d) = la + lb + lr /\ Len(f) = lr - 1 /\ lr # 0 BY <1>6, <1>9, <1>11, <2>1
    <3>3. la \in Nat /\ lb \in Nat /\ lr \in Nat BY <1>11
    <3> HIDE DEF la, lb, lr
    <3>4. QED BY <3>1, <3>2, <3>3
  <2>7. SameTexts(OneMore(e, g), d)
    <3>1. OneMore(e, g) = [e EXCEPT !.rows = put]
      BY <1>4, <1>9, <2>1, <2>3, Zenon DEF OneMore, ga, gb, gr, put
    <3>2. SameTexts([e EXCEPT !.rows = put], [hits |-> a, history |-> b, rows |-> put])
      BY <2>2, PutBack
    <3>3. d.hits = a /\ d.history = b /\ d.rows = r BY <1>2
    <3>4. QED BY <1>9, <2>1, <3>1, <3>2, <3>3 DEF SameTexts
  <2>8. QED BY <1>6, <2>5, <2>6, <2>7 DEF e
<1>10. CASE a = <<>> /\ b = <<>> /\ r = <<>>
  <2> DEFINE e == DropOne(d)
  <2>1. e = [hits |-> a, history |-> b, rows |-> r, trimmed |-> TRUE] BY <1>2, <1>10 DEF DropOne
  <2> HIDE DEF e
  <2>2. e.hits = a /\ e.history = b /\ e.rows = r BY <2>1
  <2>3. e \in Contexts BY <1>3, <2>1 DEF Contexts
  <2>4. RestOf(e, g)
    <3>1. Rest(e) BY <1>4, <2>2, Zenon
    <3> HIDE DEF Rest
    <3>2. QED BY <1>12, <2>3, <3>1
  <2>5. Left(d) = 0
    <3>1. Len(a) = 0 /\ Len(b) = 0 /\ Len(r) = 0 BY <1>10, <1>11
    <3>2. QED BY <1>6, <3>1
  <2>6. SameTexts(e, d) BY <1>2, <2>1 DEF SameTexts
  <2>7. QED BY <1>6, <2>4, <2>5, <2>6 DEF e
<1>13. QED BY <1>7, <1>8, <1>9, <1>10

LEMMA RestOfAll ==
    ASSUME NEW g \in Contexts
    PROVE  RestOf(g, g)
<1>1. g.hits \in Seq(Items) /\ g.history \in Seq(Items) /\ g.rows \in Seq(Nat) BY DEF Contexts
<1>2. ASSUME NEW S, NEW s \in Seq(S) PROVE Beginning(s, s) /\ Ending(s, s)
  <2>1. Len(s) \in Nat /\ Len(s) - Len(s) + 1 = 1 /\ Len(s) <= Len(s) OBVIOUS
  <2>2. SubSeq(s, 1, Len(s)) = s BY SubSeqFull
  <2> HIDE <1>1
  <2>3. QED BY <2>1, <2>2 DEF Beginning, Ending
<1>3. Beginning(g.hits, g.hits) /\ Ending(g.history, g.history) /\ Beginning(g.rows, g.rows) BY <1>1, <1>2
<1>4. QED BY <1>3 DEF RestOf

\* What is put back depends on the texts alone.
LEMMA SameOneMore ==
    ASSUME NEW c \in Contexts, NEW d \in Contexts, NEW g, SameTexts(c, d)
    PROVE  SameTexts(OneMore(c, g), OneMore(d, g))
<1>1. PICK a \in Seq(Items), b \in Seq(Items), r \in Seq(Nat), x \in BOOLEAN :
         c = [hits |-> a, history |-> b, rows |-> r, trimmed |-> x]
  BY DEF Contexts
<1>2. PICK y \in BOOLEAN : d = [hits |-> a, history |-> b, rows |-> r, trimmed |-> y] BY <1>1 DEF SameTexts, Contexts
<1>3. /\ c.hits = a /\ c.history = b /\ c.rows = r
      /\ d.hits = a /\ d.history = b /\ d.rows = r
  BY <1>1, <1>2
<1> DEFINE zr == SubSeq(g.rows, 1, Len(r) + 1)
           zb == SubSeq(g.history, Len(g.history) - Len(b), Len(g.history))
           za == SubSeq(g.hits, 1, Len(a) + 1)
<1>4. /\ OneMore(c, g) = IF r # g.rows THEN [c EXCEPT !.rows = zr]
                         ELSE IF b # g.history THEN [c EXCEPT !.history = zb] ELSE [c EXCEPT !.hits = za]
      /\ OneMore(d, g) = IF r # g.rows THEN [d EXCEPT !.rows = zr]
                         ELSE IF b # g.history THEN [d EXCEPT !.history = zb] ELSE [d EXCEPT !.hits = za]
  BY <1>3, Zenon DEF OneMore
<1> HIDE DEF za, zb, zr
<1>5. /\ SameTexts([c EXCEPT !.hits = za], [hits |-> za, history |-> b, rows |-> r])
      /\ SameTexts([d EXCEPT !.hits = za], [hits |-> za, history |-> b, rows |-> r])
  BY <1>1, <1>2, PutBack
<1>6. /\ SameTexts([c EXCEPT !.history = zb], [hits |-> a, history |-> zb, rows |-> r])
      /\ SameTexts([d EXCEPT !.history = zb], [hits |-> a, history |-> zb, rows |-> r])
  BY <1>1, <1>2, PutBack
<1>7. /\ SameTexts([c EXCEPT !.rows = zr], [hits |-> a, history |-> b, rows |-> zr])
      /\ SameTexts([d EXCEPT !.rows = zr], [hits |-> a, history |-> b, rows |-> zr])
  BY <1>1, <1>2, PutBack
<1>8. \A p, q, o : SameTexts(p, o) /\ SameTexts(q, o) => SameTexts(p, q) BY Zenon DEF SameTexts
<1>9. CASE r # g.rows BY <1>4, <1>7, <1>8, <1>9, Zenon
<1>10. CASE r = g.rows /\ b # g.history BY <1>4, <1>6, <1>8, <1>10, Zenon
<1>11. CASE r = g.rows /\ b = g.history BY <1>4, <1>5, <1>8, <1>11, Zenon
<1>12. QED BY <1>9, <1>10, <1>11

\* The loop, by induction over its rounds.
LEMMA TrimSound ==
    ASSUME NEW g \in Contexts, NEW u \in Nat, NEW m \in Int, NEW d, d = TrimContextToBudget(g, u, m)
    PROVE  /\ RestOf(d, g)
           /\ TotalContextTokens(d, u) <= m \/ Left(d) = 0
           /\ Left(d) < Left(g) => TotalContextTokens(OneMore(d, g), u) > m
<1> DEFINE all == Len(g.hits) + Len(g.history) + Len(g.rows)
           n == all + 1
           V == Contexts
           step == [p \in (1 .. n) \X V |-> IF TotalContextTokens(p[2], u) > m THEN DropOne(p[2]) ELSE p[2]]
           Body(f) == [i \in 0 .. n |->
                          IF i = 0 THEN g
                          ELSE IF TotalContextTokens(f[i - 1], u) > m THEN DropOne(f[i - 1]) ELSE f[i - 1]]
           chosen == CHOOSE f : f = Body(f)
<1>1. RestOf(g, g) BY RestOfAll
<1>2. all = Left(g) /\ all \in Nat /\ n \in Nat
  <2>1. all = Left(g) BY DEF Left
  <2>2. Left(g) \in Nat BY <1>1, DropKeeps
  <2> HIDE DEF all
  <2>3. QED BY <2>1, <2>2
<1>3. ASSUME NEW c \in V PROVE DropOne(c) \in V BY <1>3, RestOfAll, DropKeeps DEF RestOf
<1>4. step \in [(1 .. n) \X V -> V]
  <2> HIDE DEF n, V
  <2>1. ASSUME NEW i \in 1 .. n, NEW c \in V
        PROVE  (IF TotalContextTokens(c, u) > m THEN DropOne(c) ELSE c) \in V
    BY <1>3
  <2>2. QED BY <2>1
<1>5. PICK f \in [0 .. n -> V] : f[0] = g /\ \A i \in 1 .. n : f[i] = step[<<i, f[i - 1]>>]
  <2>1. g \in V OBVIOUS
  <2> HIDE DEF n, V, step
  <2>2. FromTheStart(n, V, g, step) BY <1>2, <1>4, <2>1 DEF FromTheStart
  <2>3. QED BY <2>2, RecursionUp
<1>6. \A i \in 1 .. n : f[i] = IF TotalContextTokens(f[i - 1], u) > m THEN DropOne(f[i - 1]) ELSE f[i - 1]
  <2> TAKE i \in 1 .. n
  <2> HIDE DEF n, V
  <2>1. f[i - 1] \in V BY <1>2, <1>5
  <2>2. QED BY <1>5, <2>1
<1> HIDE DEF step
<1>7. f = Body(f)
  <2> HIDE DEF n, V
  <2>1. f = [i \in 0 .. n |-> f[i]] BY <1>5
  <2>2. ASSUME NEW i \in 0 .. n PROVE f[i] = Body(f)[i]
    <3>1. CASE i = 0 BY <1>5, <3>1
    <3>2. CASE i # 0
      <4>1. i \in 1 .. n BY <1>2, <3>2
      <4>2. QED BY <1>6, <3>2, <4>1, Zenon
    <3>3. QED BY <3>1, <3>2
  <2>3. QED BY <2>1, <2>2
<1>8. chosen = Body(chosen) BY <1>7, Zenon
<1>9. d = chosen[n] BY Zenon DEF TrimContextToBudget
<1> HIDE DEF chosen
<1>10. chosen[0] = g
       /\ \A i \in 1 .. n : chosen[i] = IF TotalContextTokens(chosen[i - 1], u) > m THEN DropOne(chosen[i - 1])
                                        ELSE chosen[i - 1]
  <2> HIDE DEF n
  <2>1. 0 \in 0 .. n /\ chosen[0] = g BY <1>2, <1>8
  <2>2. ASSUME NEW i \in 1 .. n
        PROVE  chosen[i] = IF TotalContextTokens(chosen[i - 1], u) > m THEN DropOne(chosen[i - 1]) ELSE chosen[i - 1]
    <3>1. i \in 0 .. n /\ i # 0 BY <1>2
    <3>2. chosen[i] = Body(chosen)[i] BY <1>8, Zenon
    <3>3. QED BY <3>1, <3>2, Zenon
  <2>3. QED BY <2>1, <2>2
<1> HIDE DEF Body, V
<1> DEFINE Round(c, i) ==
              /\ RestOf(c, g)
              /\ TotalContextTokens(c, u) <= m \/ Left(c) = 0 \/ Left(c) + i <= all
              /\ Left(c) < all => TotalContextTokens(OneMore(c, g), u) > m
           G == {i \in 0 .. n : Round(chosen[i], i)}
<1>11. 0 \in G
  <2>1. Round(g, 0)
    <3> HIDE DEF all
    <3>1. QED BY <1>1, <1>2
  <2>2. 0 \in 0 .. n
    <3> HIDE DEF n
    <3>1. QED BY <1>2
  <2>3. QED BY <1>10, <2>1, <2>2
<1>12. ASSUME NEW i \in 1 .. n, i - 1 \in G PROVE i \in G
  <2> DEFINE c == chosen[i - 1]
             e == DropOne(c)
  <2>1. Round(c, i - 1) /\ chosen[i] = IF TotalContextTokens(c, u) > m THEN e ELSE c BY <1>10, <1>12
  <2>2. i \in 0 .. n /\ i \in Nat
    <3> HIDE DEF n, G
    <3>1. QED BY <1>2
  <2>3. c \in Contexts /\ TotalContextTokens(c, u) \in Int
    <3>1. c \in Contexts BY <2>1 DEF RestOf
    <3>2. QED BY <3>1, TotalType
  <2>4. /\ RestOf(e, g) /\ Left(c) \in Nat
        /\ Left(c) = 0 => SameTexts(e, c)
        /\ Left(c) > 0 => Left(e) = Left(c) - 1 /\ SameTexts(OneMore(e, g), c)
    BY <2>1, DropKeeps
  <2> HIDE DEF c, e, all, n
  <2>5. CASE ~ (TotalContextTokens(c, u) > m)
    <3>1. chosen[i] = c /\ TotalContextTokens(c, u) <= m BY <2>1, <2>3, <2>5
    <3>2. Round(c, i) BY <2>1, <3>1
    <3> HIDE DEF Round
    <3>3. QED BY <2>2, <3>1, <3>2
  <2>6. CASE TotalContextTokens(c, u) > m /\ Left(c) = 0
    <3>1. e \in Contexts /\ SameTexts(e, c) BY <2>4, <2>6 DEF RestOf
    <3>2. Left(e) = 0 BY <2>6, <3>1, Zenon DEF SameTexts, Left
    <3>3. SameTexts(OneMore(e, g), OneMore(c, g)) BY <2>3, <3>1, SameOneMore
    <3>4. TotalContextTokens(OneMore(e, g), u) = TotalContextTokens(OneMore(c, g), u) BY <3>3, SameTotal
    <3>5. Round(e, i) BY <2>1, <2>4, <2>6, <3>2, <3>4
    <3>6. chosen[i] = e BY <2>1, <2>6
    <3> HIDE DEF Round
    <3>7. QED BY <2>2, <3>5, <3>6
  <2>7. CASE TotalContextTokens(c, u) > m /\ Left(c) # 0
    <3>1. Left(e) = Left(c) - 1 /\ SameTexts(OneMore(e, g), c) BY <2>4, <2>7
    <3>2. TotalContextTokens(OneMore(e, g), u) = TotalContextTokens(c, u) BY <3>1, SameTotal
    <3>3. Left(c) + (i - 1) <= all BY <2>1, <2>3, <2>7
    <3>4. Left(e) + i <= all BY <1>2, <2>2, <2>4, <3>1, <3>3
    <3>5. Round(e, i) BY <2>4, <2>7, <3>2, <3>4
    <3>6. chosen[i] = e BY <2>1, <2>7
    <3> HIDE DEF Round
    <3>7. QED BY <2>2, <3>5, <3>6
  <2>8. QED BY <2>5, <2>6, <2>7
<1>13. n \in G
  <2> HIDE DEF G, n
  <2>1. 0 .. n \subseteq G BY <1>2, <1>11, <1>12, Upward
  <2>2. QED BY <1>2, <2>1
<1>14. Round(d, n) BY <1>9, <1>13
<1>15. Left(d) \in Nat BY <1>14, DropKeeps
<1>16. ~ (Left(d) + n <= all)
  <2>1. n = all + 1 OBVIOUS
  <2> HIDE DEF n, all
  <2>2. QED BY <1>2, <1>15, <2>1
<1>17. QED
  <2> HIDE DEF n, all
  <2>1. QED BY <1>2, <1>14, <1>16

Episodes == [session : Sessions, reply : Replies, createdAt : Nat]
ContextTypes == episodes \in Seq(Episodes) /\ tick \in Nat
ContextInv == ContextTypes /\ ContextSound

LEMMA TextsAreItems ==
    ASSUME ContextTypes, NEW id \in DOMAIN episodes
    PROVE  ToMessage(id) \in Items /\ ToRecalled(id) \in Items
<1>1. episodes[id] \in Episodes /\ id \in Nat BY DEF ContextTypes
<1>2. episodes[id].reply.length \in Nat BY <1>1, ContextAssumption DEF Episodes
<1>3. {HeaderLength, LabelLength, MaxSnippet} \subseteq Nat BY ContextAssumption
<1>4. Snippet(id) \in Nat BY <1>2, <1>3 DEF Snippet
<1> HIDE DEF Snippet
<1>5. IsUntrusted(id) \in BOOLEAN BY DEF IsUntrusted
<1> DEFINE w == episodes[id].reply.role # "assistant" /\ IsUntrusted(id)
<1>6. ToMessage(id) = [id |-> id, wrapped |-> w, length |-> Snippet(id) + IF w THEN HeaderLength ELSE 0]
  BY DEF ToMessage
<1>7. w \in BOOLEAN OBVIOUS
<1> HIDE DEF w
<1>8. (Snippet(id) + IF w THEN HeaderLength ELSE 0) \in Nat BY <1>3, <1>4
<1>9. ToMessage(id) \in Items BY <1>1, <1>6, <1>7, <1>8 DEF Items
<1>10. (LabelLength + Snippet(id) + IF IsUntrusted(id) THEN HeaderLength ELSE 0) \in Nat BY <1>3, <1>4
<1>11. ToRecalled(id) \in Items BY <1>1, <1>5, <1>10 DEF Items, ToRecalled
<1>12. QED BY <1>9, <1>11

LEMMA PicksAre ==
    ASSUME NEW ids, NEW n \in Nat, NEW s \in Picks(ids, n)
    PROVE  s \in Seq(ids)
<1>1. PICK k \in 0 .. n : s \in [1 .. k -> ids] BY DEF Picks
<1>2. k \in Nat OBVIOUS
<1>3. QED BY <1>1, <1>2, SeqDef

LEMMA TailIs ==
    ASSUME ContextTypes, NEW session, NEW n \in Nat, NEW tail \in TailBySession(session, n)
    PROVE  /\ tail \in Seq(DOMAIN episodes)
           /\ ToSet(tail) = {tail[i] : i \in 1 .. Len(tail)} /\ ToSet(tail) \subseteq Of(session)
           /\ \A i, j \in 1 .. Len(tail) : i < j => episodes[tail[i]].createdAt <= episodes[tail[j]].createdAt
           /\ \A i \in 1 .. Len(tail), m \in Of(session) \ ToSet(tail) :
                 episodes[m].createdAt <= episodes[tail[i]].createdAt
<1>1. tail \in Picks(Of(session), n) BY DEF TailBySession
<1>2. tail \in Seq(Of(session)) BY <1>1, PicksAre
<1>3. DOMAIN tail = 1 .. Len(tail) BY <1>2
<1>4. Of(session) \subseteq DOMAIN episodes BY DEF Of
<1>5. tail \in Seq(DOMAIN episodes)
  <2> DEFINE O == Of(session)
             D == DOMAIN episodes
  <2>1. O \subseteq D /\ tail \in Seq(O) BY <1>2, <1>4
  <2> HIDE DEF O, D
  <2>2. tail \in Seq(D) BY <2>1
  <2>3. QED BY <2>2 DEF D
<1>6. ToSet(tail) = {tail[i] : i \in 1 .. Len(tail)} BY <1>3 DEF ToSet
<1>7. \A i \in 1 .. Len(tail) : tail[i] \in Of(session) BY <1>2
<1>8. ToSet(tail) \subseteq Of(session) BY <1>6, <1>7
<1>9. QED BY <1>3, <1>5, <1>6, <1>8 DEF TailBySession

\* What comes before a kept message and is not kept is not newer or is a tool's.
LEMMA EndIsGapless ==
    ASSUME ContextTypes, NEW session, NEW n \in Nat, NEW tail \in TailBySession(session, n),
           NEW spoken, spoken = Kept(tail, {id \in DOMAIN episodes : episodes[id].reply.role # "tool"}),
           NEW a \in Nat, a >= 1, NEW y \in 1 .. Len(spoken), y >= a,
           NEW other \in Of(session),
           \A z \in 1 .. Len(spoken) : z >= a => spoken[z] # other,
           episodes[other].createdAt > episodes[spoken[y]].createdAt
    PROVE  episodes[other].reply.role = "tool"
<1> DEFINE T == {id \in DOMAIN episodes : episodes[id].reply.role # "tool"}
           D == DOMAIN episodes
<1>1. /\ tail \in Seq(D)
      /\ ToSet(tail) = {tail[i] : i \in 1 .. Len(tail)} /\ ToSet(tail) \subseteq Of(session)
      /\ \A i, j \in 1 .. Len(tail) : i < j => episodes[tail[i]].createdAt <= episodes[tail[j]].createdAt
      /\ \A i \in 1 .. Len(tail), m \in Of(session) \ ToSet(tail) :
            episodes[m].createdAt <= episodes[tail[i]].createdAt
  BY TailIs
<1>2. other \in D BY DEF Of
<1>3. ASSUME NEW i \in D PROVE episodes[i].createdAt \in Nat
  <2>1. episodes[i] \in Episodes BY DEF ContextTypes
  <2>2. QED BY <2>1 DEF Episodes
<1>4. other \in T \/ episodes[other].reply.role = "tool" BY <1>2
<1>5. spoken = Kept(tail, T) OBVIOUS
<1> HIDE DEF T, D
<1>6. PICK p \in [1 .. Len(spoken) -> 1 .. Len(tail)] :
         /\ PlacesKept(p, spoken, tail)
         /\ \A m \in 1 .. Len(tail) : tail[m] \in T => \E i \in 1 .. Len(spoken) : p[i] = m
  <2>1. \E p \in [1 .. Len(Kept(tail, T)) -> 1 .. Len(tail)] :
           /\ PlacesKept(p, Kept(tail, T), tail)
           /\ \A m \in 1 .. Len(tail) : tail[m] \in T => \E i \in 1 .. Len(Kept(tail, T)) : p[i] = m
    BY <1>1, KeptOrder
  <2>2. QED BY <1>5, <2>1, Zenon
<1>7. spoken[y] = tail[p[y]] /\ p[y] \in 1 .. Len(tail) BY <1>6 DEF PlacesKept
<1>8. spoken[y] \in D BY <1>1, <1>7
<1>9. SUFFICES ASSUME other \in T PROVE FALSE BY <1>4
<1>10. other \in ToSet(tail)
  <2>1. SUFFICES ASSUME other \notin ToSet(tail) PROVE FALSE OBVIOUS
  <2>2. episodes[other].createdAt <= episodes[tail[p[y]]].createdAt BY <1>1, <1>7, <2>1
  <2>3. QED BY <1>2, <1>3, <1>7, <1>8, <2>2
<1>11. PICK m \in 1 .. Len(tail) : tail[m] = other BY <1>1, <1>10
<1>12. PICK z \in 1 .. Len(spoken) : p[z] = m BY <1>6, <1>9, <1>11
<1>13. spoken[z] = other BY <1>6, <1>11, <1>12 DEF PlacesKept
<1>14. z < y
  <2>1. ~ (z >= a) BY <1>13
  <2>2. z \in Int /\ y \in Int OBVIOUS
  <2>3. QED BY <2>1, <2>2
<1>15. p[z] < p[y] BY <1>6, <1>14 DEF PlacesKept
<1>16. episodes[tail[p[z]]].createdAt <= episodes[tail[p[y]]].createdAt BY <1>1, <1>7, <1>12, <1>15
<1>17. QED BY <1>2, <1>3, <1>7, <1>8, <1>11, <1>12, <1>16

LEMMA BuildIsSound ==
    ASSUME ContextTypes, NEW session, NEW config \in ContextConfigs, NEW u \in UserLengths,
           NEW rows \in KnowledgeLists, BuildSessionContext(session, config, u, rows), episodes' = episodes
    PROVE  ContextSound'
<1> DEFINE D == DOMAIN episodes
           T == {id \in D : episodes[id].reply.role # "tool"}
<1>1. config.dialogTail \in Nat /\ config.recallK \in Nat /\ config.maxTokens \in Int /\ u \in Nat /\ rows \in Seq(Nat)
  BY ContextAssumption
<1>2. PICK tail \in TailBySession(session, config.dialogTail),
           found \in Picks(D, IF u >= MinQuery THEN config.recallK ELSE 0) :
         LET recalled == Kept(found, D \ ToSet(tail))
             gathered == [hits |-> [i \in DOMAIN recalled |-> ToRecalled(recalled[i])],
                          history |-> EpisodesToMessages(tail), rows |-> rows, trimmed |-> FALSE]
             sent == TrimContextToBudget(gathered, u, config.maxTokens)
         IN turn' = [session |-> session, config |-> config, gathered |-> gathered, sent |-> sent,
                     estimatedTokens |-> TotalContextTokens(sent, u), user |-> u]
  BY Zenon DEF BuildSessionContext
<1> DEFINE spoken == Kept(tail, T)
           recalled == Kept(found, D \ ToSet(tail))
           gathered == [hits |-> [i \in DOMAIN recalled |-> ToRecalled(recalled[i])],
                        history |-> EpisodesToMessages(tail), rows |-> rows, trimmed |-> FALSE]
           sent == TrimContextToBudget(gathered, u, config.maxTokens)
<1>3. turn' = [session |-> session, config |-> config, gathered |-> gathered, sent |-> sent,
               estimatedTokens |-> TotalContextTokens(sent, u), user |-> u]
  BY <1>2
<1>4. /\ tail \in Seq(D)
      /\ ToSet(tail) = {tail[i] : i \in 1 .. Len(tail)} /\ ToSet(tail) \subseteq Of(session)
  BY <1>1, TailIs
<1>5. found \in Seq(D)
  <2>1. (IF u >= MinQuery THEN config.recallK ELSE 0) \in Nat BY <1>1
  <2> HIDE DEF D
  <2>2. QED BY <2>1, PicksAre
<1>6. spoken \in Seq(D \cap T) /\ recalled \in Seq(D \cap (D \ ToSet(tail)))
  <2> HIDE DEF D, T
  <2>1. QED BY <1>4, <1>5, KeptType
<1>7. EpisodesToMessages(tail) = [i \in DOMAIN spoken |-> ToMessage(spoken[i])] BY Zenon DEF EpisodesToMessages
<1> HIDE DEF spoken, recalled
<1>8. /\ Len(spoken) \in Nat /\ DOMAIN spoken = 1 .. Len(spoken) /\ \A i \in 1 .. Len(spoken) : spoken[i] \in D
      /\ Len(recalled) \in Nat /\ DOMAIN recalled = 1 .. Len(recalled)
      /\ \A i \in 1 .. Len(recalled) : recalled[i] \in D /\ recalled[i] \notin ToSet(tail)
  <2> HIDE DEF D, T
  <2>1. QED BY <1>6
<1>9. ASSUME NEW i \in 1 .. Len(spoken) PROVE spoken[i] \in ToSet(tail)
  <2>1. spoken = Kept(tail, T) BY DEF spoken
  <2> HIDE DEF D, T
  <2>2. \E p \in [1 .. Len(Kept(tail, T)) -> 1 .. Len(tail)] : PlacesKept(p, Kept(tail, T), tail)
    BY <1>4, KeptOrder
  <2>3. PICK p \in [1 .. Len(spoken) -> 1 .. Len(tail)] : PlacesKept(p, spoken, tail) BY <2>1, <2>2, Zenon
  <2>4. spoken[i] = tail[p[i]] /\ p[i] \in 1 .. Len(tail) BY <2>3 DEF PlacesKept
  <2>5. QED BY <1>4, <2>4
<1>10. gathered \in Contexts
  <2>1. ASSUME NEW id \in D PROVE ToMessage(id) \in Items /\ ToRecalled(id) \in Items BY TextsAreItems
  <2> DEFINE h == [i \in DOMAIN recalled |-> ToRecalled(recalled[i])]
             m == [i \in DOMAIN spoken |-> ToMessage(spoken[i])]
  <2>2. h \in [1 .. Len(recalled) -> Items] /\ m \in [1 .. Len(spoken) -> Items] BY <1>8, <2>1
  <2> HIDE DEF h, m
  <2>3. h \in Seq(Items) /\ m \in Seq(Items) BY <1>8, <2>2, SeqDef
  <2>4. gathered = [hits |-> h, history |-> m, rows |-> rows, trimmed |-> FALSE] BY <1>7 DEF h, m
  <2> HIDE DEF gathered
  <2>5. QED BY <1>1, <2>3, <2>4 DEF Contexts
<1>11. /\ gathered.hits = [i \in 1 .. Len(recalled) |-> ToRecalled(recalled[i])]
       /\ gathered.history = [i \in 1 .. Len(spoken) |-> ToMessage(spoken[i])]
       /\ gathered.rows = rows
  BY <1>7, <1>8
<1> HIDE DEF gathered
<1>12. /\ RestOf(sent, gathered)
       /\ TotalContextTokens(sent, u) <= config.maxTokens \/ Left(sent) = 0
       /\ Left(sent) < Left(gathered) => TotalContextTokens(OneMore(sent, gathered), u) > config.maxTokens
  BY <1>1, <1>10, TrimSound
<1> HIDE DEF sent
<1>13. sent \in Contexts /\ sent.hits \in Seq(Items) /\ sent.history \in Seq(Items) BY <1>12 DEF RestOf, Contexts
<1>14. /\ DOMAIN sent.hits = 1 .. Len(sent.hits)
       /\ \A i \in 1 .. Len(sent.hits) : i \in 1 .. Len(recalled) /\ sent.hits[i] = ToRecalled(recalled[i])
  <2> DEFINE n == Len(sent.hits)
             gh == gathered.hits
  <2>1. n \in Nat /\ DOMAIN sent.hits = 1 .. n BY <1>13
  <2>2. gh \in Seq(Items) /\ Len(gh) = Len(recalled) /\ \A i \in 1 .. Len(recalled) : gh[i] = ToRecalled(recalled[i])
    <3>1. gh \in Seq(Items) BY <1>10 DEF Contexts
    <3>2. QED BY <1>8, <1>11, <3>1
  <2>3. n <= Len(gh) /\ sent.hits = SubSeq(gh, 1, n) BY <1>12 DEF RestOf, Beginning
  <2> HIDE DEF n, gh
  <2>4. \A i \in 1 .. n : sent.hits[i] = gh[i] BY <1>8, <2>1, <2>2, <2>3, SubSeqProperties
  <2>5. \A i \in 1 .. n : i \in 1 .. Len(recalled) BY <1>8, <2>1, <2>2, <2>3
  <2>6. QED BY <2>1, <2>2, <2>4, <2>5 DEF n
<1>15. PICK a \in Nat :
          /\ a >= 1 /\ DOMAIN sent.history = 1 .. Len(sent.history)
          /\ \A i \in 1 .. Len(sent.history) :
                a + i - 1 \in 1 .. Len(spoken) /\ sent.history[i] = ToMessage(spoken[a + i - 1])
          /\ \A z \in 1 .. Len(spoken) : z >= a => \E i \in 1 .. Len(sent.history) : a + i - 1 = z
  <2> DEFINE n == Len(sent.history)
             gh == gathered.history
             a == Len(gh) - n + 1
             l == Len(spoken)
  <2>1. n \in Nat /\ DOMAIN sent.history = 1 .. n BY <1>13
  <2>2. gh \in Seq(Items) /\ Len(gh) = l /\ \A i \in 1 .. l : gh[i] = ToMessage(spoken[i])
    <3>1. gh \in Seq(Items) BY <1>10 DEF Contexts
    <3>2. QED BY <1>8, <1>11, <3>1
  <2>3. n <= Len(gh) /\ sent.history = SubSeq(gh, a, Len(gh)) BY <1>12 DEF RestOf, Ending
  <2>4. l \in Nat BY <1>8
  <2> HIDE DEF n, gh, l
  <2>5. a \in Nat /\ a >= 1 /\ Len(gh) = a + n - 1 /\ a <= Len(gh) + 1 BY <2>1, <2>2, <2>3, <2>4
  <2> HIDE DEF a
  <2>6. \A i \in 1 .. n : a + i - 1 \in 1 .. l BY <2>1, <2>2, <2>4, <2>5
  <2>7. \A i \in 1 .. n : sent.history[i] = gh[a + i - 1]
    <3>1. \A i \in 1 .. Len(gh) - a + 1 : SubSeq(gh, a, Len(gh))[i] = gh[a + i - 1]
      BY <2>2, <2>4, <2>5, SubSeqProperties
    <3>2. Len(gh) - a + 1 = n BY <2>1, <2>5
    <3>3. QED BY <2>3, <3>1, <3>2
  <2>8. ASSUME NEW z \in 1 .. l, z >= a PROVE \E i \in 1 .. n : a + i - 1 = z
    <3>1. z - a + 1 \in 1 .. n /\ a + (z - a + 1) - 1 = z BY <2>1, <2>2, <2>4, <2>5, <2>8
    <3>2. QED BY <3>1
  <2>9. \A i \in 1 .. n : sent.history[i] = ToMessage(spoken[a + i - 1]) BY <2>2, <2>6, <2>7
  <2>10. QED BY <2>1, <2>5, <2>6, <2>8, <2>9 DEF n, l
<1>16. \A id : ToMessage(id).id = id /\ ToRecalled(id).id = id BY DEF ToMessage, ToRecalled
<1>17. /\ IdsOf(sent.hits) = {recalled[i] : i \in 1 .. Len(sent.hits)}
       /\ IdsOf(sent.history) = {spoken[a + i - 1] : i \in 1 .. Len(sent.history)}
  <2>1. \A i \in 1 .. Len(sent.hits) : sent.hits[i].id = recalled[i] BY <1>14, <1>16
  <2>2. \A i \in 1 .. Len(sent.history) : sent.history[i].id = spoken[a + i - 1] BY <1>15, <1>16
  <2>3. IdsOf(sent.hits) = {sent.hits[i].id : i \in 1 .. Len(sent.hits)} BY <1>14 DEF IdsOf
  <2>4. IdsOf(sent.history) = {sent.history[i].id : i \in 1 .. Len(sent.history)} BY <1>15 DEF IdsOf
  <2>5. IdsOf(sent.hits) = {recalled[i] : i \in 1 .. Len(sent.hits)} BY <2>1, <2>3
  <2>6. IdsOf(sent.history) = {spoken[a + i - 1] : i \in 1 .. Len(sent.history)} BY <2>2, <2>4, Zenon
  <2>7. QED BY <2>5, <2>6
<1>18. IdsOf(sent.history) \subseteq ToSet(tail) BY <1>9, <1>15, <1>17
<1>19. IdsOf(sent.hits) \cap IdsOf(sent.history) = {} BY <1>8, <1>14, <1>17, <1>18
<1>20. ASSUME NEW id \in IdsOf(sent.history), NEW other \in Of(session) \ IdsOf(sent.history),
              episodes[other].createdAt > episodes[id].createdAt
       PROVE  episodes[other].reply.role = "tool"
  <2>1. PICK i \in 1 .. Len(sent.history) : id = spoken[a + i - 1] BY <1>17
  <2> DEFINE y == a + i - 1
  <2>2. y \in 1 .. Len(spoken) /\ y >= a /\ id = spoken[y] BY <1>15, <2>1
  <2>3. ASSUME NEW z \in 1 .. Len(spoken), z >= a PROVE spoken[z] # other BY <1>15, <1>17, <2>3
  <2>4. spoken = Kept(tail, T) BY DEF spoken
  <2> HIDE DEF y
  <2>5. other \in Of(session) /\ episodes[other].createdAt > episodes[spoken[y]].createdAt BY <1>20, <2>2
  <2>6. /\ config.dialogTail \in Nat /\ tail \in TailBySession(session, config.dialogTail)
        /\ a \in Nat /\ a >= 1 /\ y \in 1 .. Len(spoken) /\ y >= a
    BY <1>1, <1>15, <2>2
  <2> HIDE DEF T
  <2>7. spoken = Kept(tail, {id_1 \in DOMAIN episodes : episodes[id_1].reply.role # "tool"}) BY <2>4 DEF T
  <2>8. QED BY <2>3, <2>5, <2>6, <2>7, EndIsGapless, Zenon
<1>21. ASSUME NEW m \in ToSet(sent.hits) \cup ToSet(sent.history)
       PROVE  /\ episodes[m.id].reply.role = "quarantine" => m.wrapped
              /\ episodes[m.id].reply.provenance = "quarantine" =>
                     m.wrapped \/ (episodes[m.id].reply.role = "assistant" /\ m.id \in IdsOf(sent.history))
  <2>1. CASE m \in ToSet(sent.hits)
    <3>1. PICK i \in 1 .. Len(sent.hits) : m = sent.hits[i] BY <1>14, <2>1 DEF ToSet
    <3>2. m = ToRecalled(recalled[i]) BY <1>14, <3>1
    <3>3. m.id = recalled[i] /\ m.wrapped = IsUntrusted(recalled[i]) BY <3>2 DEF ToRecalled
    <3>4. QED BY <3>3 DEF IsUntrusted
  <2>2. CASE m \in ToSet(sent.history)
    <3>1. PICK i \in 1 .. Len(sent.history) : m = sent.history[i] BY <1>15, <2>2 DEF ToSet
    <3>2. m = ToMessage(spoken[a + i - 1]) BY <1>15, <3>1
    <3>3. m.id = spoken[a + i - 1] /\ m.id \in IdsOf(sent.history) BY <1>16, <1>17, <3>2
    <3> DEFINE id == spoken[a + i - 1]
    <3>4. m.wrapped = (episodes[id].reply.role # "assistant" /\ IsUntrusted(id)) BY <3>2 DEF ToMessage
    <3> HIDE DEF id
    <3>5. m.id = id BY <3>3 DEF id
    <3>6. QED BY <3>3, <3>4, <3>5 DEF IsUntrusted
  <2>3. QED BY <2>1, <2>2
<1>22. /\ sent.hits # <<>> => sent.history = gathered.history /\ sent.rows = gathered.rows
       /\ sent.history # <<>> => sent.rows = gathered.rows
  BY <1>12, Zenon DEF RestOf
<1>23. /\ turn'.session = session /\ turn'.config = config /\ turn'.gathered = gathered /\ turn'.sent = sent
       /\ turn'.estimatedTokens = TotalContextTokens(sent, u) /\ turn'.user = u
  BY <1>3
<1>24. InBudget(turn.sent)'
  <2>1. turn'.estimatedTokens <= turn'.config.maxTokens \/ Left(turn'.sent) = 0 BY <1>12, <1>23, Zenon
  <2>2. Left(turn'.sent) < Left(turn'.gathered) =>
           TotalContextTokens(OneMore(turn'.sent, turn'.gathered), turn'.user) > turn'.config.maxTokens
    BY <1>12, <1>23, Zenon
  <2>3. QED BY <2>1, <2>2, Zenon DEF InBudget
<1>25. Gapless(turn.sent)' BY <1>20, <1>23, Zenon DEF Gapless, Of
<1>26. Fenced(turn.sent)' BY <1>21, <1>23, Zenon DEF Fenced
<1>27. (IdsOf(turn.sent.history) \subseteq Of(turn.session))' BY <1>4, <1>18, <1>23 DEF Of
<1>28. QED
  BY <1>19, <1>22, <1>23, <1>24, <1>25, <1>26, <1>27, Zenon DEF ContextSound

\* The budget, the order of dropping, the fences and what is where, of every context.
THEOREM ContextsAreSound == ContextSpec => []ContextSound
<1>1. ContextInit => ContextInv
  BY DEF ContextInit, ContextInv, ContextTypes, ContextSound, NoTurn
<1>2. ContextInv /\ [ContextNext]_contextVars => ContextInv'
  <2> SUFFICES ASSUME ContextInv, [ContextNext]_contextVars PROVE ContextInv' OBVIOUS
  <2>1. ContextTypes BY DEF ContextInv
  <2>2. ASSUME NEW session \in Sessions, NEW reply \in Replies, EpisodeAppend(session, reply) PROVE ContextInv'
    <3> DEFINE e == [session |-> session, reply |-> reply, createdAt |-> tick]
    <3>1. e \in Episodes BY <2>1 DEF Episodes, ContextTypes
    <3>2. episodes' = Append(episodes, e) /\ turn' = NoTurn /\ tick' = tick BY <2>2 DEF EpisodeAppend
    <3> HIDE DEF e
    <3>3. ContextTypes' BY <2>1, <3>1, <3>2 DEF ContextTypes
    <3>4. ContextSound' BY <3>2 DEF ContextSound
    <3>5. QED BY <3>3, <3>4 DEF ContextInv
  <2>3. CASE TickPasses
    <3>1. ContextTypes' BY <2>1, <2>3 DEF ContextTypes, TickPasses
    <3>2. ContextSound' BY <2>3 DEF ContextSound, TickPasses
    <3>3. QED BY <3>1, <3>2 DEF ContextInv
  <2>4. ASSUME NEW session \in Sessions, NEW config \in ContextConfigs, NEW u \in UserLengths,
               NEW rows \in KnowledgeLists, ContextDisabled(session, config, u, rows), UNCHANGED <<episodes, tick>>
        PROVE  ContextInv'
    <3>1. ContextTypes' BY <2>1, <2>4 DEF ContextTypes
    <3>2. ~ turn'.config.enabled BY <2>4 DEF ContextDisabled
    <3>3. ContextSound' BY <3>2, Zenon DEF ContextSound
    <3>4. QED BY <3>1, <3>3 DEF ContextInv
  <2>5. ASSUME NEW session \in Sessions, NEW config \in ContextConfigs, NEW u \in UserLengths,
               NEW rows \in KnowledgeLists, BuildSessionContext(session, config, u, rows), UNCHANGED <<episodes, tick>>
        PROVE  ContextInv'
    <3>1. ContextTypes' BY <2>1, <2>5 DEF ContextTypes
    <3>2. ContextSound' BY <2>1, <2>5, BuildIsSound
    <3>3. QED BY <3>1, <3>2 DEF ContextInv
  <2>6. CASE UNCHANGED contextVars
    <3>1. episodes' = episodes /\ tick' = tick /\ turn' = turn BY <2>6 DEF contextVars
    <3>2. ContextTypes' BY <2>1, <3>1 DEF ContextTypes
    <3>3. ContextSound'
      <4>1. ContextSound BY DEF ContextInv
      <4>2. QED BY <3>1, <4>1, Zenon DEF ContextSound, InBudget, Gapless, Fenced, Of
    <3>4. QED BY <3>2, <3>3 DEF ContextInv
  <2>7. QED BY <2>2, <2>3, <2>4, <2>5, <2>6 DEF ContextNext
<1>3. ContextInv => ContextSound BY DEF ContextInv
<1>4. QED BY <1>1, <1>2, <1>3, PTL DEF ContextSpec
=============================================================================
