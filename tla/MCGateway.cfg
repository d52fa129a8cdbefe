SPECIFICATION GatewaySpec
CONSTANTS
    None = None
    Junk = Junk
    Keys = {k1}
    Requests = {r1, r2}
    Policies <- MCPolicies
    Models <- MCModels
    Endpoints = {"chat", "images"}
    EnvRate = Junk
    HourCount = 3
    MaxTime = 1
    MaxChanges = 2
    MaxTargets = 1
    Gateways = {"a", "b", "c"}
    Ids = {"a", "b", "c"}
    NoId = NoId
    Federations <- MCFederations
    HeaderCap = 4
    MaxUnmarked = 2
    Sessions = {s1, s2}
    Replies <- MCReplies
    KnowledgeLists <- MCKnowledgeLists
    UserLengths = {2, 3}
    ContextConfigs <- MCContextConfigs
    BaseLength = 4
    HeaderLength = 2
    LabelLength = 1
    MaxSnippet = 8
    MinQuery = 3
    MaxEpisodes = 3
    MaxTick = 1
    Null = Null
    Callers = {c1, c2, c3}
    Estimates = {0, 1}
    MaxUsage = 2
    Configs <- MCConfigs
    DayLength = 1
    MaxClock = 1
INVARIANTS
    RoutingNeverWidens
    ChargedOnce
    FailClosed
    ScheduleIsInterval
    NoRevisit
    ContextSound
    TypeOK
    OvershootBounded
    ExhaustedMarked
PROPERTIES
    PeersAnswer
    DayIsFixed
CHECK_DEADLOCK FALSE
