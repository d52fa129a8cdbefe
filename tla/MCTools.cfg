SPECIFICATION ToolsSpec
CONSTANTS
    Null = Null
    p1 = p1
    p2 = p2
    Runs = {r1, r2}
    Paths = {p1, p2}
    Texts <- MCTexts
    Requests <- MCRequests
    MaxFaults = 2
    MaxCrashes = 1
    MaxOthers = 1
    GlobOrder <- MCGlobOrder
    GlobTrees <- MCGlobTrees
    GlobPatterns <- MCGlobPatterns
    GlobCalls <- MCGlobCalls
    MaxCollected = 3
    ProbePaths <- MCProbePaths
    MaxMtime = 2
    MaxGlobChanges = 1
    WatchCalls <- MCWatchCalls
    WatchKinds = {"add", "change", "unlink"}
    MaxSeen = 3
    Extractions = {x1}
    Orders <- MCOrders
    Dest <- MCDest
    TreePaths <- MCTreePaths
    Unset = Unset
    MaxHops = 2
    MaxDiskFaults = 1
    MaxIntrusions = 2
    ShellCalls = {s1}
    CommandLines <- MCCommandLines
    Split <- MCSplit
    Base <- MCBase
    Plain <- MCPlain
    Lower <- MCLower
    Has <- MCHas
    Hardline <- MCHardline
    Dangerous <- MCDangerous
    FileNames = {"/w/halt", "/w/view", "/w/list"}
    MaxGlobMatches = 2
    Nil = Nil
    MaxShellFaults = 1
    MaxFileChanges = 3
    WebCalls = {w1}
    WebRequests <- MCWebRequests
    WebConfigs <- MCWebConfigs
    Responses <- MCResponses
    DnsAnswers <- MCDns
    HostNames <- MCHostNames
    NoUrl = NoUrl
    ProviderUrls <- MCProviderUrls
    CacheTtl = 1
    CacheSize = 1
    MaxClock = 1
    MaxDnsChanges = 1
    MaxCurlFaults = 1
    Pids = {1, 2}
    Away = {away}
    NumberOf <- MCNumberOf
    Launches = {l1, l2}
    NoPid = NoPid
    Settings <- MCSettings
    MaxBirths = 1
    MaxShutdowns = 1
    MaxBrowserFaults = 1
INVARIANTS
    TempsRemoved
    ReportsTrue
    GlobFinds
    WatchTells
    ExtractionHonest
    GuardedRun
    RunsAsShown
    HopsAreGuarded
    SearchHonest
    BrowsersAreKept
PROPERTY
    AsApproved
SYMMETRY Symmetric
CHECK_DEADLOCK FALSE
