SPECIFICATION FairSpec
CONSTANTS
    Null = Null
    tg = tg
    dc = dc
    web = web
    t1 = t1
    t2 = t2
    h1 = h1
    h2 = h2
    Tokens = {t1}
    Handlers = {h1, h2}
    Sessions <- MCSessions
    ChannelOf <- MCChannelOf
    McpIds = {"mcp.s.t"}
    McpSpecs <- MCMcpSpecs
    Requested = {"mcp.s.t"}
    Settings <- MCSettings
    Ttl = 1
    MaxTime = 2
    MaxCrashes = 1
    MaxChanges = 2
PROPERTY
    SpentOrExpired
CHECK_DEADLOCK FALSE
