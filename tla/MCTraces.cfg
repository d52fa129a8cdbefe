SPECIFICATION TracingSpec
CONSTANTS
    Null = Null
    Messages = {m1, m2}
    BatchIndices = {0, 1}
    Sizes = {1, 5}
    MarkerSize = 2
    Cap = 4
    MaxSeq = 9
    MaxTurns = 2
    MaxSteps = 1
    MaxBoots = 3
    MaxFaults = 2
    Sessions = {s1}
    Tools = {t1}
    Ids = {1}
    Amounts = {0, 2}
    Scores = {8004}
    Sinks = {host, stderr}
    LogLevel = "info"
    NoValue = NoValue
    MaxSamples = 2
    MaxSinkFaults = 1
INVARIANTS
    CallsArePaired
    MessagesBelong
    NoGaps
    CapBounded
    ReportsAddUp
    SinksFollow
CHECK_DEADLOCK FALSE
