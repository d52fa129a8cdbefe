SPECIFICATION BudgetSpec
CONSTANTS
    Null = Null
    Callers = {c1, c2}
    Estimates = {2}
    MaxUsage = 2
    Configs <- OneConfig
    DayLength = 1
    MaxClock = 1
INVARIANT
    ReserveKept
CHECK_DEADLOCK FALSE
