SPECIFICATION Spec
CONSTANTS
    Null = Null
    k1 = k1
    k2 = k2
    Births <- MCBirths
    Keys = {k1, k2}
    SummaryKeys = {k2}
    BlankKeys = {k2}
    StaleDates = {}
    MaxEvidence = 3
    BatchSize = 2
    MaxMerges = 1
    DecayAge = 0
    MaxRows = 2
    MaxUses = 0
    MaxTime = 0
    MaxCrashes = 0
INVARIANTS
    MergesCorroboratedOnly
CHECK_DEADLOCK FALSE
