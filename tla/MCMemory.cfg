SPECIFICATION Spec
CONSTANTS
    Null = Null
    k1 = k1
    k2 = k2
    Births <- MCBirths
    Keys = {k1, k2}
    SummaryKeys = {k2}
    BlankKeys = {k2}
    StaleDates = {0}
    MaxEvidence = 2
    BatchSize = 2
    MaxMerges = 1
    DecayAge = 0
    MaxRows = 2
    MaxUses = 1
    MaxTime = 1
    MaxCrashes = 1
INVARIANTS
    EvidenceBacked
    NoSelfConfirmation
    TransitionsLegal
    JournalLag
    RefutedRecoverable
    DedupKeepsOne
CHECK_DEADLOCK FALSE
