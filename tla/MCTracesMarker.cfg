SPECIFICATION Spec
CONSTANTS
    Null = Null
    Messages = {m1, m2}
    BatchIndices = {0, 1}
    Sizes = {1, 5}
    MarkerSize = 2
    Cap = 4
    MaxSeq = 9
    MaxTurns = 2
    MaxSteps = 1
    MaxBoots = 2
    MaxFaults = 0
INVARIANT MarkerFinal
CHECK_DEADLOCK FALSE
