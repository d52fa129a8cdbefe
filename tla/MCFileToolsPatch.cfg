SPECIFICATION Spec
CONSTANTS
    Null = Null
    p1 = p1
    p2 = p2
    Runs = {r1}
    Paths = {p1, p2}
    Texts <- TwoLines
    Requests <- TwoSections
    MaxFaults = 0
    MaxCrashes = 0
    MaxOthers = 0
INVARIANT PatchLands
CHECK_DEADLOCK FALSE
