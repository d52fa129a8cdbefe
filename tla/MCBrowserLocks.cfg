SPECIFICATION BrowserSpec
CONSTANTS
    Pids = {1, 2}
    Away = {}
    NumberOf <- NoNumbers
    Launches = {l1}
    NoPid = NoPid
    Settings <- MCSettings
    MaxBirths = 1
    MaxShutdowns = 0
    MaxBrowserFaults = 0
INVARIANT LivingLocksStay
CHECK_DEADLOCK FALSE
