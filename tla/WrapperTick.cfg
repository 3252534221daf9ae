SPECIFICATION SpecWrapper
CONSTANTS
    Pid = {1, 2, 3}
    Proc = {1, 2, 3, 4}
    NoProc = 0
    MaxSignals = 2
    MaxDrift = 1
INVARIANTS
    WrapperReleases
CHECK_DEADLOCK FALSE
