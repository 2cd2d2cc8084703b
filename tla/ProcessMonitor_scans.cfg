\* Two PIDs for three processes, so that PIDs are used again.
CONSTANTS
    Pids = {p1, p2}
    MaxProcesses = 3
    MaxFaults = 1
SPECIFICATION FairSpec
INVARIANTS
    NothingSlipsBy
    OneAlertPerLife
    CachedIsTold
PROPERTY
    EventuallyRaised
