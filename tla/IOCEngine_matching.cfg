\* Three processes on two PIDs: a PID can pass from a parent to another process.
CONSTANTS
    Pids = {p1, p2}
    MaxProcesses = 3
    PageSize = 2
    MaxChanges = 1
    MaxFaults = 1
SPECIFICATION MCSpec
INVARIANTS
    NoMatchMissed
    ParentsTrue
PROPERTY
    MatchTold
