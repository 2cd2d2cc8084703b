\* A service can stop and start again, or stop while a resource runs out.
CONSTANTS
    Services = {s1}
    BadPath = {s1}
    NumVolumes = 2
    MaxBytes = 2
    MaxChanges = 3
    MaxFaults = 1
SPECIFICATION MCSpec
INVARIANTS
    OneAlertPerStop
    BytesCountedOnce
PROPERTIES
    StopsTold
    PathTold
    LastingCauseTold
