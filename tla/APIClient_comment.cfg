SPECIFICATION Spec
CONSTANTS
    Backoff = 2
    MaxWait = 2
    MaxFaults = 1
    MaxChanges = 1
INVARIANT
    NoLoginDuringBackoff
