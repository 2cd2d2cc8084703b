\* Two channels and alerts: one is queried, broken or saved while the other is
\* not, and neither starves the other.
CONSTANTS
    NumChannels = 2
    Kinds = {"log", "alert"}
    BatchSize = 2
    MaxRecords = 1
    MaxFaults = 2
SPECIFICATION FairSpec
PROPERTIES
    ImplementsTail
    EventuallyAccounted
