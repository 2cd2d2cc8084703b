\* One channel with every kind of record: batches of two out of three.
CONSTANTS
    NumChannels = 1
    Kinds = {"log", "alert", "bad", "other"}
    BatchSize = 2
    MaxRecords = 3
    MaxFaults = 2
SPECIFICATION Spec
INVARIANTS
    BookmarksCover
    NoRepeatInRun
    CheckpointNotReread
    NothingVanishes
PROPERTIES
    DiskMonotone
    ImplementsTail
