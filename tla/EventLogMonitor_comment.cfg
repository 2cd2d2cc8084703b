\* What the comment at the bookmark's update says.
CONSTANTS
    NumChannels = 1
    Kinds = {"log", "bad"}
    BatchSize = 2
    MaxRecords = 2
    MaxFaults = 1
SPECIFICATION Spec
INVARIANT BookmarkAfterProcessing
