SPECIFICATION FairSpec
CONSTANTS
    Backoff = 2
    MaxWait = 2
    MaxFaults = 3
    MaxChanges = 3
INVARIANTS
    CleanCallDelivers
    AnswerTellsDelivery
PROPERTIES
    ImplementsDelivery
    SendingRecovers
