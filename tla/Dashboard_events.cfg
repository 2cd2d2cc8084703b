\* Two ids, so that toasts collide; two or three alerts beyond the first page, so
\* that rows and text nodes leave the list.  The page may have no more to do.
CONSTANTS
    Cap = 1
    Ids = {1, 2}
    MaxAlerts = 3
    MaxFaults = 1
SPECIFICATION FairSpec
CHECK_DEADLOCK FALSE
INVARIANTS
    OneConnection
    CardsCurrent
    NewestFirst
    ListBounded
    NoToastStays
PROPERTY
    ComesBack
