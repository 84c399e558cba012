CONSTANTS
    d1 = d1
    d2 = d2
    MaxEvents = 3
    Poison = {1}
    Drainers = {d1, d2}
    BatchSize = 2
    MaxRollbacks = 2
SPECIFICATION FairOutSpec
INVARIANTS
    PublishedIsSent
    RepeatedByRollbackOnly
PROPERTY EventsArePublished
\* Every event is published, or its transaction lost, in the end.
CHECK_DEADLOCK FALSE
