\* Two concurrent requests of either kind, a lesson added at any time, faults anywhere.
SPECIFICATION FairSpec
CONSTANTS
    Lessons = {l1, l2, l3}
    Initial = {l1, l2}
    Workers = {w1, w2}
    Kinds = {"mark", "view"}
    FetchAttempts = 3
    EmitAttempts = 5
    MaxRequests = 3
    MaxFaults = 3
    MaxDrops = 1
INVARIANTS
    TypeOK
    CompletedJustified
    StartedIsCompleted
    MarksTrigger
PROPERTIES
    CompletedStays
    StartedIsAnnounced
CHECK_DEADLOCK FALSE
