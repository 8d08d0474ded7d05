\* Two requests at a time, no fault: a progress view completes the enrollment silently.
SPECIFICATION Spec
CONSTANTS
    Lessons = {l1, l2}
    Initial = {l1, l2}
    Workers = {w1, w2}
    Kinds = {"mark", "view"}
    FetchAttempts = 3
    EmitAttempts = 5
    MaxRequests = 3
    MaxFaults = 0
    MaxDrops = 0
INVARIANTS
    CompletedIsTriggered
CHECK_DEADLOCK FALSE
