\* Two PATCH requests, which may write any status.  Four faults: one more than an activity
\* that gives up has attempts.
SPECIFICATION FairSpec
CONSTANTS
    Attempts = 3
    PatchTo = {"draft", "published", "archived"}
    MaxFaults = 4
    MaxDrops = 1
    MaxEdits = 2
INVARIANTS
    TypeOK
    PublishedWasValid
PROPERTIES
    ImplementsLife
    PublishedIsAnnounced
\* The course's life may be over.
CHECK_DEADLOCK FALSE
