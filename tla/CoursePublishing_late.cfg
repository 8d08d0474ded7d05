\* Nobody writes the status with PATCH; one attempt times out.
SPECIFICATION Spec
CONSTANTS
    Attempts = 3
    PatchTo = {}
    MaxFaults = 1
    MaxDrops = 0
    MaxEdits = 0
PROPERTIES
    OnlyDraftsArePublished
CHECK_DEADLOCK FALSE
