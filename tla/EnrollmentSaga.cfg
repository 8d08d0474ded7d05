\* The attempts of the code, faults enough to exhaust them all twice over, two late effects.
CONSTANTS
    EmailAttempts = 3
    EmitAttempts = 5
    CancelAttempts = 5
    TombstoneAttempts = 3
    MaxRuns = 3
    MaxFaults = 16
    MaxLate = 2
SPECIFICATION FairSpec
INVARIANTS
    TypeOK
    EnrollmentKept
PROPERTIES
    EnrolledForGood
    ImplementsSeat
    EveryRunEnds
    FaultsAbsorbed
CHECK_DEADLOCK FALSE
