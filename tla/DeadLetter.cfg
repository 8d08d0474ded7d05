\* certificate and analytics on one topic: each reprocessor also reads the letters of the other.
CONSTANTS
    certificate = certificate
    analytics = analytics
    m1 = m1
    m2 = m2
    Services = {certificate, analytics}
    Topics = {"enrollment.completed"}
    TopicOf <- SharedTopic
    Messages = {m1}
    Poison = {}
    MaxRetries = 1
    MaxDlqAttempts = 3
    MaxPublished = 1
    MaxFaults = 1
SPECIFICATION Spec
INVARIANTS
    TypeOK
    RetryCountBounded
    LettersBounded
    NothingVanishes
SYMMETRY ServiceSymmetry
CHECK_DEADLOCK FALSE
