\* Two requests at a time on a course of two lessons; an announcement that may be repeated.
CONSTANTS
    certificate = certificate
    e1 = e1
    Services = {certificate}
    Certificate = certificate
    Topics = {"enrollment.completed"}
    TopicOf <- CertificateTopic
    Messages = {e1}
    Poison = {}
    MaxRetries = 1
    MaxDlqAttempts = 2
    MaxPublished = 2
    MaxFaults = 1
    Enrollment = e1
    Lessons = {l1, l2}
    Initial = {l1, l2}
    Slots = {w1, w2}
    Kinds = {"mark", "view"}
    FetchAttempts = 2
    EmitAttempts = 2
    MaxRequests = 3
    MaxRequestFaults = 1
    MaxDrops = 1
SPECIFICATION PipeFairSpec
INVARIANTS
    SettledIsCertified
PROPERTIES
    ImplementsCredit
    CompletedIsCertified
CHECK_DEADLOCK FALSE
