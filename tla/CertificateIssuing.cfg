\* Two completions of one enrollment, so that both workers race for its certificate,
\* and every kind of fault.
CONSTANTS
    certificate = certificate
    e1 = e1
    e2 = e2
    Services = {certificate}
    Certificate = certificate
    Topics = {"enrollment.completed"}
    TopicOf <- CertificateTopic
    Messages = {e1, e2}
    Poison = {e2}
    MaxRetries = 2
    MaxDlqAttempts = 4
    MaxPublished = 2
    MaxFaults = 2
SPECIFICATION CertFairSpec
INVARIANTS
    CertTypeOK
    AtMostOneCertificate
    HandledIffCertified
    CompletionsCertified
PROPERTIES
    ImplementsDelivery
    EventuallyCertified
CHECK_DEADLOCK FALSE
