\* One enrollment, its creation and its completion published twice each at most.
CONSTANTS
    created = created
    completed = completed
    e1 = e1
    Services = {created, completed}
    Created = created
    Completed = completed
    Topics = {"enrollment.created", "enrollment.completed"}
    TopicOf <- TwoTopics
    Messages = {e1}
    Poison = {}
    MaxRetries = 1
    MaxDlqAttempts = 2
    MaxPublished = 2
    MaxFaults = 1
SPECIFICATION FactsSpec
INVARIANTS
    FactsTypeOK
    EventsCounted
    FactsJustified
PROPERTIES
    WritesAsReported
CHECK_DEADLOCK FALSE
