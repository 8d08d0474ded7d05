\* No fault at all: the two topics are consumed at different speeds.
CONSTANTS
    created = created
    completed = completed
    e1 = e1
    Services = {created, completed}
    Created = created
    Completed = completed
    Topics = {"enrollment.created", "enrollment.completed"}
    TopicOf <- TwoTopics
    Messages = {e1}
    Poison = {}
    MaxRetries = 3
    MaxDlqAttempts = 3
    MaxPublished = 1
    MaxFaults = 0
SPECIFICATION FactsSpec
PROPERTIES
    CompletionsApplied
CHECK_DEADLOCK FALSE
