\* Three events: the registration, and changes of the role or deletions that overlap.
CONSTANTS
    course = course
    e1 = e1
    e2 = e2
    e3 = e3
    Services = {course}
    Course = course
    Topics = {"user.profile_updated"}
    TopicOf <- OneTopic
    Messages = {e1, e2, e3}
    Poison = {}
    MaxRetries = 2
    MaxDlqAttempts = 3
    MaxPublished = 3
    MaxFaults = 1
SYMMETRY EventSymmetry
SPECIFICATION ProfileSpec
INVARIANTS
    ProfileTypeOK
    ShadowIsAccount
PROPERTIES
    RevivedOutOfOrder
CHECK_DEADLOCK FALSE
