\* Two enrollments of two students; the overview beside the other reports, which share
\* its popular courses.
CONSTANTS
    e1 = e1
    e2 = e2
    c1 = c1
    s1 = s1
    s2 = s2
    Enrollments = {e1, e2}
    Courses = {c1}
    StudentOf <- TwoStudents
    InstructorOf <- OneInstructor
    Servers = {s1, s2}
    Serves <- SplitPaths
    Before <- StartTables
    MaxWrites = 2
SPECIFICATION FairSpec
INVARIANTS
    DashTypeOK
    RatiosExplained
    SeriesExplained
PROPERTIES
    CachesConverge
CHECK_DEADLOCK FALSE
