CONSTANTS
    Students = {"s1", "s2"}
    Enrollments = {"e1"}
    StudentOf <- MCStudentOf
    Raws <- MCRaws
    PageSize = 2
    MinHistory = 1
    MaxEvents = 4
    MaxJobs = 3
    MaxRetries = 1
SPECIFICATION Spec
INVARIANTS
    LeftOutIsOnRecord
    OrphansTraceBack
PROPERTY
    PopulationDropWarned
CHECK_DEADLOCK FALSE
