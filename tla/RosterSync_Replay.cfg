CONSTANTS
    s1 = s1
    s2 = s2
    e1 = e1
    Students = {s1}
    Enrollments = {e1}
    StudentOf <- OneStudentOf
    Kinds = {"ok", "parse", "unmapped", "unparsable"}
    PageSize = 2
    MaxEvents = 3
    MaxUnproductive = 1
    MaxInterventions = 1
SPECIFICATION FairSpec
INVARIANTS
    TypeOK
    EnrollmentsResolve
    NoEventLost
PROPERTIES
    ReplayNeverRegresses
    CatchesUp
CHECK_DEADLOCK FALSE
