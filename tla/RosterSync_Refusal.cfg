CONSTANTS
    s1 = s1
    s2 = s2
    e1 = e1
    Students = {s1}
    Enrollments = {e1}
    StudentOf <- OneStudentOf
    Kinds = {"ok"}
    PageSize = 2
    MaxEvents = 3
    MaxUnproductive = 0
    MaxInterventions = 1
SPECIFICATION Spec
INVARIANT
    OnlyNewerSyncRefuses
CHECK_DEADLOCK FALSE
