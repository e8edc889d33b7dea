CONSTANTS
    Students = {s}
    Enrollments = {e}
    StudentOf <- MCStudentOf
    Kinds = {"ok", "left_out", "unparsable"}
    PageSize = 2
    MaxValue = 1
    MaxEvents = 2
    MaxFaulty = 1
    MaxExpired = 1
    TestKinds = {"l4_orphan"}
SPECIFICATION ColdStartSpec
INVARIANT
    StaleForAReason
PROPERTIES
    HeardOrUnknown
    RowsEnd
CHECK_DEADLOCK FALSE
