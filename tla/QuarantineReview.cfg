CONSTANTS
    s1 = s1
    e1 = e1
    o1 = o1
    o2 = o2
    Students = {s1}
    Enrollments = {e1}
    StudentOf <- OneStudentOf
    Operators = {o1, o2}
    Kinds = {"ok"}
    PageSize = 2
    MaxEvents = 3
    MaxUnproductive = 0
    MaxInterventions = 1
SPECIFICATION ReviewSpec
SYMMETRY OperatorSymmetry
INVARIANTS
    EnrollmentsResolve
    EachReleaseResolvesOneRow
    ReleaseAloneForksLineage
    DeletionsStayUnlessReleased
PROPERTY
    ResolvedOnceUnlessRaced
CHECK_DEADLOCK FALSE
