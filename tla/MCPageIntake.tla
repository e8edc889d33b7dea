---------------------------- MODULE MCPageIntake ----------------------------
(***************************************************************************)
(* Two students and an enrollment of the first; raw events of every fate.  *)
(***************************************************************************)
EXTENDS PageIntake

MCStudentOf == [e \in {"e1"} |-> "s1"]

Person(action, key, data) == [word |-> "person", action |-> action, key |-> key, data |-> data]

Enrolled(action, data) == [word |-> "enrollment", action |-> action, key |-> "e1", data |-> data]

MCRaws ==
    {Person(a, "s1", "fine") : a \in {"created", "updated", "deleted"}}
    \cup {Person(a, "s2", "fine") : a \in {"created", "deleted"}}
    \cup {Person("updated", "s1", d) : d \in {"no_name", "odd_grade", "teacher"}}
    \cup {Enrolled("created", d) : d \in {"fine", "ends_first", "no_date"}}
=============================================================================
