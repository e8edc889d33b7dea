---------------------------- MODULE MCColdStart ----------------------------
(***************************************************************************)
(* One student with one enrollment, loads, pages and test events.          *)
(***************************************************************************)
EXTENDS TestEvents

MCStudentOf == [e \in Enrollments |-> CHOOSE s \in Students : TRUE]
=============================================================================
