---------------------------- MODULE MCRosterSync ----------------------------
(***************************************************************************)
(* Instances of RosterSync for TLC: one student and one enrollment of that *)
(* student, which is the least with a referential dependency; a second     *)
(* student where keys must not disturb each other.                         *)
(***************************************************************************)
EXTENDS RosterSyncLedger

CONSTANTS s1, s2, e1

OneStudentOf == [e \in {e1} |-> s1]

=============================================================================
