------------------------- MODULE MCQuarantineReview -------------------------
(***************************************************************************)
(* One enrollment that may arrive before its student, and two operators    *)
(* who may pick the same quarantine row.                                   *)
(***************************************************************************)
EXTENDS QuarantineReview, TLC

CONSTANTS s1, e1, o1, o2

OneStudentOf == [e \in {e1} |-> s1]

OperatorSymmetry == Permutations(Operators)
=============================================================================
