-------------------------- MODULE MCReconciliation --------------------------
(***************************************************************************)
(* Two LEAs of two entity types; the second keeps still, and is there for  *)
(* the sweep to get to.  A unit of time is about two weeks.                *)
(***************************************************************************)
EXTENDS Reconciliation

MCLeaOrder == <<"l1", "l2">>
MCTypeOrder == <<"students", "enrollments">>
MCMaxEvents == [l1 |-> 2, l2 |-> 0]
=============================================================================
