---------------------------- MODULE MCPageRaces ----------------------------
(***************************************************************************)
(* Two operators reverting beside the worker.                              *)
(***************************************************************************)
EXTENDS PageRaces, TLC

CONSTANTS k1, k2, o1, o2

Symmetry == Permutations(Keys) \cup Permutations(Operators)
=============================================================================
