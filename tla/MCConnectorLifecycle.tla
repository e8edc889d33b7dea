------------------------ MODULE MCConnectorLifecycle ------------------------
(***************************************************************************)
(* Two operators who call at the same time for two LEAs, and the worker.   *)
(***************************************************************************)
EXTENDS ConnectorLifecycle, TLC

OperatorSymmetry == Permutations(Operators)
=============================================================================
