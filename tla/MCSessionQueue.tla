--------------------------- MODULE MCSessionQueue ---------------------------
(***************************************************************************)
(* Two receivers over two sessions, so that one may be refused or take the *)
(* other session, and enough messages for a batch to be split.             *)
(***************************************************************************)
EXTENDS SessionQueue

CONSTANTS a, b, r1, r2

=============================================================================
