--------------------------- MODULE MCIdempotency ---------------------------
(***************************************************************************)
(* Four requests with one key, two bodies: enough for a holder, a second   *)
(* one after a discard or a sweep, a reader between them and a mismatch.   *)
(***************************************************************************)
EXTENDS Idempotency, TLC

CONSTANTS r1, r2, r3, r4, h1, h2

TwoBodies == (r1 :> h1) @@ (r2 :> h1) @@ (r3 :> h1) @@ (r4 :> h2)

=============================================================================
