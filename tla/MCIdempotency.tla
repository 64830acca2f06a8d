--------------------------- MODULE MCIdempotency ---------------------------
(***************************************************************************)
(* Small instances of Idempotency: attempts with one payload, and one that *)
(* reuses the key for another.                                             *)
(***************************************************************************)
EXTENDS Idempotency, TLC

CONSTANTS r1, r2, r3, r4

MCRequest == {r1, r2, r3, r4}
MCHashOf == (r1 :> "h1") @@ (r2 :> "h1") @@ (r3 :> "h1") @@ (r4 :> "h2")
MCSymmetry == Permutations({r1, r2, r3})
=============================================================================
