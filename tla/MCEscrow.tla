------------------------------ MODULE MCEscrow ------------------------------
(***************************************************************************)
(* Small instances of Escrow.  Lengths are a few ledgers; the caller may   *)
(* pass values on both sides of every bound the code checks.               *)
(***************************************************************************)
EXTENDS Escrow

MCAmounts == {0, 5}
MCFeeRates == {0, 100, 101}
MCTimeouts == {0, 1, 3, 4}
=============================================================================
