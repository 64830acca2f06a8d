----------------------------- MODULE MCTreasury -----------------------------
(***************************************************************************)
(* Small instances of Treasury: a u64 of 8 values and an i128 that reaches *)
(* past it, rates in quarters, and tiers on both sides of 2^64.  Accounts  *)
(* are interchangeable.                                                    *)
(***************************************************************************)
EXTENDS Treasury

MCAmounts == {-1, 0, 4, 9}
MCBatches == {<<>>, <<4, 4>>, <<0>>}
MCTiers == {-1, 0, 4, 9}
MCFeeRates == 0 .. 3
MCDefaultSchedule == (0 :> 2) @@ (4 :> 1)
MCSymmetry == Permutations(Address)
=============================================================================
