------------------------ MODULE MCMultisigSettlement ------------------------
(***************************************************************************)
(* One proposal that needs both signers.  The contract drops one, lowers   *)
(* its threshold, and takes the signer back.  A reader that asks twice may *)
(* put the one signer left beside the threshold of two, which is invalid,  *)
(* or both signers beside the threshold of one.                            *)
(***************************************************************************)
EXTENDS MultisigSettlement, TLC

CONSTANTS s1, s2

MCSigner == {s1, s2}
MCConfigured == [signers |-> {s1, s2}, threshold |-> 2]
MCAuthorities == {MCConfigured, [signers |-> {s2}, threshold |-> 1]}
MCReaders == {"none", "whole", "parts"}
MCSymmetry == Permutations(Request)
=============================================================================
