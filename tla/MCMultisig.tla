----------------------------- MODULE MCMultisig -----------------------------
(***************************************************************************)
(* Small instances of Multisig.  The lists a caller may pass to init are   *)
(* the empty one, one longer than MaxSigners, one with a duplicate and a   *)
(* legitimate one; limits and values lie on both sides of each other.      *)
(***************************************************************************)
EXTENDS Multisig

CONSTANTS a, b, c

MCLists == {<<>>, <<a, a>>, <<a, b>>, <<a, b, c>>, <<a, b, c, a>>}
MCThresholds == {0, 1, 2, 4}
MCLimits == {-1, 0, 5}
MCValues == {-1, 5, 6}
MCOneList == {<<a, b>>}
MCOneThreshold == {2}
MCNoLimit == {0}
MCOneValue == {5}
=============================================================================
