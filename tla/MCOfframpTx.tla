---------------------------- MODULE MCOfframpTx ----------------------------
(***************************************************************************)
(* Small instances of OfframpTx: requests are interchangeable.  A client   *)
(* creates a pending transaction, one that was completed elsewhere, or one *)
(* that failed by a timeout, and later marks progress or writes a status   *)
(* (one of them unknown to the table), an error, a date or a timestamp.    *)
(***************************************************************************)
EXTENDS OfframpTx, TLC

Pending == [status |-> "pending", payoutStatus |-> "none", error |-> "none",
            bridge |-> FALSE, order |-> FALSE, timestamp |-> 0, finalizedAt |-> Nil]

MCBodies == {Pending,
             [Pending EXCEPT !.status = "completed", !.finalizedAt = -1],
             [Pending EXCEPT !.status = "failed", !.error = "timed out", !.bridge = TRUE]}

MCEdits == {[bridge |-> TRUE], [order |-> TRUE],
            [status |-> "pending"], [status |-> "completed"], [status |-> "cancelled"],
            [status |-> "failed", error |-> "timed out"],
            [finalizedAt |-> -1, timestamp |-> 1]}

MCSymmetry == Permutations(Request)
=============================================================================
