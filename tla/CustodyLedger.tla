---------------------------- MODULE CustodyLedger ----------------------------
(***************************************************************************)
(* What an escrow promises, whatever it stores: a deposit is opened with a *)
(* deadline in the future, and leaves the open state once, either released *)
(* at any time or refunded at or after its deadline.  Nothing else ever    *)
(* happens to it.                                                          *)
(***************************************************************************)
EXTENDS Integers

CONSTANT Id

VARIABLES
    now,   \* the current time
    fate,  \* where each deposit stands
    due    \* the time from which a deposit may be refunded

cvars == <<now, fate, due>>

Fates == {"none", "open", "released", "refunded"}

CInit ==
    /\ now \in Nat
    /\ fate \in [Id -> Fates]
    /\ due \in [Id -> Nat]

Open(id) ==
    /\ fate[id] = "none"
    /\ fate' = [fate EXCEPT ![id] = "open"]
    /\ due' = [due EXCEPT ![id] = due'[id]]
    /\ due'[id] > now
    /\ UNCHANGED now

Release(id) ==
    /\ fate[id] = "open"
    /\ fate' = [fate EXCEPT ![id] = "released"]
    /\ UNCHANGED <<now, due>>

Refund(id) ==
    /\ fate[id] = "open"
    /\ now >= due[id]
    /\ fate' = [fate EXCEPT ![id] = "refunded"]
    /\ UNCHANGED <<now, due>>

Pass ==
    /\ now' > now
    /\ UNCHANGED <<fate, due>>

CNext == Pass \/ \E id \in Id : Open(id) \/ Release(id) \/ Refund(id)

CSpec == CInit /\ [][CNext]_cvars
=============================================================================
