--------------------------- MODULE QuorumDecision ---------------------------
(***************************************************************************)
(* What a multi-signature authority promises, whoever keeps the books: a   *)
(* matter is decided at most once, and only while enough of the members of *)
(* that moment have endorsed it.  Membership and the number of             *)
(* endorsements needed may change between any two steps; an endorsement,   *)
(* once given, stays on record.                                            *)
(***************************************************************************)
EXTENDS Naturals

CONSTANTS
    Matter,  \* what can be decided
    Voter    \* who may ever be a member

VARIABLES
    members,   \* the voters whose endorsement counts now
    need,      \* endorsements each matter needs now
    endorsed,  \* the voters that have endorsed each matter
    decisions  \* how often each matter has been decided

qvars == <<members, need, endorsed, decisions>>

QInit ==
    /\ members \in SUBSET Voter
    /\ need \in [Matter -> Nat \ {0}]
    /\ endorsed \in [Matter -> SUBSET Voter]
    /\ decisions \in [Matter -> {0, 1}]

\* The first endorsement of a matter may also settle how many it needs.
Endorse(m, v) ==
    /\ v \in members
    /\ v \notin endorsed[m]
    /\ decisions[m] = 0
    /\ endorsed' = [endorsed EXCEPT ![m] = @ \cup {v}]
    /\ need' \in [Matter -> Nat \ {0}]
    /\ \A k \in Matter : k # m \/ endorsed[m] # {} => need'[k] = need[k]
    /\ UNCHANGED <<members, decisions>>

\* n different voters have endorsed the matter and are members now.
Backed(m, n) ==
    \E backer \in [1 .. n -> endorsed[m] \cap members] :
       \A i, j \in 1 .. n : backer[i] = backer[j] => i = j

Decide(m) ==
    /\ decisions[m] = 0
    /\ Backed(m, need[m])
    /\ decisions' = [decisions EXCEPT ![m] = 1]
    /\ UNCHANGED <<members, need, endorsed>>

Reconfigure ==
    /\ members' \in SUBSET Voter
    /\ need' \in [Matter -> Nat \ {0}]
    /\ UNCHANGED <<endorsed, decisions>>

QNext ==
    \/ \E m \in Matter : Decide(m) \/ \E v \in Voter : Endorse(m, v)
    \/ Reconfigure

QSpec == QInit /\ [][QNext]_qvars
=============================================================================
