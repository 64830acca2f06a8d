---------------------------- MODULE PriorityBag ----------------------------
(***************************************************************************)
(* What a priority queue promises, however it keeps its entries: it hands  *)
(* out an entry that no waiting entry goes before, choosing freely among   *)
(* equals, and neither loses nor repeats one.                              *)
(***************************************************************************)
EXTENDS Naturals, BagsExt

CONSTANTS
    Entry,          \* what can wait
    Before(_, _),   \* the order in which entries are to be served
    Renamed(_, _)   \* whether one entry is another with a new priority

VARIABLES
    waiting,  \* bag of entries: its domain is what waits
    running,  \* how many have been handed out and not reported back
    handed    \* the entry handed out by the last step, or {}

bvars == <<waiting, running, handed>>

BInit == waiting = [e \in {} |-> 0] /\ running = 0 /\ handed = {}

Admit(e) ==
    /\ waiting' = BagAdd(waiting, e)
    /\ handed' = {}
    /\ UNCHANGED running

HandOut(e) ==
    /\ e \in DOMAIN waiting
    /\ \A f \in DOMAIN waiting : ~Before(f, e)
    /\ waiting' = BagRemove(waiting, e)
    /\ running' = running + 1
    /\ handed' = {e}

Withdraw(e) ==
    /\ e \in DOMAIN waiting
    /\ waiting' = BagRemove(waiting, e)
    /\ handed' = {}
    /\ UNCHANGED running

Reprioritise(e, f) ==
    /\ e \in DOMAIN waiting
    /\ Renamed(e, f)
    /\ waiting' = BagAdd(BagRemove(waiting, e), f)
    /\ handed' = {}
    /\ UNCHANGED running

Report ==
    /\ running > 0
    /\ running' = running - 1
    /\ handed' = {}
    /\ UNCHANGED waiting

BNext ==
    \/ \E e \in Entry : Admit(e) \/ HandOut(e) \/ Withdraw(e)
    \/ \E e, f \in Entry : Reprioritise(e, f)
    \/ Report

BSpec == BInit /\ [][BNext]_bvars
=============================================================================
