--------------------------- MODULE PriorityQueue ---------------------------
(***************************************************************************)
(* TransactionPriorityQueue: a binary heap in the memory of one process,   *)
(* filled and rearranged through POST /api/queue/manage and emptied by     *)
(* whoever calls dequeue.  Every method runs to its end before another one *)
(* starts, so an action is a method.                                       *)
(*                                                                         *)
(* The array's indexes start at 1 here.  Amounts, payloads and the counts  *)
(* kept for the dashboard are left out.                                    *)
(*                                                                         *)
(* Init, Next and Spec are prefixed: TransactionProofs extends this module *)
(* and OfframpTx together.                                                 *)
(***************************************************************************)
EXTENDS Naturals, SequencesExt

CONSTANTS
    TxId,           \* ids a caller may give; nothing keeps it from repeating one
    Priorities,     \* TransactionPriority, LOW to URGENT
    MaxQueueDepth,  \* getBackpressureLimits
    MaxInflight,
    MaxClock        \* bound of the model: the latest reading of Date.now

ASSUME LimitsAssumption ==
    MaxQueueDepth \in Nat \ {0} /\ MaxInflight \in Nat \ {0} /\ MaxClock \in Nat
ASSUME PrioritiesAssumption == Priorities \subseteq Nat

VARIABLES
    heap,
    inflight,
    clock,     \* the last reading of Date.now
    returned   \* what the last call returned from dequeue, or {}

queueVars == <<heap, inflight, clock, returned>>

QueuedTransaction == [id : TxId, priority : Priorities, enqueuedAt : 0 .. MaxClock]

QueueTypeOK ==
    /\ heap \in Seq(QueuedTransaction)
    /\ inflight \in Nat
    /\ clock \in 0 .. MaxClock
    /\ returned \in {{}} \cup {{e} : e \in QueuedTransaction}

QueueInit == heap = <<>> /\ inflight = 0 /\ clock = 0 /\ returned = {}
-----------------------------------------------------------------------------
(* The heap *)

compare(a, b) ==
    IF a.priority # b.priority THEN a.priority > b.priority ELSE a.enqueuedAt < b.enqueuedAt

Swap(h, i, j) == [h EXCEPT ![i] = h[j], ![j] = h[i]]

\* The passes of a loop, numbered from 1.
Loop(Pass(_, _), s, passes) ==
    LET After[k \in 0 .. passes] == IF k = 0 THEN s ELSE Pass(After[k - 1], k)
    IN  After[passes]

\* One pass of bubbleUp; a pass that has nothing to move changes nothing, as if
\* the loop had ended, so as many passes as there are positions are enough.
Lift(s) ==
    LET parent == s.at \div 2
    IN  IF s.at > 1 /\ compare(s.heap[s.at], s.heap[parent])
        THEN [heap |-> Swap(s.heap, s.at, parent), at |-> parent]
        ELSE s

bubbleUp(h, i) == Loop(LAMBDA s, k : Lift(s), [heap |-> h, at |-> i], i).heap

\* The position among i and its children that goes before the others; a child
\* takes over only if it is strictly before the best seen so far.
Largest(h, i) ==
    LET Better(best, c) == IF c <= Len(h) /\ compare(h[c], h[best]) THEN c ELSE best
    IN  Better(Better(i, 2 * i), 2 * i + 1)

\* One pass of sinkDown; where nothing goes before the entry it stays.
Sink(s) ==
    LET largest == Largest(s.heap, s.at)
    IN  [heap |-> Swap(s.heap, s.at, largest), at |-> largest]

sinkDown(h, i) == Loop(LAMBDA s, k : Sink(s), [heap |-> h, at |-> i], Len(h)).heap

Rebuild_RootOnly(h) == IF Len(h) < 2 THEN h ELSE sinkDown(h, 1)

\* for (i = floor(n / 2) - 1; i >= 0; i--) sinkDown(i)
Rebuild(h) ==
    LET half == Len(h) \div 2
    IN  Loop(LAMBDA g, k : sinkDown(g, half + 1 - k), h, half)

\* for (i = n - 1; i > 0; i--) bubbleUp(i)
LiftAll(h) == Loop(LAMBDA g, k : bubbleUp(g, Len(h) + 1 - k), h, Len(h))
-----------------------------------------------------------------------------
(* The methods *)

WithinBackpressureLimits_DepthOnly == Len(heap) < MaxQueueDepth

\* assertWithinBackpressureLimits does not throw.
WithinBackpressureLimits == Len(heap) < MaxQueueDepth /\ inflight < MaxInflight

\* Two calls may well fall into the same millisecond.
enqueue(id, priority, now) ==
    /\ now \in {clock, clock + 1} /\ now <= MaxClock
    /\ clock' = now
    /\ WithinBackpressureLimits
    /\ heap' = bubbleUp(Append(heap, [id |-> id, priority |-> priority, enqueuedAt |-> now]),
                        Len(heap) + 1)
    /\ returned' = {}
    /\ UNCHANGED inflight

dequeue ==
    /\ heap # <<>>
    /\ heap' = IF Len(heap) = 1
               THEN <<>>
               ELSE sinkDown([Front(heap) EXCEPT ![1] = Last(heap)], 1)
    /\ inflight' = inflight + 1
    /\ returned' = {heap[1]}
    /\ UNCHANGED clock

\* completeInflight, and recordFailure, which calls it.
completeInflight ==
    /\ inflight > 0
    /\ inflight' = inflight - 1
    /\ returned' = {}
    /\ UNCHANGED <<heap, clock>>

FirstOf(id) == SelectInSeq(heap, LAMBDA t : t.id = id)

remove(id) ==
    /\ FirstOf(id) # 0
    /\ heap' = Rebuild(RemoveAt(heap, FirstOf(id)))
    /\ returned' = {}
    /\ UNCHANGED <<inflight, clock>>

overridePriority(id, newPriority) ==
    /\ FirstOf(id) # 0
    /\ heap' = LiftAll(Rebuild([heap EXCEPT ![FirstOf(id)].priority = newPriority]))
    /\ returned' = {}
    /\ UNCHANGED <<inflight, clock>>

QueueNext ==
    \/ \E id \in TxId, p \in Priorities, now \in 0 .. MaxClock : enqueue(id, p, now)
    \/ dequeue
    \/ completeInflight
    \/ \E id \in TxId : remove(id)
    \/ \E id \in TxId, p \in Priorities : overridePriority(id, p)

QueueSpec == QueueInit /\ [][QueueNext]_queueVars
-----------------------------------------------------------------------------
(* Properties *)

\* The limits are looked at when work is admitted and never when it is taken
\* (enqueue, line 120; dequeue, line 129), and each of the two alone may be
\* passed: what is bounded is the waiting and the running work together.
AdmissionBoundsWork == Len(heap) + inflight <= MaxQueueDepth + MaxInflight - 1

GoesBefore(a, b) ==
    \/ a.priority > b.priority
    \/ a.priority = b.priority /\ a.enqueuedAt < b.enqueuedAt

Renamed(e, f) == f = [e EXCEPT !.priority = f.priority]

Bag == INSTANCE PriorityBag WITH
    Entry <- QueuedTransaction, Before <- GoesBefore, Renamed <- Renamed,
    waiting <- ToBag(heap), running <- inflight, handed <- returned

\* Whatever was removed or given another priority before, dequeue hands out an
\* entry that none of the waiting ones goes before, each entry once, and none
\* is lost while the array is rearranged (sinkDown, bubbleUp, remove,
\* overridePriority).
ServesByPriority == Bag!BSpec
=============================================================================
