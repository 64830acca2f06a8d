---------------------------- MODULE RateLimiter ----------------------------
(***************************************************************************)
(* SlidingWindowRateLimiter.check over the shared cache client: the times  *)
(* of the requests of a key that were let in, read and written back as one *)
(* value by two calls with an await before each.  Checks of one key overlap*)
(* freely, in one process and between processes that share Redis.          *)
(*                                                                         *)
(* Time is counted in ticks; every registered window is a whole number of  *)
(* seconds, so the time to live of the value is the window.                *)
(*                                                                         *)
(* Init, Next and Spec are prefixed: RequestGuardProofs extends this       *)
(* module, Idempotency and CircuitBreaker together.                        *)
(***************************************************************************)
EXTENDS Integers, Sequences, FiniteSets

CONSTANTS
    Key,          \* clients, as getRateLimitKey tells them apart
    Check,        \* callers of check
    maxRequests,
    windowMs,
    LastTick      \* bound: time stops here

ASSUME ConfigAssumption ==
    maxRequests \in Nat \ {0} /\ windowMs \in Nat \ {0} /\ LastTick \in Nat

VARIABLES
    time,      \* Date.now()
    store,     \* the cache: the times of a key and when the value expires
    locals,    \* the locals of each check
    recorded,  \* history: how many requests of a key were recorded at each time
    spoilt     \* history: when a write of a key last undid a write it had not seen

limiterVars == <<time, store, locals, recorded, spoilt>>

Time == 0 .. LastTick
Times == {s \in Seq(Time) : Len(s) <= maxRequests}

\* pc names the cache call a check awaits; a denied check keeps its answer.
\* No variables of the code: unseen, the key was written since the check read
\* it; owed, a denial had promised that a call at this time would be let in,
\* and nobody has written the key since.
Locals ==
    [pc : {"idle", "get", "set", "denied"}, key : Key, at : -1 .. LastTick,
     timestamps : Times, resetAt : 0 .. LastTick + windowMs,
     unseen : BOOLEAN, owed : BOOLEAN]

LimiterTypeOK ==
    /\ time \in Time
    /\ store \in [Key -> [value : Times, expiresAt : 0 .. LastTick + windowMs]]
    /\ locals \in [Check -> Locals]
    /\ recorded \in [Key -> [Time -> Nat]]
    /\ spoilt \in [Key -> -windowMs .. LastTick]

LimiterInit ==
    /\ time = 0
    /\ store = [k \in Key |-> [value |-> <<>>, expiresAt |-> 0]]
    /\ locals \in [Check -> {[pc |-> "idle", key |-> k, at |-> -1, timestamps |-> <<>>,
                              resetAt |-> 0, unseen |-> FALSE, owed |-> FALSE] : k \in Key}]
    /\ recorded = [k \in Key |-> [t \in Time |-> 0]]
    /\ spoilt = [k \in Key |-> -windowMs]

\* get: an expired value is no value.
Cached(k) == IF time > store[k].expiresAt THEN <<>> ELSE store[k].value

\* filter: the times after a moment, in their order.
After(timestamps, moment) ==
    LET Kept[i \in 0 .. Len(timestamps)] ==
          IF i = 0 THEN <<>>
          ELSE IF timestamps[i] > moment THEN Append(Kept[i - 1], timestamps[i])
          ELSE Kept[i - 1]
    IN  Kept[Len(timestamps)]

\* Mutant: the last time is kept one tick longer.
InWindow_Inclusive(timestamps, at) == After(timestamps, at - windowMs - 1)

\* Mutant: the whole value counts, as a window that starts over with each write would.
InWindow_Whole(timestamps, at) == timestamps

\* The times that are inside the window of a check that began at a time.
InWindow(timestamps, at) == After(timestamps, at - windowMs)

\* Mutant: the limit is passed by one.
Full_OffByOne(timestamps) == Len(timestamps) > maxRequests

Full(timestamps) == Len(timestamps) >= maxRequests
-----------------------------------------------------------------------------
Promised(k) == \E q \in Check : /\ locals[q].pc = "denied" /\ locals[q].key = k
                                /\ ~locals[q].unseen /\ locals[q].resetAt <= time

\* check is called: it takes the time and asks the cache.  A caller calls at
\* most once in a tick.
check(r) ==
    /\ locals[r].pc \in {"idle", "denied"} /\ locals[r].at < time
    /\ locals' = [locals EXCEPT ![r] =
          [@ EXCEPT !.pc = "get", !.at = time, !.timestamps = <<>>, !.resetAt = 0,
                    !.unseen = FALSE, !.owed = Promised(locals[r].key)]]
    /\ UNCHANGED <<time, store, recorded, spoilt>>

\* The cache answers: denied until the first time of the list leaves the window,
\* or on to record this request.
Read(r) ==
    LET me == locals[r]
        live == InWindow(Cached(me.key), me.at)
    IN  /\ me.pc = "get"
        /\ locals' = [locals EXCEPT ![r] =
              IF Full(live)
              THEN [@ EXCEPT !.pc = "denied", !.resetAt = Head(live) + windowMs]
              ELSE [@ EXCEPT !.pc = "set", !.timestamps = live]]
        /\ UNCHANGED <<time, store, recorded, spoilt>>

\* What other checks of the key do not know once it has been written.
Written(k) ==
    [q \in Check |-> IF locals[q].key # k \/ locals[q].pc = "idle" THEN locals[q]
                     ELSE [locals[q] EXCEPT !.unseen = locals[q].pc \in {"set", "denied"},
                                            !.owed = FALSE]]

\* set lands and the request is let in.  (Or set lands and the caller is told
\* that it failed: the request is answered with an error and is still recorded.)
LetIn(r) ==
    LET me == locals[r] k == me.key
    IN  /\ me.pc = "set"
        /\ store' = [store EXCEPT ![k] = [value |-> Append(me.timestamps, me.at),
                                          expiresAt |-> time + windowMs]]
        /\ locals' = [Written(k) EXCEPT ![r] =
              [me EXCEPT !.pc = "idle", !.timestamps = <<>>, !.unseen = FALSE, !.owed = FALSE]]
        /\ recorded' = [recorded EXCEPT ![k][me.at] = @ + 1]
        /\ spoilt' = [spoilt EXCEPT ![k] = IF me.unseen THEN time ELSE @]
        /\ UNCHANGED time

\* A call of the cache fails without effect: check throws.
Fail(r) ==
    /\ locals[r].pc \in {"get", "set"}
    /\ locals' = [locals EXCEPT ![r] =
          [@ EXCEPT !.pc = "idle", !.timestamps = <<>>, !.unseen = FALSE, !.owed = FALSE]]
    /\ UNCHANGED <<time, store, recorded, spoilt>>

LimiterTick ==
    time < LastTick /\ time' = time + 1 /\ UNCHANGED <<store, locals, recorded, spoilt>>

LimiterNext ==
    LimiterTick \/ \E r \in Check : check(r) \/ Read(r) \/ LetIn(r) \/ Fail(r)

LimiterSpec == LimiterInit /\ [][LimiterNext]_limiterVars
-----------------------------------------------------------------------------
\* The requests of a key that were recorded after a moment, one by one.
Recorded(k, since) ==
    UNION {{t} \X (1 .. recorded[k][t]) : t \in {u \in Time : u > since}}

\* Whatever checks overlap and whatever calls fail, nobody is turned away
\* unless as many other requests of the same client were recorded in the
\* window before: check writes back what it read and its own time, never
\* more.
DeniedForCause ==
    \A r \in Check : locals[r].pc = "denied" =>
        Cardinality(Recorded(locals[r].key, locals[r].at - windowMs)) >= maxRequests

\* Overlapping checks lose each other's times and let too many in, but only
\* for one window: a window that began after the last such loss holds at most
\* maxRequests requests, however late single answers of the cache came.
LimitHoldsAgain ==
    \A k \in Key : spoilt[k] <= time - windowMs =>
        Cardinality(Recorded(k, time - windowMs)) <= maxRequests

\* A client that is turned away and comes back at resetAt is let in, unless
\* another request of the key was recorded after the denial: the first time
\* of the list has left the window then, also when overlapping checks have
\* left the list unsorted.
WaitIsEnough == \A r \in Check : locals[r].pc = "denied" => ~locals[r].owed
=============================================================================
