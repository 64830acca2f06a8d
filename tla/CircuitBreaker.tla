--------------------------- MODULE CircuitBreaker ---------------------------
(***************************************************************************)
(* The circuit breaker around upstream calls                               *)
(* (src/src/lib/circuit-breaker.ts).  execute runs up to the upstream call *)
(* in one step and settles in another, so any number of calls is in flight *)
(* while the state changes under them.                                     *)
(*                                                                         *)
(* Times are kept as the time since openedAt and since a call began, up to *)
(* the limit they are compared with; failures is kept up to the threshold. *)
(* No comparison of the code sees the difference.                          *)
(*                                                                         *)
(* Init, Next and Spec are prefixed: RequestGuardProofs extends this       *)
(* module and Idempotency together.                                        *)
(***************************************************************************)
EXTENDS Integers

CONSTANTS
    Caller,                    \* calls that may be in flight together
    FailureThreshold,
    ResetTimeout,              \* resetTimeoutMs
    HalfOpenSuccessThreshold,
    Timeout,                   \* timeoutMs, 0 for none
    TimerLag,                  \* how late a timer may fire
    None                       \* null, or no call

ASSUME CircuitBreakerAssumption ==
    /\ FailureThreshold \in Nat \ {0}
    /\ HalfOpenSuccessThreshold \in Nat \ {0}
    /\ ResetTimeout \in Nat
    /\ Timeout \in Nat
    /\ TimerLag \in Nat
    /\ None \notin Nat

States == {"CLOSED", "OPEN", "HALF_OPEN"}

\* A call in flight: the state that admitted it and how long ago.
Calls == [admitted : States, age : 0 .. Timeout + TimerLag]

ASSUME NoCallAssumption == None \notin Calls

VARIABLES
    state,
    failures,
    halfOpenSuccesses,
    sinceOpened,        \* the time since openedAt, None when that is null
    calls,              \* the call each caller has in flight, or None
    streak              \* history: settled calls that failed since the last
                        \* that succeeded, or since a reset

breaker == <<state, failures, halfOpenSuccesses, sinceOpened>>
breakerVars == <<breaker, calls, streak>>

-----------------------------------------------------------------------------

Capped(n, limit) == IF n >= limit THEN limit ELSE n

InFlight(c) == calls[c] # None
Settle(c) == calls' = [calls EXCEPT ![c] = None]

BreakerInit ==
    /\ state = "CLOSED"
    /\ failures = 0
    /\ halfOpenSuccesses = 0
    /\ sinceOpened = None
    /\ calls = [c \in Caller |-> None]
    /\ streak = 0

\* Fault: the wait is not compared with resetTimeoutMs.
MayProbe_AtOnce == state = "OPEN"

\* maybeTransitionToHalfOpen finds the wait over.
MayProbe == state = "OPEN" /\ sinceOpened = ResetTimeout

\* execute up to the upstream call; a call rejected while OPEN changes nothing.
Execute(c) ==
    /\ ~InFlight(c)
    /\ state # "OPEN" \/ MayProbe
    /\ IF MayProbe
         THEN state' = "HALF_OPEN" /\ halfOpenSuccesses' = 0
         ELSE UNCHANGED <<state, halfOpenSuccesses>>
    /\ calls' = [calls EXCEPT ![c] = [admitted |-> state', age |-> 0]]
    /\ UNCHANGED <<failures, sinceOpened, streak>>

\* Fault: the counter survives the probe that closes the breaker.
OnSuccess_KeepsCount(c) ==
    /\ InFlight(c)
    /\ Settle(c)
    /\ streak' = 0
    /\ IF state = "HALF_OPEN"
         THEN /\ halfOpenSuccesses' = halfOpenSuccesses + 1
              /\ UNCHANGED failures
              /\ IF halfOpenSuccesses' >= HalfOpenSuccessThreshold
                   THEN state' = "CLOSED" /\ sinceOpened' = None
                   ELSE UNCHANGED <<state, sinceOpened>>
         ELSE failures' = 0 /\ UNCHANGED <<state, halfOpenSuccesses, sinceOpened>>

\* Fault: no success closes a half-open breaker.
OnSuccess_NeverCloses(c) ==
    /\ InFlight(c)
    /\ Settle(c)
    /\ streak' = 0
    /\ failures' = IF state = "HALF_OPEN" THEN failures ELSE 0
    /\ UNCHANGED <<state, halfOpenSuccesses, sinceOpened>>

\* The upstream call resolved: onSuccess.
OnSuccess(c) ==
    /\ InFlight(c)
    /\ Settle(c)
    /\ streak' = 0
    /\ IF state = "HALF_OPEN"
         THEN /\ halfOpenSuccesses' = halfOpenSuccesses + 1
              /\ IF halfOpenSuccesses' >= HalfOpenSuccessThreshold
                   THEN state' = "CLOSED" /\ failures' = 0 /\ sinceOpened' = None
                   ELSE UNCHANGED <<state, failures, sinceOpened>>
         ELSE failures' = 0 /\ UNCHANGED <<state, halfOpenSuccesses, sinceOpened>>

\* Fault: the breaker opens one failure early.
OnFailure_Early(c) ==
    /\ InFlight(c)
    /\ Settle(c)
    /\ failures' = Capped(failures + 1, FailureThreshold)
    /\ streak' = Capped(streak + 1, FailureThreshold)
    /\ IF state = "HALF_OPEN" \/ failures' + 1 >= FailureThreshold
         THEN state' = "OPEN" /\ sinceOpened' = 0
         ELSE UNCHANGED <<state, sinceOpened>>
    /\ UNCHANGED halfOpenSuccesses

\* The upstream call rejected, or was given up: onFailure.
OnFailure(c) ==
    /\ InFlight(c)
    /\ Settle(c)
    /\ failures' = Capped(failures + 1, FailureThreshold)
    /\ streak' = Capped(streak + 1, FailureThreshold)
    /\ IF state = "HALF_OPEN" \/ failures' >= FailureThreshold
         THEN state' = "OPEN" /\ sinceOpened' = 0
         ELSE UNCHANGED <<state, sinceOpened>>
    /\ UNCHANGED halfOpenSuccesses

\* withTimeout: the timer rejects the call.
TimeOut(c) ==
    /\ InFlight(c)
    /\ Timeout > 0
    /\ calls[c].age >= Timeout
    /\ OnFailure(c)

\* reset(): calls in flight go on.
Reset ==
    /\ state' = "CLOSED"
    /\ failures' = 0
    /\ halfOpenSuccesses' = 0
    /\ sinceOpened' = None
    /\ streak' = 0
    /\ UNCHANGED calls

\* The timer of a call fires before it is older than Timeout + TimerLag.
TimePasses ==
    /\ Timeout > 0 => \A c \in Caller : InFlight(c) => calls[c].age < Timeout + TimerLag
    /\ sinceOpened' = IF sinceOpened = None THEN None
                      ELSE Capped(sinceOpened + 1, ResetTimeout)
    /\ calls' = [c \in Caller |->
                    IF InFlight(c)
                    THEN [calls[c] EXCEPT !.age = Capped(@ + 1, Timeout + TimerLag)]
                    ELSE None]
    /\ UNCHANGED <<state, failures, halfOpenSuccesses, streak>>

BreakerNext ==
    \/ \E c \in Caller : Execute(c) \/ OnSuccess(c) \/ OnFailure(c) \/ TimeOut(c)
    \/ Reset
    \/ TimePasses

BreakerSpec == BreakerInit /\ [][BreakerNext]_breakerVars

\* Time passes and timers fire; and the application keeps calling.
FairSpec ==
    /\ BreakerSpec
    /\ WF_breakerVars(TimePasses)
    /\ \A c \in Caller : WF_breakerVars(TimeOut(c)) /\ WF_breakerVars(Execute(c))

-----------------------------------------------------------------------------

\* Types of the fields, and that an open breaker knows since when.
BreakerTypeOK ==
    /\ state \in States
    /\ failures \in 0 .. FailureThreshold
    /\ halfOpenSuccesses \in 0 .. HalfOpenSuccessThreshold
    /\ sinceOpened \in 0 .. ResetTimeout \cup {None}
    /\ state # "CLOSED" => sinceOpened # None
    /\ calls \in [Caller -> Calls \cup {None}]
    /\ streak \in 0 .. FailureThreshold

\* "Number of consecutive failures before opening": a closed breaker has always
\* seen fewer failures in a row than the threshold, however many calls overlap,
\* and it opens at the failure that makes them that many.
OpensAtThreshold ==
    /\ state = "CLOSED" => failures < FailureThreshold
    /\ state = "CLOSED" => failures = streak

\* A closed breaker opens only at the failure that makes FailureThreshold of them
\* in a row; a half-open one only on the failure of a probe, that is of a call it
\* admitted while half open: with a timeout that ends calls within the waiting
\* time, what was admitted before the breaker opened has settled before it probes.
OpensForCause ==
    [][state # "OPEN" /\ state' = "OPEN" =>
          /\ state = "CLOSED" => streak + 1 = FailureThreshold
          /\ state = "HALF_OPEN" =>
                /\ streak' > 0
                /\ \E c \in Caller : /\ InFlight(c) /\ calls[c].admitted = "HALF_OPEN"
                                     /\ calls'[c] = None]_breakerVars

\* Once calls stop failing the breaker closes for good: no interleaving of late
\* answers leaves it open or half open.
Recovers ==
    <>[][~ \E c \in Caller : OnFailure(c)]_breakerVars => <>[](state = "CLOSED")

=============================================================================
