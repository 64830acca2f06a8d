------------------------------ MODULE Polling ------------------------------
(***************************************************************************)
(* usePollingManager: each call of start follows one transaction, first    *)
(* over a WebSocket and, once that has closed, by requests with backoff.   *)
(* The calls of one hook instance share its refs (stopped, the current     *)
(* request, the visibility handler, the sleeper, the socket), and all      *)
(* calls share the inFlight map, in which a request for an id aborts the   *)
(* one before it.                                                          *)
(*                                                                         *)
(* JavaScript runs one task at a time and the awaiting code that a task    *)
(* wakes before the next task: a call with wake set goes on before any     *)
(* event (Quiet).  The owner's start and stop are plain calls and may come *)
(* several in one task, before what they wake goes on.                     *)
(***************************************************************************)
EXTENDS Naturals

CONSTANTS
    Hook, Call, Id,
    For,                  \* [Call -> Id]: the transaction it follows
    MaxConsecutiveErrors, \* PollingConfig
    None

ASSUME CallsAssumption == For \in [Call -> Id] /\ None \notin Call \cup Hook
ASSUME ErrorsAssumption == MaxConsecutiveErrors \in Nat \ {0}

VARIABLES
    call,      \* the locals of each call of start, its socket and its request
    hook,      \* the refs of each hook instance
    inFlight,  \* the call whose request is on record for an id, or None
    hidden     \* document.visibilityState

vars == <<call, hook, inFlight, hidden>>

\* pc "ws" waits for the socket, "paused" for the tab, "sleeping" for the
\* timer, "fetching" for the answer.  late: maxTotalDurationMs has passed.
\* disturbed is no variable of the code: another call of the same hook was
\* still running, or its socket still closing, beside this one.
Calls == [owner : Hook \cup {None},
          pc : {"idle", "ws", "fetching", "sleeping", "paused", "settled"},
          socket : {"none", "open", "closing", "closed"}, terminal : BOOLEAN,
          paused : BOOLEAN, listening : BOOLEAN, aborted : BOOLEAN, late : BOOLEAN,
          consecutiveErrors : 0 .. MaxConsecutiveErrors, wake : BOOLEAN, disturbed : BOOLEAN]

Refs == [stopped : BOOLEAN, currentController : Call \cup {None},
         visibilityHandler : Call \cup {None}, sleepResolve : Call \cup {None},
         wsCleanup : Call \cup {None}]

TypeOK ==
    /\ call \in [Call -> Calls]
    /\ hook \in [Hook -> Refs]
    /\ inFlight \in [Id -> Call \cup {None}]
    /\ hidden \in BOOLEAN

Idle == [owner |-> None, pc |-> "idle", socket |-> "none", terminal |-> FALSE,
         paused |-> FALSE, listening |-> FALSE, aborted |-> FALSE, late |-> FALSE,
         consecutiveErrors |-> 0, wake |-> FALSE, disturbed |-> FALSE]

Init ==
    /\ call = [c \in Call |-> Idle]
    /\ hook = [h \in Hook |-> [stopped |-> FALSE, currentController |-> None,
                 visibilityHandler |-> None, sleepResolve |-> None, wsCleanup |-> None]]
    /\ inFlight = [i \in Id |-> None]
    /\ hidden = FALSE

Running(c) == call[c].pc \notin {"idle", "settled"}
Quiet == \A c \in Call : ~call[c].wake
-----------------------------------------------------------------------------
(* The pieces of code between two awaits, on the calls cs and the refs r   *)
(* of the hook they belong to                                              *)

\* wsCleanupRef.current?.()
CloseSocket(cs, r) ==
    IF r.wsCleanup # None /\ cs[r.wsCleanup].socket = "open"
    THEN [cs EXCEPT ![r.wsCleanup].socket = "closing"]
    ELSE cs

\* controller.abort() is lost on a request that has ended.
Abort(cs, c) ==
    IF c = None \/ cs[c].pc # "fetching" THEN cs ELSE [cs EXCEPT ![c].aborted = TRUE]

\* sleepResolveRef.current?.()
Wake(cs, r) ==
    IF r.sleepResolve = None THEN cs ELSE [cs EXCEPT ![r.sleepResolve].wake = TRUE]

Settle_LeavesSocket(c, cs, r) ==
    /\ call' = [cs EXCEPT ![c] = [Idle EXCEPT !.owner = cs[c].owner, !.pc = "settled",
                                              !.socket = cs[c].socket,
                                              !.disturbed = cs[c].disturbed]]
    /\ hook' = [hook EXCEPT ![cs[c].owner] =
                  [r EXCEPT !.visibilityHandler = None, !.wsCleanup = None]]

\* The finally block of start; it takes the handler and the socket out of the
\* refs whosever they are.  The locals of a settled call are forgotten.
Settle(c, cs, r) ==
    /\ call' = [d \in Call |->
                  IF d # c THEN CloseSocket(cs, r)[d]
                  ELSE [Idle EXCEPT !.owner = cs[c].owner, !.pc = "settled",
                                    !.socket = CloseSocket(cs, r)[c].socket,
                                    !.disturbed = cs[c].disturbed]]
    /\ hook' = [hook EXCEPT ![cs[c].owner] =
                  [r EXCEPT !.visibilityHandler = None, !.wsCleanup = None]]

Await(c, cs, r, where) ==
    /\ call' = [cs EXCEPT ![c].pc = where]
    /\ hook' = [hook EXCEPT ![cs[c].owner] = [r EXCEPT !.sleepResolve = c]]

\* One request per id: the one on record is aborted.
Fetch(c, cs, r) ==
    LET others == Abort(cs, inFlight[For[c]])
    IN /\ call' = [others EXCEPT ![c].pc = "fetching", ![c].aborted = FALSE]
       /\ hook' = [hook EXCEPT ![cs[c].owner] = [r EXCEPT !.currentController = c]]
       /\ inFlight' = [inFlight EXCEPT ![For[c]] = c]

\* while (!stoppedRef.current) up to its first await
Loop(c, cs, r) ==
    \/ /\ r.stopped \/ cs[c].late
       /\ Settle(c, cs, r)
       /\ UNCHANGED inFlight
    \/ /\ ~r.stopped /\ ~cs[c].late /\ cs[c].paused
       /\ Await(c, cs, r, "paused")
       /\ UNCHANGED inFlight
    \/ /\ ~r.stopped /\ ~cs[c].late /\ ~cs[c].paused
       /\ Fetch(c, cs, r)
-----------------------------------------------------------------------------
(* The owner *)

Unfinished(h) ==
    {c \in Call : call[c].owner = h /\ (Running(c) \/ call[c].socket \in {"open", "closing"})}

\* new WebSocket may throw, and then the requests begin at once.
start(c, h) ==
    /\ call[c].pc = "idle"
    /\ LET cs == [d \in Call |->
                    IF d = c THEN [Idle EXCEPT !.owner = h, !.listening = TRUE,
                                               !.disturbed = Unfinished(h) # {}]
                    ELSE IF d \in Unfinished(h) THEN [call[d] EXCEPT !.disturbed = TRUE]
                    ELSE call[d]]
           r == [hook[h] EXCEPT !.stopped = FALSE, !.visibilityHandler = c]
       IN \/ /\ call' = [cs EXCEPT ![c].pc = "ws", ![c].socket = "open"]
             /\ hook' = [hook EXCEPT ![h] = [r EXCEPT !.wsCleanup = c]]
             /\ UNCHANGED inFlight
          \/ Fetch(c, cs, r)
    /\ UNCHANGED hidden

\* The visibility handler in the ref is removed; another one goes on listening.
Deafened(cs, r) ==
    IF r.visibilityHandler = None THEN cs ELSE [cs EXCEPT ![r.visibilityHandler].listening = FALSE]

Halted_LetsSleep(r) == Deafened(CloseSocket(Abort(call, r.currentController), r), r)

Halted(r) == Wake(Deafened(CloseSocket(Abort(call, r.currentController), r), r), r)

\* stop changes nothing that matters when no call is running.
stop(h) ==
    /\ \E c \in Call : call[c].owner = h /\ Running(c)
    /\ call' = Halted(hook[h])
    /\ hook' = [hook EXCEPT ![h].stopped = TRUE, ![h].wsCleanup = None,
                            ![h].visibilityHandler = None]
    /\ UNCHANGED <<inFlight, hidden>>
-----------------------------------------------------------------------------
(* Events *)

\* A push that is not terminal only informs the caller.
PushTerminal(c) ==
    /\ Quiet /\ call[c].pc = "ws" /\ call[c].socket = "open"
    /\ ~hook[call[c].owner].stopped
    /\ call' = [call EXCEPT ![c].terminal = TRUE, ![c].wake = TRUE]
    /\ UNCHANGED <<hook, inFlight, hidden>>

\* The socket's close event; the ref is emptied whosever socket it holds.
SocketCloses(c) ==
    /\ Quiet /\ call[c].socket \in {"open", "closing"}
    /\ call' = [call EXCEPT ![c].socket = "closed", ![c].wake = call[c].pc = "ws"]
    /\ hook' = [hook EXCEPT ![call[c].owner].wsCleanup = None]
    /\ UNCHANGED <<inFlight, hidden>>

Hide ==
    /\ Quiet /\ ~hidden
    /\ hidden' = TRUE
    /\ call' = [c \in Call |-> [call[c] EXCEPT !.paused = @ \/ call[c].listening]]
    /\ UNCHANGED <<hook, inFlight>>

Show_WakesNobody ==
    /\ Quiet /\ hidden
    /\ hidden' = FALSE
    /\ call' = [c \in Call |-> [call[c] EXCEPT !.paused = @ /\ ~call[c].listening]]
    /\ UNCHANGED <<hook, inFlight>>

Show ==
    /\ Quiet /\ hidden
    /\ hidden' = FALSE
    /\ call' = [c \in Call |->
         [call[c] EXCEPT
            !.paused = @ /\ ~call[c].listening,
            !.wake = \E d \in Call :
                       call[d].listening /\ hook[call[d].owner].sleepResolve = c]]
    /\ UNCHANGED <<hook, inFlight>>

BackoffEnds(c) ==
    /\ Quiet /\ call[c].pc = "sleeping"
    /\ call' = [call EXCEPT ![c].wake = TRUE]
    /\ UNCHANGED <<hook, inFlight, hidden>>

RequestTimeout(c) ==
    /\ Quiet /\ call[c].pc = "fetching" /\ ~call[c].aborted
    /\ call' = [call EXCEPT ![c].aborted = TRUE]
    /\ UNCHANGED <<hook, inFlight, hidden>>

DurationPasses(c) ==
    /\ Running(c) /\ ~call[c].late
    /\ call' = [call EXCEPT ![c].late = TRUE]
    /\ UNCHANGED <<hook, inFlight, hidden>>

TakenOff_Anyones(c) == [inFlight EXCEPT ![For[c]] = None]

\* The request's finally block.
TakenOff(c) ==
    IF inFlight[For[c]] = c THEN [inFlight EXCEPT ![For[c]] = None] ELSE inFlight

\* An aborted request rejects; any other one may answer or fail.
FetchEnds(c, answer) ==
    LET errors == IF answer = "failed" THEN call[c].consecutiveErrors + 1 ELSE 0
        cs == [call EXCEPT ![c].consecutiveErrors = errors, ![c].aborted = FALSE]
        r == hook[call[c].owner]
    IN /\ Quiet /\ call[c].pc = "fetching"
       /\ call[c].aborted => answer = "failed"
       /\ inFlight' = TakenOff(c)
       /\ IF r.stopped \/ errors = MaxConsecutiveErrors \/ answer = "terminal" \/ call[c].late
          THEN Settle(c, cs, r)
          ELSE Await(c, cs, r, "sleeping")
       /\ UNCHANGED hidden
-----------------------------------------------------------------------------
(* What goes on after an await *)

AfterSocket(c) ==
    LET cs == [call EXCEPT ![c].wake = FALSE]
        r == hook[call[c].owner]
    IN /\ call[c].wake /\ call[c].pc = "ws"
       /\ IF r.stopped \/ call[c].terminal
          THEN Settle(c, cs, r) /\ UNCHANGED inFlight
          ELSE Loop(c, cs, r)
       /\ UNCHANGED hidden

AfterSleep(c) ==
    LET cs == [call EXCEPT ![c].wake = FALSE]
        r == [hook[call[c].owner] EXCEPT !.sleepResolve = None]
    IN /\ call[c].wake /\ call[c].pc = "sleeping"
       /\ Loop(c, cs, r)
       /\ UNCHANGED hidden

\* The deadline is not looked at again before the request.
AfterPause(c) ==
    LET cs == [call EXCEPT ![c].wake = FALSE]
        r == [hook[call[c].owner] EXCEPT !.sleepResolve = None]
    IN /\ call[c].wake /\ call[c].pc = "paused"
       /\ \/ r.stopped /\ Settle(c, cs, r) /\ UNCHANGED inFlight
          \/ ~r.stopped /\ cs[c].paused /\ Await(c, cs, r, "paused") /\ UNCHANGED inFlight
          \/ ~r.stopped /\ ~cs[c].paused /\ Fetch(c, cs, r)
       /\ UNCHANGED hidden

GoesOn(c) == AfterSocket(c) \/ AfterSleep(c) \/ AfterPause(c)

Next ==
    \/ \E h \in Hook : stop(h)
    \/ \E c \in Call :
          \/ \E h \in Hook : start(c, h)
          \/ PushTerminal(c) \/ SocketCloses(c)
          \/ BackoffEnds(c) \/ RequestTimeout(c) \/ DurationPasses(c)
          \/ \E answer \in {"more", "terminal", "failed"} : FetchEnds(c, answer)
          \/ GoesOn(c)
    \/ Hide \/ Show

\* Timers fire, awaiting code goes on, an aborted request rejects and a socket
\* that is being closed closes.  A server need not answer, push or hang up.
Fairness ==
    \A c \in Call :
       /\ WF_vars(GoesOn(c))
       /\ WF_vars(BackoffEnds(c)) /\ WF_vars(RequestTimeout(c)) /\ WF_vars(DurationPasses(c))
       /\ WF_vars(call[c].aborted /\ FetchEnds(c, "failed"))
       /\ WF_vars(call[c].socket = "closing" /\ SocketCloses(c))

Spec == Init /\ [][Next]_vars /\ Fairness
-----------------------------------------------------------------------------
(* Properties *)

\* Requirements 4.1 and 4.3 of the inFlight map: whatever calls of whatever
\* hook instances overlap, an id never has two requests that nobody has
\* aborted (lines 194-219).
OneLiveRequest ==
    \A c, d \in Call :
       /\ For[c] = For[d]
       /\ call[c].pc = "fetching" /\ ~call[c].aborted
       /\ call[d].pc = "fetching" /\ ~call[d].aborted
       => c = d

\* A call that had its hook to itself leaves no listener and no open socket
\* behind, however stop, the socket's own closing and its finally block share
\* the cleaning up (stop; the finally block of start).
NothingLeftBehind ==
    \A c \in Call :
       call[c].pc = "settled" /\ ~call[c].disturbed
          => ~call[c].listening /\ call[c].socket # "open"

\* Once a call that has its hook to itself has turned to requests and the tab
\* stays visible, its promise settles: by an answer, by failures or by the
\* total duration, whatever calls elsewhere abort its requests.
Settles ==
    \A c \in Call :
       [](/\ call[c].pc \in {"fetching", "sleeping", "paused"}
          /\ []~hidden
          => <>(call[c].pc = "settled" \/ call[c].disturbed))

\* stop settles the promise of a call that has its hook to itself, wherever it
\* waits and even in a hidden tab, unless the hook is started again.
StopSettles ==
    \A c \in Call :
       [](/\ Running(c)
          /\ [](\E h \in Hook : call[c].owner = h /\ hook[h].stopped)
          => <>(call[c].pc = "settled" \/ call[c].disturbed))
=============================================================================
