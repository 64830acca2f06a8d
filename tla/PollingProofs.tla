--------------------------- MODULE PollingProofs ---------------------------
(***************************************************************************)
(* What Polling keeps for any number of hook instances, calls and ids: the *)
(* request that nobody has aborted is the one on record in the inFlight    *)
(* map, so that there is at most one for an id; and a call that had its    *)
(* hook to itself cleans up behind it.                                     *)
(***************************************************************************)
EXTENDS Polling, TLAPS

\* A call that has begun has an owner.
Good == {s \in Calls : s.pc # "idle" => s.owner \in Hook}

\* One failure more and a call that still runs is within its limit.
Low(s) == s.pc \notin {"idle", "settled"} => s.consecutiveErrors < MaxConsecutiveErrors

Live(s) == s.pc = "fetching" /\ ~s.aborted

\* The inductive part of OneLiveRequest.
OnRecord == \A c \in Call : Live(call[c]) => inFlight[For[c]] = c

Inv ==
    /\ call \in [Call -> Good]
    /\ \A c \in Call : Low(call[c])
    /\ hook \in [Hook -> Refs]
    /\ inFlight \in [Id -> Call \cup {None}]
    /\ hidden \in BOOLEAN
    /\ OnRecord

\* The inductive invariant is at least as strong as what the runs check.
LEMMA InvImplies == Inv => TypeOK /\ OneLiveRequest
<1> SUFFICES ASSUME Inv PROVE TypeOK /\ OneLiveRequest
  OBVIOUS
<1>1. call \in [Call -> Calls]
  BY DEF Inv, Good
<1>2. OneLiveRequest
  BY DEF Inv, OnRecord, Live, OneLiveRequest
<1> QED
  BY <1>1, <1>2 DEF Inv, TypeOK

LEMMA IdleGood == Idle \in Good
  BY ErrorsAssumption DEF Idle, Good, Calls

LEMMA InitInv == Init => Inv
<1> SUFFICES ASSUME Init PROVE Inv
  OBVIOUS
<1>1. call \in [Call -> Good]
  BY IdleGood DEF Init
<1>2. hook \in [Hook -> Refs]
  BY DEF Init, Refs
<1>3. OnRecord /\ \A c \in Call : Low(call[c])
  BY DEF Init, Idle, OnRecord, Live, Low
<1> QED
  BY <1>1, <1>2, <1>3 DEF Init, Inv
-----------------------------------------------------------------------------
(* The pieces of code *)

\* What one call does to the record of another one.
Tamer(s, t) ==
    /\ t.pc = s.pc
    /\ t.consecutiveErrors = s.consecutiveErrors
    /\ s.aborted => t.aborted

LEMMA TamerKeeps ==
  ASSUME NEW s, NEW t, Tamer(s, t)
  PROVE  (Low(s) => Low(t)) /\ (Live(t) => Live(s))
  BY DEF Tamer, Low, Live

\* A flag may change at any time.
LEMMA FlagsGood ==
  ASSUME NEW s \in Good, NEW b \in BOOLEAN
  PROVE  /\ [s EXCEPT !.wake = b] \in Good
         /\ [s EXCEPT !.listening = b] \in Good
         /\ [s EXCEPT !.paused = b] \in Good
         /\ [s EXCEPT !.late = b] \in Good
         /\ [s EXCEPT !.aborted = b] \in Good
         /\ [s EXCEPT !.terminal = b] \in Good
         /\ [s EXCEPT !.disturbed = b] \in Good
         /\ Tamer(s, [s EXCEPT !.wake = b]) /\ Tamer(s, [s EXCEPT !.listening = b])
         /\ Tamer(s, [s EXCEPT !.paused = b]) /\ Tamer(s, [s EXCEPT !.late = b])
         /\ Tamer(s, [s EXCEPT !.terminal = b]) /\ Tamer(s, [s EXCEPT !.disturbed = b])
         /\ b => Tamer(s, [s EXCEPT !.aborted = b])
  BY DEF Good, Calls, Tamer

LEMMA CloseSocketTame ==
  ASSUME NEW cs \in [Call -> Good], NEW r \in Refs
  PROVE  /\ CloseSocket(cs, r) \in [Call -> Good]
         /\ \A d \in Call : Tamer(cs[d], CloseSocket(cs, r)[d])
<1>1. CASE r.wsCleanup # None /\ cs[r.wsCleanup].socket = "open"
  <2> DEFINE w == r.wsCleanup
  <2>1. w \in Call /\ CloseSocket(cs, r) = [cs EXCEPT ![w] = [cs[w] EXCEPT !.socket = "closing"]]
    BY <1>1 DEF CloseSocket, Refs
  <2>2. [cs[w] EXCEPT !.socket = "closing"] \in Good
        /\ Tamer(cs[w], [cs[w] EXCEPT !.socket = "closing"])
    BY <2>1 DEF Good, Calls, Tamer
  <2> QED
    BY <2>1, <2>2 DEF Tamer
<1>2. CASE ~(r.wsCleanup # None /\ cs[r.wsCleanup].socket = "open")
  BY <1>2 DEF CloseSocket, Tamer
<1> QED
  BY <1>1, <1>2

LEMMA AbortTame ==
  ASSUME NEW cs \in [Call -> Good], NEW c \in Call \cup {None}
  PROVE  /\ Abort(cs, c) \in [Call -> Good]
         /\ \A d \in Call : Tamer(cs[d], Abort(cs, c)[d])
         /\ c \in Call => ~Live(Abort(cs, c)[c])
<1>1. CASE c \in Call /\ cs[c].pc = "fetching"
  <2>1. Abort(cs, c) = [cs EXCEPT ![c] = [cs[c] EXCEPT !.aborted = TRUE]]
    BY <1>1, CallsAssumption DEF Abort
  <2>2. /\ [cs[c] EXCEPT !.aborted = TRUE] \in Good
        /\ Tamer(cs[c], [cs[c] EXCEPT !.aborted = TRUE])
    BY <1>1, FlagsGood
  <2>3. ~Live([cs[c] EXCEPT !.aborted = TRUE])
    BY <1>1 DEF Live, Good, Calls
  <2> QED
    BY <1>1, <2>1, <2>2, <2>3 DEF Tamer
<1>2. CASE ~(c \in Call /\ cs[c].pc = "fetching")
  BY <1>2, CallsAssumption DEF Abort, Live, Tamer
<1> QED
  BY <1>1, <1>2

LEMMA WakeTame ==
  ASSUME NEW cs \in [Call -> Good], NEW r \in Refs
  PROVE  /\ Wake(cs, r) \in [Call -> Good]
         /\ \A d \in Call : Tamer(cs[d], Wake(cs, r)[d])
<1>1. CASE r.sleepResolve # None
  <2> DEFINE s == r.sleepResolve
  <2>1. s \in Call /\ Wake(cs, r) = [cs EXCEPT ![s] = [cs[s] EXCEPT !.wake = TRUE]]
    BY <1>1 DEF Wake, Refs
  <2>2. /\ [cs[s] EXCEPT !.wake = TRUE] \in Good
        /\ Tamer(cs[s], [cs[s] EXCEPT !.wake = TRUE])
    BY <2>1, FlagsGood
  <2> QED
    BY <2>1, <2>2 DEF Tamer
<1> QED
  BY <1>1 DEF Wake, Tamer

LEMMA DeafenedTame ==
  ASSUME NEW cs \in [Call -> Good], NEW r \in Refs
  PROVE  /\ Deafened(cs, r) \in [Call -> Good]
         /\ \A d \in Call : Tamer(cs[d], Deafened(cs, r)[d])
<1>1. CASE r.visibilityHandler # None
  <2> DEFINE v == r.visibilityHandler
  <2>1. v \in Call /\ Deafened(cs, r) = [cs EXCEPT ![v] = [cs[v] EXCEPT !.listening = FALSE]]
    BY <1>1 DEF Deafened, Refs
  <2>2. /\ [cs[v] EXCEPT !.listening = FALSE] \in Good
        /\ Tamer(cs[v], [cs[v] EXCEPT !.listening = FALSE])
    BY <2>1, FlagsGood
  <2> QED
    BY <2>1, <2>2 DEF Tamer
<1> QED
  BY <1>1 DEF Deafened, Tamer

\* The situation in which a piece of the call c runs, on the records cs: the
\* others are as they were, or tamer.
Midway(c, cs) ==
    /\ cs \in [Call -> Good]
    /\ cs[c].owner \in Hook
    /\ \A d \in Call \ {c} : Tamer(call[d], cs[d])

\* No request is live but those on record.
LEMMA SettleInv ==
  ASSUME Inv, NEW c \in Call, NEW cs, Midway(c, cs), NEW r \in Refs, Settle(c, cs, r),
         UNCHANGED hidden, inFlight' \in [Id -> Call \cup {None}],
         \A d \in Call \ {c} : Live(call[d]) => inFlight'[For[d]] = d
  PROVE  Inv'
<1> DEFINE closed == CloseSocket(cs, r)
           end == [Idle EXCEPT !.owner = cs[c].owner, !.pc = "settled",
                               !.socket = closed[c].socket, !.disturbed = cs[c].disturbed]
<1>1. closed \in [Call -> Good] /\ \A d \in Call : Tamer(cs[d], closed[d])
  BY CloseSocketTame DEF Midway
<1>2. call' = [d \in Call |-> IF d # c THEN closed[d] ELSE end]
  BY DEF Settle
<1>3. end \in Good /\ ~Live(end) /\ Low(end)
  BY <1>1, IdleGood DEF Midway, Good, Calls, Idle, Live, Low
<1>4. call' \in [Call -> Good]
  BY <1>1, <1>2, <1>3
<1>5. \A d \in Call \ {c} : Tamer(call[d], call'[d])
  BY <1>1, <1>2 DEF Midway, Tamer
<1>6. \A d \in Call : Low(call'[d])
  BY <1>2, <1>3, <1>5, TamerKeeps DEF Inv
<1>7. OnRecord'
  BY <1>2, <1>3, <1>5, TamerKeeps DEF OnRecord
<1>8. hook' \in [Hook -> Refs]
  BY DEF Settle, Refs, Inv
<1> QED
  BY <1>4, <1>6, <1>7, <1>8 DEF Inv

LEMMA AwaitInv ==
  ASSUME Inv, NEW c \in Call, NEW cs, Midway(c, cs), NEW r \in Refs,
         cs[c].consecutiveErrors < MaxConsecutiveErrors,
         NEW where \in {"sleeping", "paused"}, Await(c, cs, r, where),
         UNCHANGED hidden, inFlight' \in [Id -> Call \cup {None}],
         \A d \in Call \ {c} : Live(call[d]) => inFlight'[For[d]] = d
  PROVE  Inv'
<1> DEFINE s == [cs[c] EXCEPT !.pc = where]
<1>1. call' = [cs EXCEPT ![c] = s]
  BY DEF Await
<1>2. s \in Good /\ ~Live(s) /\ Low(s)
  BY DEF Midway, Good, Calls, Live, Low
<1>3. call' \in [Call -> Good]
  BY <1>1, <1>2 DEF Midway
<1>4. \A d \in Call \ {c} : Tamer(call[d], call'[d])
  BY <1>1 DEF Midway
<1>5. call'[c] = s
  BY <1>1 DEF Midway
<1>6. \A d \in Call : Low(call'[d])
  BY <1>2, <1>4, <1>5, TamerKeeps DEF Inv
<1>7. OnRecord'
  BY <1>2, <1>4, <1>5, TamerKeeps DEF OnRecord
<1>8. hook' \in [Hook -> Refs]
  BY DEF Await, Refs, Inv
<1> QED
  BY <1>3, <1>6, <1>7, <1>8 DEF Inv

\* The request on record is aborted and gives up its place to the new one.
LEMMA FetchInv ==
  ASSUME Inv, NEW c \in Call, NEW cs, Midway(c, cs), NEW r \in Refs,
         cs[c].consecutiveErrors < MaxConsecutiveErrors,
         Fetch(c, cs, r), UNCHANGED hidden
  PROVE  Inv'
<1> DEFINE i == For[c]
           others == Abort(cs, inFlight[i])
           s == [others[c] EXCEPT !.pc = "fetching", !.aborted = FALSE]
<1>0. i \in Id /\ inFlight[i] \in Call \cup {None}
  BY CallsAssumption DEF Inv
<1>1. /\ others \in [Call -> Good]
      /\ \A d \in Call : Tamer(cs[d], others[d])
      /\ inFlight[i] \in Call => ~Live(others[inFlight[i]])
  BY <1>0, AbortTame DEF Midway
<1>2. call' = [others EXCEPT ![c] = s] /\ inFlight' = [inFlight EXCEPT ![i] = c]
  BY <1>1 DEF Fetch
<1>3. others[c].consecutiveErrors < MaxConsecutiveErrors /\ others[c].owner = cs[c].owner
  BY <1>1, CallsAssumption DEF Tamer, Abort, Midway, Good, Calls
<1>4. s \in Good /\ Low(s)
  <2>1. others[c] \in Calls /\ others[c].owner \in Hook
    BY <1>1, <1>3 DEF Midway, Good
  <2> QED
    BY <1>3, <2>1 DEF Good, Calls, Low
<1>5. call' \in [Call -> Good] /\ call'[c] = s
  BY <1>1, <1>2, <1>4
<1>6. \A d \in Call \ {c} : call'[d] = others[d] /\ Tamer(call[d], call'[d])
  BY <1>1, <1>2 DEF Midway, Tamer
<1>7. \A d \in Call : Low(call'[d])
  BY <1>4, <1>5, <1>6, TamerKeeps DEF Inv
<1>8. OnRecord'
  <2> SUFFICES ASSUME NEW d \in Call, Live(call'[d]) PROVE inFlight'[For[d]] = d
    BY DEF OnRecord
  <2>1. CASE d = c
    BY <1>0, <1>2, <2>1 DEF Inv
  <2>2. CASE d # c
    <3>1. inFlight[For[d]] = d
      BY <1>6, <2>2, TamerKeeps DEF Inv, OnRecord
    <3>2. For[d] # i
      BY <1>1, <1>6, <2>2, <3>1
    <3> QED
      BY <1>2, <3>1, <3>2, CallsAssumption DEF Inv
  <2> QED
    BY <2>1, <2>2
<1>9. hook' \in [Hook -> Refs]
  BY DEF Fetch, Refs, Inv
<1> QED
  BY <1>0, <1>2, <1>5, <1>7, <1>8, <1>9 DEF Inv

LEMMA LoopInv ==
  ASSUME Inv, NEW c \in Call, NEW cs, Midway(c, cs), NEW r \in Refs,
         cs[c].consecutiveErrors < MaxConsecutiveErrors,
         Loop(c, cs, r), UNCHANGED hidden
  PROVE  Inv'
<1>1. UNCHANGED inFlight => /\ inFlight' \in [Id -> Call \cup {None}]
                            /\ \A d \in Call \ {c} : Live(call[d]) => inFlight'[For[d]] = d
  BY DEF Inv, OnRecord
<1> QED
  BY <1>1, SettleInv, AwaitInv, FetchInv DEF Loop
-----------------------------------------------------------------------------
(* The actions *)

\* A step that leaves the map alone and makes no record wilder.
LEMMA TameInv ==
  ASSUME Inv, call' \in [Call -> Good], \A c \in Call : Tamer(call[c], call'[c]),
         hook' \in [Hook -> Refs], UNCHANGED inFlight, hidden' \in BOOLEAN
  PROVE  Inv'
<1>1. \A c \in Call : Low(call'[c])
  BY TamerKeeps DEF Inv
<1>2. OnRecord'
  BY TamerKeeps DEF Inv, OnRecord
<1> QED
  BY <1>1, <1>2 DEF Inv

LEMMA FreshGood ==
  ASSUME NEW h \in Hook, NEW b \in BOOLEAN
  PROVE  LET s == [Idle EXCEPT !.owner = h, !.listening = TRUE, !.disturbed = b]
         IN s \in Good /\ s.consecutiveErrors = 0 /\ s.owner = h
<1>1. Idle \in Calls /\ Idle.pc = "idle" /\ Idle.consecutiveErrors = 0
  BY IdleGood DEF Idle, Good
<1> QED
  BY <1>1 DEF Good, Calls

\* The close event of a socket may wake the call that waits for it.
LEMMA ClosedGood ==
  ASSUME NEW s \in Good, NEW b \in BOOLEAN
  PROVE  LET t == [s EXCEPT !.socket = "closed", !.wake = b]
         IN t \in Good /\ Tamer(s, t)
  BY DEF Good, Calls, Tamer

\* What showing the tab does to a call.
LEMMA ShownGood ==
  ASSUME NEW s \in Good, NEW b \in BOOLEAN, NEW d \in BOOLEAN
  PROVE  LET t == [s EXCEPT !.paused = b, !.wake = d]
         IN t \in Good /\ Tamer(s, t)
  BY DEF Good, Calls, Tamer

LEMMA StartInv == ASSUME Inv, NEW c \in Call, NEW h \in Hook, start(c, h) PROVE Inv'
<1> DEFINE fresh == [Idle EXCEPT !.owner = h, !.listening = TRUE,
                                 !.disturbed = Unfinished(h) # {}]
           cs == [d \in Call |->
                    IF d = c THEN fresh
                    ELSE IF d \in Unfinished(h) THEN [call[d] EXCEPT !.disturbed = TRUE]
                    ELSE call[d]]
           r == [hook[h] EXCEPT !.stopped = FALSE, !.visibilityHandler = c]
<1>1. fresh \in Good /\ fresh.consecutiveErrors < MaxConsecutiveErrors /\ fresh.owner = h
  <2>1. PICK b \in BOOLEAN : b = (Unfinished(h) # {})
    OBVIOUS
  <2>2. fresh = [Idle EXCEPT !.owner = h, !.listening = TRUE, !.disturbed = b]
    BY <2>1
  <2>3. fresh \in Good /\ fresh.consecutiveErrors = 0 /\ fresh.owner = h
    <3> HIDE DEF fresh
    <3> QED
      BY <2>2, FreshGood
  <2> QED
    BY <2>3, ErrorsAssumption
<1>2. \A d \in Call : [call[d] EXCEPT !.disturbed = TRUE] \in Good
                       /\ Tamer(call[d], [call[d] EXCEPT !.disturbed = TRUE])
  BY FlagsGood DEF Inv
<1>3. cs \in [Call -> Good] /\ \A d \in Call \ {c} : Tamer(call[d], cs[d])
  BY <1>1, <1>2 DEF Inv, Tamer
<1>4. Midway(c, cs) /\ r \in Refs /\ cs[c] = fresh
  BY <1>1, <1>3 DEF Midway, Inv, Refs
<1>5. CASE Fetch(c, cs, r)
  BY <1>1, <1>4, <1>5, FetchInv DEF start
<1>6. CASE /\ call' = [cs EXCEPT ![c].pc = "ws", ![c].socket = "open"]
           /\ hook' = [hook EXCEPT ![h] = [r EXCEPT !.wsCleanup = c]]
           /\ UNCHANGED inFlight
  <2> DEFINE opened == [fresh EXCEPT !.pc = "ws", !.socket = "open"]
  <2>1. opened \in Good /\ Low(opened) /\ ~Live(opened)
    <3> HIDE DEF fresh
    <3> QED
      BY <1>1 DEF Good, Calls, Low, Live
  <2>2. call' = [cs EXCEPT ![c] = opened]
    BY <1>4, <1>6
  <2>3. call' \in [Call -> Good] /\ call'[c] = opened
        /\ \A d \in Call \ {c} : Tamer(call[d], call'[d])
    BY <1>3, <2>1, <2>2
  <2>4. \A d \in Call : Low(call'[d])
    BY <2>1, <2>3, TamerKeeps DEF Inv
  <2>5. OnRecord'
    BY <1>6, <2>1, <2>3, TamerKeeps DEF Inv, OnRecord
  <2>6. hook' \in [Hook -> Refs]
    BY <1>4, <1>6 DEF Inv, Refs
  <2> QED
    BY <1>6, <2>3, <2>4, <2>5, <2>6 DEF Inv, start
<1> QED
  BY <1>5, <1>6 DEF start

LEMMA StopInv == ASSUME Inv, NEW h \in Hook, stop(h) PROVE Inv'
<1> DEFINE r == hook[h]
           a == Abort(call, r.currentController)
           b == CloseSocket(a, r)
           d == Deafened(b, r)
           w == Wake(d, r)
<1>1. r \in Refs /\ r.currentController \in Call \cup {None}
  BY DEF Inv, Refs
<1>2. a \in [Call -> Good] /\ \A c \in Call : Tamer(call[c], a[c])
  BY <1>1, AbortTame DEF Inv
<1>3. b \in [Call -> Good] /\ \A c \in Call : Tamer(a[c], b[c])
  BY <1>1, <1>2, CloseSocketTame
<1>4. d \in [Call -> Good] /\ \A c \in Call : Tamer(b[c], d[c])
  BY <1>1, <1>3, DeafenedTame
<1>5. w \in [Call -> Good] /\ \A c \in Call : Tamer(d[c], w[c])
  BY <1>1, <1>4, WakeTame
<1>6. call' = w
  BY DEF stop, Halted
<1>7. \A c \in Call : Tamer(call[c], call'[c])
  BY <1>2, <1>3, <1>4, <1>5, <1>6 DEF Tamer
<1>8. hook' \in [Hook -> Refs]
  BY <1>1 DEF stop, Inv, Refs
<1> QED
  BY <1>5, <1>6, <1>7, <1>8, TameInv DEF stop, Inv

\* What the world does to a waiting call.
LEMMA EventInv ==
  ASSUME Inv, NEW c \in Call,
         PushTerminal(c) \/ SocketCloses(c) \/ BackoffEnds(c) \/ RequestTimeout(c)
         \/ DurationPasses(c)
  PROVE  Inv'
<1> DEFINE s == call[c]
<1>0. s \in Good
  BY DEF Inv
<1>1. CASE PushTerminal(c)
  <2> DEFINE u == [s EXCEPT !.terminal = TRUE]
             t == [u EXCEPT !.wake = TRUE]
  <2>1. t \in Good /\ Tamer(s, t)
    <3>1. u \in Good /\ Tamer(s, u)
      BY <1>0, FlagsGood
    <3>2. t \in Good /\ Tamer(u, t)
      BY <3>1, FlagsGood
    <3> QED
      BY <3>1, <3>2 DEF Tamer
  <2>2. call' = [call EXCEPT ![c] = t]
    BY <1>1 DEF PushTerminal, Inv
  <2> QED
    BY <1>1, <2>1, <2>2, TameInv DEF PushTerminal, Inv, Tamer
<1>2. CASE SocketCloses(c)
  <2> DEFINE t == [s EXCEPT !.socket = "closed", !.wake = s.pc = "ws"]
  <2>1. t \in Good /\ Tamer(s, t)
    <3>1. PICK b \in BOOLEAN : b = (s.pc = "ws")
      OBVIOUS
    <3>2. t = [s EXCEPT !.socket = "closed", !.wake = b]
      BY <3>1
    <3> QED
      BY <1>0, <3>2, ClosedGood
  <2>2. call' = [call EXCEPT ![c] = t]
    BY <1>2 DEF SocketCloses, Inv
  <2>3. hook' \in [Hook -> Refs]
    BY <1>2 DEF SocketCloses, Inv, Refs
  <2> QED
    BY <1>2, <2>1, <2>2, <2>3, TameInv DEF SocketCloses, Inv, Tamer
<1>3. CASE BackoffEnds(c) \/ RequestTimeout(c) \/ DurationPasses(c)
  <2>1. PICK t \in {[s EXCEPT !.wake = TRUE], [s EXCEPT !.aborted = TRUE],
                    [s EXCEPT !.late = TRUE]} : call' = [call EXCEPT ![c] = t]
    BY <1>3 DEF BackoffEnds, RequestTimeout, DurationPasses
  <2>2. t \in Good /\ Tamer(s, t)
    BY <1>0, <2>1, FlagsGood
  <2> QED
    BY <1>3, <2>1, <2>2, TameInv DEF BackoffEnds, RequestTimeout, DurationPasses, Inv, Tamer
<1> QED
  BY <1>1, <1>2, <1>3

LEMMA TabInv == ASSUME Inv, Hide \/ Show PROVE Inv'
<1>1. \A c \in Call : \A b \in BOOLEAN :
        [call[c] EXCEPT !.paused = b] \in Good /\ Tamer(call[c], [call[c] EXCEPT !.paused = b])
  BY FlagsGood DEF Inv
<1>2. CASE Hide
  <2>1. \A c \in Call : (call[c].paused \/ call[c].listening) \in BOOLEAN
    OBVIOUS
  <2> QED
    BY <1>1, <1>2, <2>1, TameInv DEF Hide, Inv
<1>3. CASE Show
  <2> DEFINE woken(c) == \E d \in Call :
                            call[d].listening /\ hook[call[d].owner].sleepResolve = c
             t(c) == [call[c] EXCEPT !.paused = @ /\ ~call[c].listening, !.wake = woken(c)]
  <2>1. ASSUME NEW c \in Call PROVE t(c) \in Good /\ Tamer(call[c], t(c))
    <3>1. PICK b \in BOOLEAN : b = (call[c].paused /\ ~call[c].listening)
      OBVIOUS
    <3>2. PICK d \in BOOLEAN : d = woken(c)
      OBVIOUS
    <3>3. t(c) = [call[c] EXCEPT !.paused = b, !.wake = d]
      BY <3>1, <3>2
    <3> QED
      BY <3>3, ShownGood DEF Inv
  <2>2. call' = [c \in Call |-> t(c)]
    BY <1>3 DEF Show
  <2>3. call' \in [Call -> Good] /\ \A c \in Call : Tamer(call[c], call'[c])
    <3> HIDE DEF t
    <3> QED
      BY <2>1, <2>2
  <2> QED
    BY <1>3, <2>3, TameInv DEF Show, Inv
<1> QED
  BY <1>2, <1>3

LEMMA FetchEndsInv ==
  ASSUME Inv, NEW c \in Call, NEW answer \in {"more", "terminal", "failed"},
         FetchEnds(c, answer)
  PROVE  Inv'
<1> DEFINE s == call[c]
           errors == IF answer = "failed" THEN s.consecutiveErrors + 1 ELSE 0
           t == [s EXCEPT !.consecutiveErrors = errors, !.aborted = FALSE]
           cs == [call EXCEPT ![c].consecutiveErrors = errors, ![c].aborted = FALSE]
           r == hook[s.owner]
<1>1. s \in Good /\ s.pc = "fetching" /\ s.consecutiveErrors < MaxConsecutiveErrors
  BY DEF FetchEnds, Inv, Low
<1>2. errors \in 0 .. MaxConsecutiveErrors
  BY <1>1, ErrorsAssumption DEF Good, Calls
<1>3. t \in Good
  BY <1>1, <1>2 DEF Good, Calls
<1>4. cs = [call EXCEPT ![c] = t]
  BY DEF Inv
<1>5. Midway(c, cs) /\ cs[c].consecutiveErrors = errors
  BY <1>1, <1>2, <1>3, <1>4 DEF Midway, Inv, Good, Calls, Tamer
<1>6. r \in Refs
  BY <1>1 DEF Good, Inv
<1>7. /\ inFlight' \in [Id -> Call \cup {None}]
      /\ \A d \in Call \ {c} : Live(call[d]) => inFlight'[For[d]] = d
  BY CallsAssumption DEF FetchEnds, TakenOff, Inv, OnRecord
<1>8. CASE r.stopped \/ errors = MaxConsecutiveErrors \/ answer = "terminal" \/ s.late
  BY <1>5, <1>6, <1>7, <1>8, SettleInv DEF FetchEnds
<1>9. CASE ~(r.stopped \/ errors = MaxConsecutiveErrors \/ answer = "terminal" \/ s.late)
  <2>1. cs[c].consecutiveErrors < MaxConsecutiveErrors
    BY <1>2, <1>5, <1>9, ErrorsAssumption
  <2> QED
    BY <1>5, <1>6, <1>7, <1>9, <2>1, AwaitInv DEF FetchEnds
<1> QED
  BY <1>8, <1>9

LEMMA GoesOnInv == ASSUME Inv, NEW c \in Call, GoesOn(c) PROVE Inv'
<1> DEFINE s == call[c]
           t == [s EXCEPT !.wake = FALSE]
           cs == [call EXCEPT ![c].wake = FALSE]
           q == hook[s.owner]
           r == [q EXCEPT !.sleepResolve = None]
<1>1. s \in Good /\ s.pc \in {"ws", "sleeping", "paused"}
      /\ s.consecutiveErrors < MaxConsecutiveErrors
  BY DEF GoesOn, AfterSocket, AfterSleep, AfterPause, Inv, Low
<1>2. t \in Good /\ Tamer(s, t) /\ cs = [call EXCEPT ![c] = t]
  BY <1>1, FlagsGood DEF Inv
<1>3. Midway(c, cs) /\ cs[c].consecutiveErrors < MaxConsecutiveErrors
  BY <1>1, <1>2 DEF Midway, Inv, Good, Calls, Tamer
<1>4. q \in Refs /\ r \in Refs
  BY <1>1 DEF Good, Inv, Refs
<1>5. UNCHANGED inFlight => /\ inFlight' \in [Id -> Call \cup {None}]
                            /\ \A d \in Call \ {c} : Live(call[d]) => inFlight'[For[d]] = d
  BY DEF Inv, OnRecord
<1>6. CASE AfterSocket(c)
  BY <1>3, <1>4, <1>5, <1>6, SettleInv, LoopInv DEF AfterSocket
<1>7. CASE AfterSleep(c)
  BY <1>3, <1>4, <1>7, LoopInv DEF AfterSleep
<1>8. CASE AfterPause(c)
  BY <1>3, <1>4, <1>5, <1>8, SettleInv, AwaitInv, FetchInv DEF AfterPause
<1> QED
  BY <1>6, <1>7, <1>8 DEF GoesOn

LEMMA NextInv == Inv /\ [Next]_vars => Inv'
<1> SUFFICES ASSUME Inv, [Next]_vars PROVE Inv'
  OBVIOUS
<1>1. CASE UNCHANGED vars
  BY <1>1 DEF vars, Inv, OnRecord
<1>2. CASE Next
  BY <1>2, StartInv, StopInv, EventInv, TabInv, FetchEndsInv, GoesOnInv DEF Next
<1> QED
  BY <1>1, <1>2
-----------------------------------------------------------------------------
(* NothingLeftBehind: the socket of a call that has its hook to itself is   *)
(* the one in the hook's ref as long as it is open, because only another    *)
(* call of that hook could have emptied or replaced the ref.                *)

Runs(s) == s.pc \notin {"idle", "settled"}
Busy(s) == Runs(s) \/ s.socket \in {"open", "closing"}

Crowded ==
    \A c, d \in Call :
       c # d /\ Busy(call[c]) /\ Busy(call[d]) /\ call[c].owner = call[d].owner
          => call[c].disturbed

Held(c) ==
    Runs(call[c]) /\ ~call[c].disturbed /\ call[c].socket = "open"
       => hook[call[c].owner].wsCleanup = c

Tidy == NothingLeftBehind /\ Crowded /\ \A c \in Call : Held(c)

LEMMA TidyInit == Init => Tidy
  BY DEF Init, Idle, Tidy, NothingLeftBehind, Crowded, Held, Busy, Runs

\* The socket of a call only goes from open to closed.
Fades(s, t) ==
    \/ t.socket = s.socket
    \/ s.socket \in {"open", "closing"} /\ t.socket \in {"closing", "closed"}

\* What a step does to a call that neither begins nor ends in it.
Calmer(s, t) ==
    /\ t.owner = s.owner
    /\ s.disturbed => t.disturbed
    /\ Runs(t) <=> Runs(s)
    /\ t.pc = "settled" => s.pc = "settled"
    /\ t.listening => s.listening
    /\ Fades(s, t)

\* What a step does to a call that ends in it.
Ends(s, t) ==
    /\ Runs(s) /\ t.pc = "settled" /\ ~t.listening
    /\ t.owner = s.owner /\ t.disturbed = s.disturbed
    /\ Fades(s, t)
    /\ t.disturbed \/ t.socket # "open"

LEMMA CalmerChains ==
  ASSUME NEW s, NEW t, NEW u, Calmer(s, t), Calmer(t, u)
  PROVE  Calmer(s, u)
  BY DEF Calmer, Fades

LEMMA FlagsCalm ==
  ASSUME NEW s \in Good, NEW b \in BOOLEAN, NEW n
  PROVE  /\ Calmer(s, s)
         /\ Calmer(s, [s EXCEPT !.wake = b])
         /\ Calmer(s, [s EXCEPT !.paused = b])
         /\ Calmer(s, [s EXCEPT !.paused = b, !.wake = n])
         /\ Calmer(s, [s EXCEPT !.late = b])
         /\ Calmer(s, [s EXCEPT !.aborted = b])
         /\ Calmer(s, [s EXCEPT !.terminal = b])
         /\ Calmer(s, [s EXCEPT !.consecutiveErrors = n, !.aborted = b])
         /\ Calmer(s, [s EXCEPT !.terminal = b, !.wake = n])
         /\ Calmer(s, [s EXCEPT !.listening = FALSE])
         /\ Calmer(s, [s EXCEPT !.disturbed = TRUE])
  BY DEF Good, Calls, Calmer, Fades, Runs

LEMMA OneCalms ==
  ASSUME NEW cs \in [Call -> Good], NEW c \in Call, NEW t, Calmer(cs[c], t)
  PROVE  \A d \in Call : Calmer(cs[d], [cs EXCEPT ![c] = t][d])
<1> TAKE d \in Call
<1>1. CASE d = c
  BY <1>1
<1>2. CASE d # c
  <2>1. [cs EXCEPT ![c] = t][d] = cs[d] /\ cs[d] \in Good
    BY <1>2
  <2> QED
    BY <2>1, FlagsCalm
<1> QED
  BY <1>1, <1>2

LEMMA AllCalm ==
  ASSUME NEW cs \in [Call -> Good]
  PROVE  \A d \in Call : Calmer(cs[d], cs[d])
  BY FlagsCalm

LEMMA CloseSocketCalm ==
  ASSUME NEW cs \in [Call -> Good], NEW r \in Refs
  PROVE  /\ CloseSocket(cs, r) \in [Call -> Good]
         /\ \A d \in Call : Calmer(cs[d], CloseSocket(cs, r)[d])
         /\ \A d \in Call : r.wsCleanup = d => CloseSocket(cs, r)[d].socket # "open"
<1>1. CASE r.wsCleanup # None /\ cs[r.wsCleanup].socket = "open"
  <2> DEFINE w == r.wsCleanup
             t == [cs[w] EXCEPT !.socket = "closing"]
  <2>1. w \in Call /\ CloseSocket(cs, r) = [cs EXCEPT ![w] = t]
    BY <1>1 DEF CloseSocket, Refs
  <2>2. t \in Good /\ Calmer(cs[w], t) /\ t.socket = "closing"
    BY <1>1, <2>1 DEF Good, Calls, Calmer, Fades, Runs
  <2> HIDE DEF t
  <2>3. \A d \in Call : Calmer(cs[d], CloseSocket(cs, r)[d])
    BY <2>1, <2>2, OneCalms
  <2> QED
    BY <2>1, <2>2, <2>3
<1>2. CASE ~(r.wsCleanup # None /\ cs[r.wsCleanup].socket = "open")
  <2>1. CloseSocket(cs, r) = cs
    BY <1>2 DEF CloseSocket
  <2> QED
    BY <1>2, <2>1, AllCalm, CallsAssumption
<1> QED
  BY <1>1, <1>2

LEMMA AbortCalm ==
  ASSUME NEW cs \in [Call -> Good], NEW c \in Call \cup {None}
  PROVE  \A d \in Call : Calmer(cs[d], Abort(cs, c)[d])
<1>1. CASE c \in Call /\ cs[c].pc = "fetching"
  <2>1. Abort(cs, c) = [cs EXCEPT ![c] = [cs[c] EXCEPT !.aborted = TRUE]]
    BY <1>1, CallsAssumption DEF Abort
  <2>2. Calmer(cs[c], [cs[c] EXCEPT !.aborted = TRUE])
    BY <1>1, FlagsCalm
  <2> QED
    BY <1>1, <2>1, <2>2, OneCalms
<1>2. CASE ~(c \in Call /\ cs[c].pc = "fetching")
  BY <1>2, CallsAssumption, AllCalm DEF Abort
<1> QED
  BY <1>1, <1>2

LEMMA WakeCalm ==
  ASSUME NEW cs \in [Call -> Good], NEW r \in Refs
  PROVE  \A d \in Call : Calmer(cs[d], Wake(cs, r)[d])
<1>1. CASE r.sleepResolve # None
  <2> DEFINE s == r.sleepResolve
  <2>1. s \in Call /\ Wake(cs, r) = [cs EXCEPT ![s] = [cs[s] EXCEPT !.wake = TRUE]]
    BY <1>1 DEF Wake, Refs
  <2>2. Calmer(cs[s], [cs[s] EXCEPT !.wake = TRUE])
    BY <2>1, FlagsCalm
  <2> QED
    BY <2>1, <2>2, OneCalms
<1> QED
  BY <1>1, AllCalm DEF Wake

LEMMA DeafenedCalm ==
  ASSUME NEW cs \in [Call -> Good], NEW r \in Refs
  PROVE  \A d \in Call : Calmer(cs[d], Deafened(cs, r)[d])
<1>1. CASE r.visibilityHandler # None
  <2> DEFINE v == r.visibilityHandler
  <2>1. v \in Call /\ Deafened(cs, r) = [cs EXCEPT ![v] = [cs[v] EXCEPT !.listening = FALSE]]
    BY <1>1 DEF Deafened, Refs
  <2>2. Calmer(cs[v], [cs[v] EXCEPT !.listening = FALSE])
    BY <2>1, FlagsCalm
  <2> QED
    BY <2>1, <2>2, OneCalms
<1> QED
  BY <1>1, AllCalm DEF Deafened

\* The refs of a hook may let go of a socket once no call needs them to close it.
Freed(h) ==
    \A d \in Call :
       call'[d].owner = h /\ Runs(call'[d]) /\ ~call'[d].disturbed => call'[d].socket # "open"

LEMMA TidyKept ==
  ASSUME Inv, Inv', Tidy,
         \A d \in Call : Calmer(call[d], call'[d]) \/ Ends(call[d], call'[d]),
         \A h \in Hook : hook'[h].wsCleanup = hook[h].wsCleanup \/ Freed(h)
  PROVE  Tidy'
<1>1. NothingLeftBehind'
  <2> SUFFICES ASSUME NEW d \in Call, call'[d].pc = "settled", ~call'[d].disturbed
               PROVE  ~call'[d].listening /\ call'[d].socket # "open"
    BY DEF NothingLeftBehind
  <2>1. CASE Calmer(call[d], call'[d])
    <3>1. call[d].pc = "settled" /\ ~call[d].disturbed
      BY <2>1 DEF Calmer
    <3> QED
      BY <2>1, <3>1 DEF Tidy, NothingLeftBehind, Calmer, Fades
  <2>2. CASE Ends(call[d], call'[d])
    BY <2>2 DEF Ends
  <2> QED
    BY <2>1, <2>2
<1>2. \A d \in Call : /\ Busy(call'[d]) => Busy(call[d])
                      /\ call'[d].owner = call[d].owner
                      /\ call[d].disturbed => call'[d].disturbed
  BY DEF Calmer, Ends, Fades, Busy, Runs
<1>3. Crowded'
  BY <1>2 DEF Tidy, Crowded
<1>4. ASSUME NEW d \in Call PROVE Held(d)'
  <2> SUFFICES ASSUME Runs(call'[d]), ~call'[d].disturbed, call'[d].socket = "open"
               PROVE  hook'[call'[d].owner].wsCleanup = d
    BY DEF Held
  <2>1. Calmer(call[d], call'[d])
    BY DEF Ends, Runs
  <2>2. Runs(call[d]) /\ ~call[d].disturbed /\ call[d].socket = "open"
        /\ call'[d].owner = call[d].owner
    BY <2>1 DEF Calmer, Fades
  <2>3. hook[call[d].owner].wsCleanup = d
    BY <2>2 DEF Tidy, Held
  <2>4. call[d].owner \in Hook
    BY <2>2 DEF Inv, Good, Runs
  <2> QED
    BY <2>2, <2>3, <2>4 DEF Freed
<1> QED
  BY <1>1, <1>3, <1>4 DEF Tidy

\* The situation in which a piece of the running call c runs, on the records cs
\* and the refs r of its hook.
Within(c, cs, r) ==
    /\ Runs(call[c]) /\ cs \in [Call -> Good] /\ r \in Refs
    /\ \A d \in Call : Calmer(call[d], cs[d])
    /\ cs[c].disturbed = call[c].disturbed
    /\ r.wsCleanup = hook[call[c].owner].wsCleanup

\* Two running calls of a hook disturb each other.
LEMMA Alone ==
  ASSUME Inv, Tidy, NEW c \in Call, Busy(call[c]), NEW d \in Call \ {c}, Runs(call[d]),
         call[d].owner = call[c].owner
  PROVE  call[d].disturbed
  BY DEF Tidy, Crowded, Busy

LEMMA SettleTidy ==
  ASSUME Inv, Inv', Tidy, NEW c \in Call, NEW cs, NEW r, Within(c, cs, r), Settle(c, cs, r)
  PROVE  Tidy'
<1> DEFINE closed == CloseSocket(cs, r)
           h == call[c].owner
           end == [Idle EXCEPT !.owner = cs[c].owner, !.pc = "settled",
                               !.socket = closed[c].socket, !.disturbed = cs[c].disturbed]
<1>0. h \in Hook /\ cs[c].owner = h /\ closed \in [Call -> Good]
  BY CloseSocketCalm DEF Inv, Good, Runs, Within, Calmer
<1>1. \A d \in Call : Calmer(cs[d], closed[d]) /\ Calmer(call[d], closed[d])
  BY CloseSocketCalm, CalmerChains DEF Within
<1>2. call' = [d \in Call |-> IF d # c THEN closed[d] ELSE end]
  BY DEF Settle
<1>3. /\ end.owner = h /\ end.pc = "settled" /\ end.socket = closed[c].socket
      /\ end.disturbed = call[c].disturbed /\ ~end.listening
  BY <1>0 DEF Idle, Within
<1>4. ~call[c].disturbed => closed[c].socket # "open"
  <2> SUFFICES ASSUME ~call[c].disturbed, closed[c].socket = "open" PROVE FALSE
    OBVIOUS
  <2>1. call[c].socket = "open"
    BY <1>1 DEF Calmer, Fades
  <2>2. r.wsCleanup = c
    BY <2>1 DEF Tidy, Held, Within
  <2> QED
    BY <2>2, CloseSocketCalm DEF Within
<1>5. Ends(call[c], end)
  <2>1. Fades(call[c], end)
    BY <1>1, <1>3 DEF Calmer, Fades
  <2> HIDE DEF end
  <2> QED
    BY <1>3, <1>4, <2>1 DEF Ends, Within
<1>6. \A d \in Call : Calmer(call[d], call'[d]) \/ Ends(call[d], call'[d])
  <2> HIDE DEF end, closed
  <2> QED
    BY <1>1, <1>2, <1>5
<1>7. Freed(h)
  <2> SUFFICES ASSUME NEW d \in Call, call'[d].owner = h, Runs(call'[d]), ~call'[d].disturbed
               PROVE  FALSE
    BY DEF Freed
  <2>1. d # c
    BY <1>2, <1>3 DEF Runs
  <2>2. Runs(call[d]) /\ call[d].owner = h /\ ~call[d].disturbed
    BY <1>6, <2>1 DEF Calmer, Ends, Runs
  <2> QED
    BY <2>1, <2>2, Alone DEF Within, Busy
<1>8. \A g \in Hook : hook'[g].wsCleanup = hook[g].wsCleanup \/ Freed(g)
  BY <1>0, <1>7 DEF Settle, Inv
<1> QED
  BY <1>6, <1>8, TidyKept

LEMMA AwaitTidy ==
  ASSUME Inv, Inv', Tidy, NEW c \in Call, NEW cs, NEW r, Within(c, cs, r),
         NEW where \in {"sleeping", "paused"}, Await(c, cs, r, where)
  PROVE  Tidy'
<1> DEFINE s == [cs[c] EXCEPT !.pc = where]
           h == call[c].owner
<1>0. h \in Hook /\ cs[c].owner = h
  BY DEF Inv, Good, Runs, Within, Calmer
<1>1. call' = [cs EXCEPT ![c] = s]
  BY DEF Await
<1>2. Calmer(cs[c], s)
  BY DEF Within, Good, Calls, Calmer, Fades, Runs
<1>3. \A d \in Call : Calmer(call[d], call'[d])
  <2> HIDE DEF s
  <2> QED
    BY <1>1, <1>2, CalmerChains DEF Within
<1>4. \A g \in Hook : hook'[g].wsCleanup = hook[g].wsCleanup
  BY <1>0 DEF Await, Inv, Refs, Within
<1> QED
  BY <1>3, <1>4, TidyKept

LEMMA FetchTidy ==
  ASSUME Inv, Inv', Tidy, NEW c \in Call, NEW cs, NEW r, Within(c, cs, r), Fetch(c, cs, r)
  PROVE  Tidy'
<1> DEFINE i == For[c]
           others == Abort(cs, inFlight[i])
           s == [others[c] EXCEPT !.pc = "fetching", !.aborted = FALSE]
           h == call[c].owner
<1>0. /\ h \in Hook /\ cs[c].owner = h
      /\ inFlight[i] \in Call \cup {None}
  BY CallsAssumption DEF Inv, Good, Runs, Within, Calmer
<1>1. others \in [Call -> Good] /\ \A d \in Call : Calmer(cs[d], others[d])
  BY <1>0, AbortCalm, AbortTame DEF Within
<1>2. call' = [others EXCEPT ![c] = s]
  BY <1>1 DEF Fetch
<1>3. Calmer(others[c], s)
  <2>1. Runs(others[c])
    BY <1>1 DEF Within, Calmer
  <2> QED
    BY <1>1, <2>1 DEF Good, Calls, Calmer, Fades, Runs
<1>4. \A d \in Call : Calmer(call[d], call'[d])
  <2> HIDE DEF s, others
  <2> QED
    BY <1>1, <1>2, <1>3, CalmerChains DEF Within
<1>5. \A g \in Hook : hook'[g].wsCleanup = hook[g].wsCleanup
  BY <1>0 DEF Fetch, Inv, Refs, Within
<1> QED
  BY <1>4, <1>5, TidyKept

LEMMA LoopTidy ==
  ASSUME Inv, Inv', Tidy, NEW c \in Call, NEW cs, NEW r, Within(c, cs, r), Loop(c, cs, r)
  PROVE  Tidy'
  BY SettleTidy, AwaitTidy, FetchTidy DEF Loop

\* Whoever begins beside an unfinished call of its hook disturbs it.
LEMMA BeginTidy ==
  ASSUME Inv, Inv', Tidy, NEW c \in Call, NEW h \in Hook,
         \A d \in Call \ {c} : /\ Calmer(call[d], call'[d])
                               /\ d \in Unfinished(h) => call'[d].disturbed
                                                         /\ call'[c].disturbed,
         Runs(call'[c]), call'[c].owner = h,
         call'[c].socket = "open" => hook'[h].wsCleanup = c,
         \A g \in Hook \ {h} : hook'[g].wsCleanup = hook[g].wsCleanup
  PROVE  Tidy'
<1>1. NothingLeftBehind'
  <2> SUFFICES ASSUME NEW d \in Call, call'[d].pc = "settled", ~call'[d].disturbed
               PROVE  ~call'[d].listening /\ call'[d].socket # "open"
    BY DEF NothingLeftBehind
  <2>1. Calmer(call[d], call'[d])
    BY DEF Runs
  <2>2. call[d].pc = "settled" /\ ~call[d].disturbed
    BY <2>1 DEF Calmer
  <2> QED
    BY <2>1, <2>2 DEF Tidy, NothingLeftBehind, Calmer, Fades
<1>2. \A d \in Call \ {c} : /\ Busy(call'[d]) => Busy(call[d])
                            /\ call'[d].owner = call[d].owner
                            /\ call[d].disturbed => call'[d].disturbed
  BY DEF Calmer, Fades, Busy, Runs
<1>3. \A d \in Call : Busy(call[d]) /\ call[d].owner = h => d \in Unfinished(h)
  BY DEF Busy, Runs, Running, Unfinished
<1>4. Crowded'
  BY <1>2, <1>3 DEF Tidy, Crowded
<1>5. ASSUME NEW d \in Call PROVE Held(d)'
  <2> SUFFICES ASSUME d # c, Runs(call'[d]), ~call'[d].disturbed, call'[d].socket = "open"
               PROVE  hook'[call'[d].owner].wsCleanup = d
    BY DEF Held
  <2>1. Runs(call[d]) /\ ~call[d].disturbed /\ call[d].socket = "open"
        /\ call'[d].owner = call[d].owner
    BY DEF Calmer, Fades
  <2>2. hook[call[d].owner].wsCleanup = d
    BY <2>1 DEF Tidy, Held
  <2>3. call[d].owner \in Hook /\ call[d].owner # h
    BY <1>3, <2>1 DEF Inv, Good, Runs, Busy
  <2> QED
    BY <2>1, <2>2, <2>3
<1> QED
  BY <1>1, <1>4, <1>5 DEF Tidy

LEMMA StartTidy ==
  ASSUME Inv, Inv', Tidy, NEW c \in Call, NEW h \in Hook, start(c, h)
  PROVE  Tidy'
<1> DEFINE fresh == [Idle EXCEPT !.owner = h, !.listening = TRUE,
                                 !.disturbed = Unfinished(h) # {}]
           cs == [d \in Call |->
                    IF d = c THEN fresh
                    ELSE IF d \in Unfinished(h) THEN [call[d] EXCEPT !.disturbed = TRUE]
                    ELSE call[d]]
           r == [hook[h] EXCEPT !.stopped = FALSE, !.visibilityHandler = c]
<1>0. hook[h] \in Refs /\ r.wsCleanup = hook[h].wsCleanup
  BY DEF Inv, Refs
<1>1. /\ fresh.owner = h /\ fresh.socket = "none" /\ fresh.pc = "idle"
      /\ fresh.disturbed = (Unfinished(h) # {})
  BY DEF Idle
<1>2. fresh \in Good
  <2>1. PICK b \in BOOLEAN : b = (Unfinished(h) # {})
    OBVIOUS
  <2>2. fresh = [Idle EXCEPT !.owner = h, !.listening = TRUE, !.disturbed = b]
    BY <2>1
  <2> HIDE DEF fresh
  <2> QED
    BY <2>2, FreshGood
<1>3. ASSUME NEW d \in Call \ {c}
      PROVE  cs[d] \in Good /\ Calmer(call[d], cs[d]) /\ (d \in Unfinished(h) => cs[d].disturbed)
  <2>1. cs[d] = IF d \in Unfinished(h) THEN [call[d] EXCEPT !.disturbed = TRUE] ELSE call[d]
    OBVIOUS
  <2>2. [call[d] EXCEPT !.disturbed = TRUE].disturbed
    BY DEF Inv, Good, Calls
  <2>3. call[d] \in Good
    BY DEF Inv
  <2> HIDE DEF cs
  <2> QED
    BY <2>1, <2>2, <2>3, FlagsGood, FlagsCalm
<1>4. cs \in [Call -> Good] /\ cs[c] = fresh
  <2> HIDE DEF fresh
  <2>1. cs[c] = fresh /\ cs = [d \in Call |-> cs[d]]
    OBVIOUS
  <2> HIDE DEF cs
  <2> QED
    BY <1>2, <1>3, <2>1
<1>5. CASE Fetch(c, cs, r)
  <2> DEFINE others == Abort(cs, inFlight[For[c]])
             s == [others[c] EXCEPT !.pc = "fetching", !.aborted = FALSE]
  <2>1. inFlight[For[c]] \in Call \cup {None}
    BY CallsAssumption DEF Inv
  <2>2. others \in [Call -> Good] /\ \A d \in Call : Calmer(cs[d], others[d])
    <3> HIDE DEF cs
    <3> QED
      BY <1>4, <2>1, AbortCalm, AbortTame
  <2>3. call' = [others EXCEPT ![c] = s] /\ hook' = [hook EXCEPT ![h] = [r EXCEPT !.currentController = c]]
    <3>1. cs[c].owner = h
      BY <1>1, <1>4
    <3> HIDE DEF cs, r
    <3> QED
      BY <1>5, <2>2, <3>1 DEF Fetch
  <2> HIDE DEF cs, fresh, others
  <2>4. /\ s.owner = h /\ s.socket = "none" /\ s.pc = "fetching"
        /\ fresh.disturbed => s.disturbed
    BY <1>1, <1>4, <2>2 DEF Calmer, Fades, Good, Calls
  <2> HIDE DEF s
  <2>5. \A d \in Call \ {c} : Calmer(call[d], call'[d]) /\ (cs[d].disturbed => call'[d].disturbed)
    BY <1>3, <2>2, <2>3, CalmerChains DEF Calmer
  <2>6. call'[c] = s
    BY <2>2, <2>3
  <2>7. \A g \in Hook \ {h} : hook'[g].wsCleanup = hook[g].wsCleanup
    BY <2>3 DEF Inv
  <2> QED
    BY <1>1, <1>3, <2>4, <2>5, <2>6, <2>7, BeginTidy DEF Runs
<1>6. CASE /\ call' = [cs EXCEPT ![c].pc = "ws", ![c].socket = "open"]
           /\ hook' = [hook EXCEPT ![h] = [r EXCEPT !.wsCleanup = c]]
  <2> DEFINE s == [fresh EXCEPT !.pc = "ws", !.socket = "open"]
  <2>1. call' = [cs EXCEPT ![c] = s]
    BY <1>4, <1>6
  <2>2. s.owner = h /\ s.pc = "ws" /\ s.disturbed = fresh.disturbed
    <3> HIDE DEF fresh
    <3> QED
      BY <1>1, <1>2 DEF Good, Calls
  <2> HIDE DEF cs, s, fresh
  <2>3. call'[c] = s /\ \A d \in Call \ {c} : call'[d] = cs[d]
    BY <1>4, <2>1
  <2>4. hook'[h].wsCleanup = c /\ \A g \in Hook \ {h} : hook'[g].wsCleanup = hook[g].wsCleanup
    BY <1>0, <1>6 DEF Inv, Refs
  <2>5. /\ Runs(call'[c]) /\ call'[c].owner = h
        /\ Unfinished(h) # {} => call'[c].disturbed
    BY <1>1, <2>2, <2>3 DEF Runs
  <2>6. \A d \in Call \ {c} : /\ Calmer(call[d], call'[d])
                              /\ d \in Unfinished(h) => call'[d].disturbed
                                                        /\ call'[c].disturbed
    BY <1>3, <2>3, <2>5
  <2> QED
    BY <2>4, <2>5, <2>6, BeginTidy
<1> QED
  BY <1>5, <1>6 DEF start

LEMMA StopTidy == ASSUME Inv, Inv', Tidy, NEW h \in Hook, stop(h) PROVE Tidy'
<1> DEFINE r == hook[h]
           a == Abort(call, r.currentController)
           b == CloseSocket(a, r)
           d == Deafened(b, r)
           w == Wake(d, r)
<1>1. r \in Refs /\ r.currentController \in Call \cup {None}
  BY DEF Inv, Refs
<1>2. a \in [Call -> Good] /\ \A c \in Call : Calmer(call[c], a[c])
  BY <1>1, AbortTame, AbortCalm DEF Inv
<1>3. b \in [Call -> Good] /\ \A c \in Call : Calmer(a[c], b[c])
  BY <1>1, <1>2, CloseSocketCalm
<1>4. d \in [Call -> Good] /\ \A c \in Call : Calmer(b[c], d[c])
  BY <1>1, <1>3, DeafenedTame, DeafenedCalm
<1>5. \A c \in Call : Calmer(d[c], w[c])
  BY <1>1, <1>4, WakeCalm
<1>6. call' = w
  BY DEF stop, Halted
<1>7. ASSUME NEW c \in Call, r.wsCleanup = c PROVE b[c].socket # "open"
  BY <1>1, <1>2, <1>7, CloseSocketCalm
<1> HIDE DEF a, b, d, w
<1>8. \A c \in Call : Calmer(call[c], call'[c]) /\ Calmer(b[c], call'[c])
  BY <1>2, <1>3, <1>4, <1>5, <1>6, CalmerChains
<1>9. Freed(h)
  <2> SUFFICES ASSUME NEW c \in Call, call'[c].owner = h, Runs(call'[c]),
                      ~call'[c].disturbed, call'[c].socket = "open"
               PROVE  FALSE
    BY DEF Freed
  <2>1. r.wsCleanup = c
    BY <1>8 DEF Calmer, Fades, Tidy, Held
  <2> QED
    BY <1>7, <1>8, <2>1 DEF Calmer, Fades
<1>10. \A g \in Hook : hook'[g].wsCleanup = hook[g].wsCleanup \/ Freed(g)
  BY <1>9 DEF stop, Inv
<1> QED
  BY <1>8, <1>10, TidyKept

LEMMA ClosesTidy == ASSUME Inv, Inv', Tidy, NEW c \in Call, SocketCloses(c) PROVE Tidy'
<1> DEFINE h == call[c].owner
           t == [call[c] EXCEPT !.socket = "closed", !.wake = call[c].pc = "ws"]
<1>1. call' = [call EXCEPT ![c] = t] /\ call[c].socket \in {"open", "closing"}
  BY DEF SocketCloses, Inv
<1>2. Calmer(call[c], t) /\ t.socket = "closed"
  BY <1>1 DEF Inv, Good, Calls, Calmer, Fades, Runs
<1> HIDE DEF t
<1>3. \A d \in Call : Calmer(call[d], call'[d])
  BY <1>1, <1>2, FlagsCalm DEF Inv
<1>4. Freed(h)
  <2> SUFFICES ASSUME NEW d \in Call, call'[d].owner = h, Runs(call'[d]),
                      ~call'[d].disturbed, call'[d].socket = "open"
               PROVE  FALSE
    BY DEF Freed
  <2>1. d # c
    BY <1>1, <1>2 DEF Inv
  <2>2. Runs(call[d]) /\ call[d].owner = h /\ ~call[d].disturbed
    BY <1>3 DEF Calmer
  <2> QED
    BY <1>1, <2>1, <2>2, Alone DEF Busy
<1>5. \A g \in Hook : hook'[g].wsCleanup = hook[g].wsCleanup \/ Freed(g)
  BY <1>4 DEF SocketCloses, Inv
<1> QED
  BY <1>3, <1>5, TidyKept

LEMMA EventTidy ==
  ASSUME Inv, Inv', Tidy,
         NEW c \in Call, PushTerminal(c) \/ BackoffEnds(c) \/ RequestTimeout(c) \/ DurationPasses(c)
  PROVE  Tidy'
<1>1. PICK t \in {[call[c] EXCEPT !.terminal = TRUE, !.wake = TRUE], [call[c] EXCEPT !.wake = TRUE],
                  [call[c] EXCEPT !.aborted = TRUE], [call[c] EXCEPT !.late = TRUE]} :
         call' = [call EXCEPT ![c] = t]
  BY DEF PushTerminal, BackoffEnds, RequestTimeout, DurationPasses, Inv
<1>2. Calmer(call[c], t)
  <2>1. call[c] \in Good /\ TRUE \in BOOLEAN
    BY DEF Inv
  <2>2. \A b \in BOOLEAN : \A s \in Good :
           /\ Calmer(s, [s EXCEPT !.terminal = b, !.wake = b]) /\ Calmer(s, [s EXCEPT !.wake = b])
           /\ Calmer(s, [s EXCEPT !.aborted = b]) /\ Calmer(s, [s EXCEPT !.late = b])
    BY FlagsCalm
  <2> QED
    BY <1>1, <2>1, <2>2
<1>3. \A d \in Call : Calmer(call[d], call'[d])
  BY <1>1, <1>2, FlagsCalm DEF Inv
<1>4. hook' = hook
  BY DEF PushTerminal, BackoffEnds, RequestTimeout, DurationPasses
<1> QED
  BY <1>3, <1>4, TidyKept

LEMMA TabTidy == ASSUME Inv, Inv', Tidy, Hide \/ Show PROVE Tidy'
<1>1. \A d \in Call : Calmer(call[d], call'[d])
  <2>1. CASE Hide
    <3> SUFFICES ASSUME NEW d \in Call PROVE Calmer(call[d], call'[d])
      OBVIOUS
    <3>0. call[d] \in Good
      BY DEF Inv
    <3>1. PICK b \in BOOLEAN : b = (call[d].paused \/ call[d].listening)
      OBVIOUS
    <3>2. call'[d] = [call[d] EXCEPT !.paused = b]
      BY <2>1, <3>1 DEF Hide
    <3> QED
      BY <3>0, <3>2, FlagsCalm
  <2>2. CASE Show
    <3> SUFFICES ASSUME NEW d \in Call PROVE Calmer(call[d], call'[d])
      OBVIOUS
    <3>0. call[d] \in Good
      BY DEF Inv
    <3>1. PICK b \in BOOLEAN : b = (call[d].paused /\ ~call[d].listening)
      OBVIOUS
    <3>2. PICK n : call'[d] = [call[d] EXCEPT !.paused = b, !.wake = n]
      BY <2>2, <3>1 DEF Show
    <3> QED
      BY <3>0, <3>2 DEF Good, Calls, Calmer, Fades, Runs
  <2> QED
    BY <2>1, <2>2
<1>2. hook' = hook
  BY DEF Hide, Show
<1> QED
  BY <1>1, <1>2, TidyKept

LEMMA FetchEndsTidy ==
  ASSUME Inv, Inv', Tidy, NEW c \in Call, NEW answer \in {"more", "terminal", "failed"},
         FetchEnds(c, answer)
  PROVE  Tidy'
<1> DEFINE errors == IF answer = "failed" THEN call[c].consecutiveErrors + 1 ELSE 0
           t == [call[c] EXCEPT !.consecutiveErrors = errors, !.aborted = FALSE]
           cs == [call EXCEPT ![c].consecutiveErrors = errors, ![c].aborted = FALSE]
           r == hook[call[c].owner]
<1>1. call[c] \in Good /\ call[c].pc = "fetching" /\ call[c].consecutiveErrors < MaxConsecutiveErrors
  BY DEF FetchEnds, Inv, Low
<1>2. errors \in 0 .. MaxConsecutiveErrors
  BY <1>1, ErrorsAssumption DEF Good, Calls
<1>3. t \in Good /\ t.disturbed = call[c].disturbed
  BY <1>1, <1>2 DEF Good, Calls
<1>4. cs = [call EXCEPT ![c] = t] /\ Calmer(call[c], t)
  BY <1>1, FlagsCalm DEF Inv
<1>5. r \in Refs
  BY <1>1 DEF Good, Inv
<1>6. Within(c, cs, r)
  <2> HIDE DEF t, cs
  <2> QED
    BY <1>1, <1>3, <1>4, <1>5, FlagsCalm DEF Within, Inv, Runs
<1> QED
  BY <1>6, SettleTidy, AwaitTidy DEF FetchEnds

LEMMA GoesOnTidy == ASSUME Inv, Inv', Tidy, NEW c \in Call, GoesOn(c) PROVE Tidy'
<1> DEFINE t == [call[c] EXCEPT !.wake = FALSE]
           cs == [call EXCEPT ![c].wake = FALSE]
           q == hook[call[c].owner]
           r == [q EXCEPT !.sleepResolve = None]
<1>1. call[c] \in Good /\ call[c].pc \in {"ws", "sleeping", "paused"}
  BY DEF GoesOn, AfterSocket, AfterSleep, AfterPause, Inv
<1>2. t \in Good /\ t.disturbed = call[c].disturbed /\ Calmer(call[c], t)
  <2>1. t \in Good /\ Calmer(call[c], t)
    BY <1>1, FlagsGood, FlagsCalm
  <2>2. t.disturbed = call[c].disturbed
    BY <1>1 DEF Good, Calls
  <2> QED
    BY <2>1, <2>2
<1>3. cs = [call EXCEPT ![c] = t]
  BY DEF Inv
<1>4. q \in Refs /\ r \in Refs /\ r.wsCleanup = q.wsCleanup
  BY <1>1 DEF Good, Inv, Refs
<1>5. Within(c, cs, q) /\ Within(c, cs, r)
  <2> HIDE DEF t, cs, r
  <2> QED
    BY <1>1, <1>2, <1>3, <1>4, FlagsCalm DEF Within, Inv, Runs
<1>6. CASE AfterSocket(c)
  BY <1>5, <1>6, SettleTidy, LoopTidy DEF AfterSocket
<1>7. CASE AfterSleep(c)
  BY <1>5, <1>7, LoopTidy DEF AfterSleep
<1>8. CASE AfterPause(c)
  BY <1>5, <1>8, SettleTidy, AwaitTidy, FetchTidy DEF AfterPause
<1> QED
  BY <1>6, <1>7, <1>8 DEF GoesOn

LEMMA NextTidy == Inv /\ Inv' /\ Tidy /\ [Next]_vars => Tidy'
<1> SUFFICES ASSUME Inv, Inv', Tidy, [Next]_vars PROVE Tidy'
  OBVIOUS
<1>1. CASE UNCHANGED vars
  BY <1>1 DEF vars, Tidy, NothingLeftBehind, Crowded, Held
<1>2. CASE Next
  BY <1>2, StartTidy, StopTidy, ClosesTidy, EventTidy, TabTidy, FetchEndsTidy, GoesOnTidy
     DEF Next
<1> QED
  BY <1>1, <1>2
-----------------------------------------------------------------------------
LEMMA Invariance == Spec => []Inv
  BY InitInv, NextInv, PTL DEF Spec

\* Calls, refs and the map keep their types.
THEOREM TypeCorrect == Spec => []TypeOK
  BY Invariance, InvImplies, PTL

\* However many calls of however many hook instances overlap, an id never has
\* two requests that nobody has aborted.
THEOREM RequestsAreSingle == Spec => []OneLiveRequest
  BY Invariance, InvImplies, PTL

\* A call that had its hook to itself leaves no listener and no open socket
\* behind, for any number of calls, hook instances and ids (stop; the socket's
\* close event; the finally block of start).
THEOREM CallsCleanUp == Spec => []NothingLeftBehind
<1>1. Tidy => NothingLeftBehind
  BY DEF Tidy
<1> QED
  BY <1>1, TidyInit, NextInv, NextTidy, Invariance, PTL DEF Spec
=============================================================================
