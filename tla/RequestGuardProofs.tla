------------------------- MODULE RequestGuardProofs -------------------------
(***************************************************************************)
(* The guards a request passes before it has an effect upstream, for any   *)
(* number of requests and calls and any limits.                            *)
(*                                                                         *)
(* Idempotency keys: while a request is younger than the lock it took, no  *)
(* other can take the row over, so the row is its own until it is done.    *)
(* Circuit breaker: the counter of failures and the history of them agree  *)
(* while the breaker is closed.                                            *)
(* Rate limiter: the stored list and the history are compared by           *)
(* injections, list into history for "nobody is denied without cause" and  *)
(* history into list for "the limit holds again"; the history counted is   *)
(* the part no lost write hides.  The filter is a recursive function, so   *)
(* what it keeps is shown by the least length at which it would fail.      *)
(***************************************************************************)
EXTENDS Idempotency, CircuitBreaker, RateLimiter,
        FiniteSetTheorems, WellFoundedInduction, TLAPS

-----------------------------------------------------------------------------
(* Idempotency keys                                                        *)

Locked(o) == o.status = "processing" /\ o.locked_until \in Nat /\ o.body = Nil
Final(o) == o.status = "completed" /\ o.locked_until = Nil /\ o.body \in Request

LEMMA RowsFit ==
  ASSUME NEW r \in Request, NEW t \in Nat
  PROVE  LET o == [request_hash |-> HashOf[r], status |-> "processing", body |-> Nil,
                   locked_until |-> t + LockTtl, expires_at |-> t + Ttl]
         IN  o \in Record /\ Locked(o)
  BY IdempotencyAssumption DEF Record, Hash, Locked

LEMMA ProcessingFits ==
  ASSUME TypeOK, NEW r \in Request
  PROVE  Processing(r) \in Record /\ Locked(Processing(r))
<1>1. now[r] \in Nat
  BY IdempotencyAssumption DEF TypeOK
<1> QED
  BY <1>1, RowsFit DEF Processing

LEMMA StoredFits ==
  ASSUME TypeOK, NEW r \in Request
  PROVE  /\ Stored(r) \in Record \cup {Nil}
         /\ Stored(r) # Nil => Final(Stored(r)) /\ Stored(r).body = r
                               /\ Stored(r).request_hash = row.request_hash
  <1>1. CASE row = Nil \/ status[r] = "error"
    BY <1>1 DEF Stored
  <1>2. CASE ~(row = Nil \/ status[r] = "error")
    <2>1. row \in Record /\ clock + Ttl \in Nat
      BY <1>2, IdempotencyAssumption DEF TypeOK
    <2>2. Stored(r) = [row EXCEPT !.status = "completed", !.body = r, !.locked_until = Nil,
                                  !.expires_at = clock + Ttl]
      BY <1>2 DEF Stored, Completed
    <2> QED
      BY <2>1, <2>2 DEF Record, Final
  <1> QED
    BY <1>1, <1>2

LEMMA KeyTypes == TypeOK /\ [Next]_vars => TypeOK'
<1> SUFFICES ASSUME TypeOK, [Next]_vars PROVE TypeOK'
  OBVIOUS
<1> DEFINE RowOK(o) == o \in Record \cup {Nil} /\ (o # Nil => Locked(o) \/ Final(o))
           Labels == Live \cup {"idle", "answered", "replayed", "refused", "failed"}
           RestOK == /\ clock \in 0 .. MaxTime
                     /\ pc \in [Request -> Labels]
                     /\ now \in [Request -> 0 .. clock]
                     /\ status \in [Request -> {"ok", "error", Nil}]
                     /\ answer \in [Request -> Request \cup {Nil}]
                     /\ effects \subseteq Request
<1>1. TypeOK <=> RowOK(row) /\ RestOK
  BY DEF TypeOK, Locked, Final
<1>2. TypeOK' <=> RowOK(row)' /\ RestOK'
  BY DEF TypeOK, Locked, Final
<1>3. RowOK(row)'
  <2>1. CASE UNCHANGED row
    BY <1>1, <2>1 DEF Locked, Final
  <2>2. CASE \E r \in Request : row' \in {Processing(r), Stored(r)}
    BY <2>2, ProcessingFits, StoredFits
  <2>3. CASE row' = Nil
    BY <2>3
  <2> QED
    BY <2>1, <2>2, <2>3
       DEF Next, vars, Arrive, Begin, BeginFresh, BeginConflict, BeginReplay, BeginInProgress,
           BeginTakeOver, Insert, HandlerReturns, HandlerThrows, PersistCompletedResponse,
           PersistFails, ClearIdempotencyRecord, Crash, Sweep, Tick
<1>4. RestOK'
  <2>1. CASE UNCHANGED vars
    BY <1>1, <2>1 DEF vars
  <2>2. ASSUME NEW r \in Request, Arrive(r) PROVE RestOK'
    BY <1>1, <2>2 DEF Arrive, Goto, Live, Working
  <2>3. ASSUME NEW r \in Request, Begin(r) PROVE RestOK'
    <3>1. BeginReplay(r) => answer' \in [Request -> Request \cup {Nil}]
      BY <1>1 DEF BeginReplay, Final, Locked, Seen
    <3> QED
      BY <1>1, <2>3, <3>1
         DEF Begin, BeginFresh, BeginConflict, BeginReplay, BeginInProgress, BeginTakeOver,
             Goto, Live, Working
  <2>4. ASSUME NEW r \in Request, Insert(r) PROVE RestOK'
    BY <1>1, <2>4 DEF Insert, Goto, Live, Working
  <2>5. ASSUME NEW r \in Request,
               (\E result \in {"ok", "error"} : HandlerReturns(r, result))
               \/ HandlerThrows(r) \/ Crash(r)
        PROVE  RestOK'
    BY <1>1, <2>5 DEF HandlerReturns, HandlerThrows, Crash, MayTakeEffect, Goto, Live, Working
  <2>6. ASSUME NEW r \in Request,
               PersistCompletedResponse(r) \/ PersistFails(r) \/ ClearIdempotencyRecord(r)
        PROVE  RestOK'
    BY <1>1, <2>6
       DEF PersistCompletedResponse, PersistFails, ClearIdempotencyRecord, Answer, Goto,
           Live, Working
  <2>7. CASE Sweep
    BY <1>1, <2>7 DEF Sweep
  <2>8. CASE Tick
    <3>1. clock' \in 0 .. MaxTime /\ clock' = clock + 1 /\ now' = now
      BY <1>1, <2>8, IdempotencyAssumption DEF Tick
    <3>2. now' \in [Request -> 0 .. clock']
      BY <1>1, <3>1, IdempotencyAssumption
    <3> QED
      BY <1>1, <2>8, <3>1, <3>2 DEF Tick
  <2> QED
    BY <2>1, <2>2, <2>3, <2>4, <2>5, <2>6, <2>7, <2>8 DEF Next
<1> QED
  BY <1>2, <1>3, <1>4

LEMMA KeyInit == Init => TypeOK
  BY IdempotencyAssumption DEF Init, TypeOK, Live, Working

\* A live request is no older than the platform lets it become, so the lock it
\* took when it arrived has not run out.
Young == \A r \in Request : pc[r] \in Live => clock - now[r] <= RequestLimit

\* The row belongs to the request that runs the handler and is as it wrote it.
Owns(r) == pc[r] \in Working => row = Processing(r)

\* A stored answer is one to the payload of the row.
AnswerFits == row # Nil /\ row.status = "completed" => HashOf[row.body] = row.request_hash

KeyInv ==
    /\ TypeOK
    /\ Young
    /\ \A r \in Request : Owns(r)
    /\ OneHandler
    /\ AnswerFits
    /\ AnswersOwnPayload

LEMMA KeyInvInit == Init => KeyInv
<1> SUFFICES ASSUME Init PROVE KeyInv
  OBVIOUS
<1>1. \A r \in Request : pc[r] = "idle" /\ answer[r] = Nil
  BY DEF Init
<1>2. row = Nil
  BY DEF Init
<1> QED
  BY <1>1, <1>2, KeyInit
     DEF KeyInv, Young, Owns, OneHandler, AnswerFits, AnswersOwnPayload, Live, Working

\* While a request runs the handler nobody sees its row as gone, expired or
\* free to take over.
LEMMA LockHolds ==
  ASSUME RequestLimit < LockTtl, KeyInv, NEW r \in Request, pc[r] \in Working
  PROVE  /\ row = Processing(r) /\ row # Nil /\ row.status = "processing"
         /\ row.expires_at > clock
         /\ \A s \in Request : Seen(s) = row /\ row.locked_until > now[s]
<1>1. row = Processing(r)
  BY DEF KeyInv, Owns
<1>2. row \in Record /\ row # Nil
  BY <1>1, ProcessingFits, NoRecordAssumption DEF KeyInv
<1>3. now[r] \in Nat /\ clock \in Nat /\ clock - now[r] <= RequestLimit
  BY IdempotencyAssumption DEF KeyInv, TypeOK, Young, Live
<1>4. /\ row.status = "processing" /\ row.locked_until = now[r] + LockTtl
      /\ row.expires_at = now[r] + Ttl
  BY <1>1 DEF Processing
<1>5. now[r] + LockTtl > clock /\ now[r] + Ttl > clock
  BY <1>3, IdempotencyAssumption
<1>6. \A s \in Request : now[s] \in Nat /\ now[s] <= clock
  BY IdempotencyAssumption DEF KeyInv, TypeOK
<1> QED
  BY <1>1, <1>2, <1>3, <1>4, <1>5, <1>6, IdempotencyAssumption DEF Seen

\* What a request does to the row while another one runs the handler: nothing.
LEMMA OthersLeaveIt ==
  ASSUME RequestLimit < LockTtl, ~LostAcks, KeyInv, Next,
         NEW r \in Request, pc[r] \in Working, pc'[r] \in Working
  PROVE  row' = row /\ now'[r] = now[r] /\ \A s \in Request \ {r} : pc'[s] \notin Working
<1>1. \A s \in Request \ {r} : pc[s] \notin Working
  BY DEF KeyInv, OneHandler
<1>2. /\ row # Nil /\ row.status = "processing" /\ row.expires_at > clock
      /\ \A s \in Request : Seen(s) = row /\ row.locked_until > now[s]
  BY LockHolds
<1>3. /\ clock \in Nat /\ row.expires_at \in Nat
      /\ \A s \in Request : now[s] \in Nat
      /\ row.locked_until \in Nat
  BY <1>2, IdempotencyAssumption DEF KeyInv, TypeOK, Record
<1>4. pc \in [Request -> Live \cup {"idle", "answered", "replayed", "refused", "failed"}]
      /\ now \in [Request -> 0 .. clock]
  BY DEF KeyInv, TypeOK
<1>5. CASE Sweep
  BY <1>2, <1>3, <1>5 DEF Sweep
<1>6. CASE Tick
  BY <1>1, <1>6 DEF Tick
<1>7. ASSUME NEW s \in Request,
             Arrive(s) \/ Begin(s) \/ Insert(s) \/ HandlerThrows(s) \/ Crash(s)
             \/ (\E result \in {"ok", "error"} : HandlerReturns(s, result))
             \/ PersistCompletedResponse(s) \/ PersistFails(s) \/ ClearIdempotencyRecord(s)
      PROVE  row' = row /\ now'[r] = now[r] /\ \A u \in Request \ {r} : pc'[u] \notin Working
  <2>1. CASE s = r
    <3>1. \/ \E result \in {"ok", "error"} : HandlerReturns(r, result)
          \/ PersistFails(r)
      BY <1>4, <1>7, <2>1
         DEF Arrive, Begin, BeginFresh, BeginConflict, BeginReplay, BeginInProgress,
             BeginTakeOver, Insert, HandlerThrows, Crash, PersistCompletedResponse,
             ClearIdempotencyRecord, Answer, Goto, Working
    <3> QED
      BY <1>1, <1>4, <3>1 DEF HandlerReturns, PersistFails, Goto
  <2>2. CASE s # r
    <3>1. pc[s] \notin Working
      BY <1>1, <2>2
    <3>2. \/ Arrive(s) \/ BeginConflict(s) \/ BeginInProgress(s) \/ Insert(s) \/ Crash(s)
      BY <1>2, <1>3, <1>7, <3>1
         DEF Begin, BeginFresh, BeginReplay, BeginTakeOver, HandlerThrows, HandlerReturns,
             PersistCompletedResponse, PersistFails, ClearIdempotencyRecord, Working
    <3>3. \/ Arrive(s) /\ pc' = [pc EXCEPT ![s] = "begin"]
          \/ UNCHANGED <<row, now>> /\ \E l \in {"refused", "failed"} : pc' = [pc EXCEPT ![s] = l]
      BY <1>2, <3>2 DEF Arrive, BeginConflict, BeginInProgress, Insert, Crash, Goto
    <3> QED
      BY <1>1, <1>4, <2>2, <3>3 DEF Arrive, Working
  <2> QED
    BY <2>1, <2>2
<1> QED
  BY <1>5, <1>6, <1>7 DEF Next

\* A request that comes to run the handler has written the row, and nobody ran
\* it before.
LEMMA OneBegins ==
  ASSUME RequestLimit < LockTtl, KeyInv, Next,
         NEW r \in Request, pc[r] \notin Working, pc'[r] \in Working
  PROVE  /\ row' = Processing(r) /\ now' = now
         /\ \A s \in Request \ {r} : pc'[s] \notin Working
<1>0. pc \in [Request -> Live \cup {"idle", "answered", "replayed", "refused", "failed"}]
  BY DEF KeyInv, TypeOK
<1>1. PICK s \in Request : Arrive(s) \/ Begin(s) \/ Insert(s) \/ HandlerThrows(s) \/ Crash(s)
         \/ (\E result \in {"ok", "error"} : HandlerReturns(s, result))
         \/ PersistCompletedResponse(s) \/ PersistFails(s) \/ ClearIdempotencyRecord(s)
  BY DEF Next, Sweep, Tick
<1>2. s = r
  BY <1>0, <1>1
     DEF Arrive, Begin, BeginFresh, BeginConflict, BeginReplay, BeginInProgress,
         BeginTakeOver, Insert, HandlerThrows, HandlerReturns, Crash,
         PersistCompletedResponse, PersistFails, ClearIdempotencyRecord, Answer, Goto
<1>3. \/ BeginTakeOver(r)
      \/ Insert(r) /\ row = Nil
  BY <1>0, <1>1, <1>2
     DEF Arrive, Begin, BeginFresh, BeginConflict, BeginReplay, BeginInProgress, Insert,
         HandlerThrows, HandlerReturns, Crash, PersistCompletedResponse, PersistFails,
         ClearIdempotencyRecord, Answer, Goto, Working
<1>4. row' = Processing(r) /\ now' = now /\ pc' = [pc EXCEPT ![r] = "running"]
  BY <1>3 DEF BeginTakeOver, Insert, Goto
<1>5. \A u \in Request : pc[u] \notin Working
  <2> SUFFICES ASSUME NEW u \in Request, pc[u] \in Working PROVE FALSE
    OBVIOUS
  <2>1. row # Nil /\ row.locked_until > now[r]
    BY LockHolds
  <2>2. row.locked_until \in Nat /\ now[r] \in Nat
    BY LockHolds, IdempotencyAssumption DEF KeyInv, TypeOK, Record
  <2> QED
    BY <1>3, <2>1, <2>2 DEF BeginTakeOver, Insert
<1> QED
  BY <1>0, <1>4, <1>5

LEMMA StaysYoung == KeyInv /\ Next => Young'
<1> SUFFICES ASSUME KeyInv, Next, NEW r \in Request, pc'[r] \in Live
             PROVE  clock' - now'[r] <= RequestLimit
  BY DEF Young
<1>1. /\ pc \in [Request -> Live \cup {"idle", "answered", "replayed", "refused", "failed"}]
      /\ now \in [Request -> Nat] /\ clock \in Nat
  BY IdempotencyAssumption DEF KeyInv, TypeOK
<1>2. CASE Tick
  <2>1. clock - now[r] < RequestLimit /\ clock' = clock + 1 /\ now' = now
    BY <1>2 DEF Tick
  <2> QED
    BY <1>1, <2>1, IdempotencyAssumption
<1>3. CASE Arrive(r)
  BY <1>1, <1>3, IdempotencyAssumption DEF Arrive
<1>4. CASE ~ Tick /\ ~ Arrive(r)
  <2>1. pc[r] \in Live /\ clock' = clock /\ now'[r] = now[r]
    BY <1>1, <1>4
       DEF Next, Arrive, Begin, BeginFresh, BeginConflict, BeginReplay, BeginInProgress,
           BeginTakeOver, Insert, HandlerReturns, HandlerThrows, PersistCompletedResponse,
           PersistFails, ClearIdempotencyRecord, Crash, Sweep, Answer, Goto, Live, Working
  <2> QED
    BY <2>1 DEF KeyInv, Young
<1> QED
  BY <1>2, <1>3, <1>4

LEMMA StaysOwned ==
  ASSUME RequestLimit < LockTtl, ~LostAcks, KeyInv, Next
  PROVE  (\A r \in Request : Owns(r))' /\ OneHandler'
<1> SUFFICES ASSUME NEW r \in Request, pc'[r] \in Working
             PROVE  /\ row' = Processing(r)'
                    /\ \A s \in Request \ {r} : pc'[s] \notin Working
  BY DEF Owns, OneHandler
<1>1. CASE pc[r] \in Working
  <2>1. row = Processing(r)
    BY <1>1 DEF KeyInv, Owns
  <2> QED
    BY <1>1, <2>1, OthersLeaveIt DEF Processing
<1>2. CASE pc[r] \notin Working
  BY <1>2, OneBegins DEF Processing
<1> QED
  BY <1>1, <1>2

LEMMA StaysFitting ==
  ASSUME RequestLimit < LockTtl, ~LostAcks, KeyInv, Next
  PROVE  AnswerFits' /\ AnswersOwnPayload'
<1>1. \A r \in Request : pc[r] \in Working => row = Processing(r)
  BY DEF KeyInv, Owns
<1>2. AnswerFits'
  <2>1. CASE UNCHANGED row
    BY <2>1 DEF KeyInv, AnswerFits
  <2>2. ASSUME NEW r \in Request, pc[r] = "persist", row' = Stored(r) PROVE AnswerFits'
    <3>1. row = Processing(r)
      BY <1>1, <2>2 DEF Working
    <3>2. row.request_hash = HashOf[r]
      BY <3>1 DEF Processing
    <3> QED
      BY <2>2, <3>2, StoredFits DEF AnswerFits, KeyInv
  <2>3. ASSUME NEW r \in Request, row' = Processing(r) PROVE AnswerFits'
    BY <2>3 DEF Processing, AnswerFits
  <2>4. CASE row' = Nil
    BY <2>4 DEF AnswerFits
  <2> QED
    BY <2>1, <2>2, <2>3, <2>4
       DEF Next, Arrive, Begin, BeginFresh, BeginConflict, BeginReplay, BeginInProgress,
           BeginTakeOver, Insert, HandlerReturns, HandlerThrows, PersistCompletedResponse,
           PersistFails, ClearIdempotencyRecord, Crash, Sweep, Tick
<1>3. AnswersOwnPayload'
  <2>1. CASE UNCHANGED answer
    BY <2>1 DEF KeyInv, AnswersOwnPayload
  <2>2. ASSUME NEW r \in Request, BeginReplay(r) PROVE AnswersOwnPayload'
    <3>1. row # Nil /\ HashOf[row.body] = HashOf[r] /\ answer' = [answer EXCEPT ![r] = row.body]
      BY <2>2 DEF BeginReplay, Seen, KeyInv, AnswerFits
    <3> QED
      BY <3>1 DEF KeyInv, TypeOK, AnswersOwnPayload
  <2>3. ASSUME NEW r \in Request, Answer(r) PROVE AnswersOwnPayload'
    BY <2>3 DEF Answer, KeyInv, TypeOK, AnswersOwnPayload
  <2> QED
    BY <2>1, <2>2, <2>3
       DEF Next, Arrive, Begin, BeginFresh, BeginConflict, BeginInProgress, BeginTakeOver,
           Insert, HandlerReturns, HandlerThrows, PersistCompletedResponse, PersistFails,
           ClearIdempotencyRecord, Crash, Sweep, Tick
<1> QED
  BY <1>2, <1>3

LEMMA KeyInvStep ==
  ASSUME RequestLimit < LockTtl, ~LostAcks
  PROVE  KeyInv /\ [Next]_vars => KeyInv'
<1> SUFFICES ASSUME KeyInv, [Next]_vars PROVE KeyInv'
  OBVIOUS
<1>1. TypeOK'
  BY KeyTypes DEF KeyInv
<1>2. CASE UNCHANGED vars
  BY <1>1, <1>2
     DEF vars, KeyInv, Young, Owns, Processing, OneHandler, AnswerFits, AnswersOwnPayload
<1>3. CASE Next
  BY <1>1, <1>3, StaysYoung, StaysOwned, StaysFitting DEF KeyInv
<1> QED
  BY <1>2, <1>3

LEMMA KeyInvariance ==
  ASSUME RequestLimit < LockTtl, ~LostAcks
  PROVE  Spec => []KeyInv
  BY KeyInvInit, KeyInvStep, PTL DEF Spec

\* The row and the requests keep their types, and a row is locked exactly while
\* it is being processed, also where processes outlive the lock and
\* acknowledgements are lost.
THEOREM KeysAreTyped == Spec => []TypeOK
  BY KeyInit, KeyTypes, PTL DEF Spec

\* While the platform ends a request before its lock runs out and a statement
\* that is reported failed has failed, no two requests with one key are ever
\* between the start of the handler and the storing of its answer (ADR-006,
\* "In-flight lock prevents concurrent duplicate requests from racing").
THEOREM HandlersAreSingle ==
  ASSUME RequestLimit < LockTtl, ~LostAcks
  PROVE  Spec => []OneHandler
<1>1. KeyInv => OneHandler
  BY DEF KeyInv
<1> QED
  BY <1>1, KeyInvariance, PTL

\* Under the same conditions a client is only given the answer to its payload.
THEOREM AnswersFitPayloads ==
  ASSUME RequestLimit < LockTtl, ~LostAcks
  PROVE  Spec => []AnswersOwnPayload
<1>1. KeyInv => AnswersOwnPayload
  BY DEF KeyInv
<1> QED
  BY <1>1, KeyInvariance, PTL

\* Under the same conditions no handler takes effect while an unexpired answer
\* is stored (ADR-006, "no operation is re-executed").
THEOREM EffectsPrecedeAnswers ==
  ASSUME RequestLimit < LockTtl, ~LostAcks
  PROVE  Spec => NoEffectBesideAnswer
<1> DEFINE Step == effects' # effects =>
                      ~(row # Nil /\ row.status = "completed" /\ row.expires_at > clock)
<1>1. KeyInv /\ [Next]_vars => [Step]_vars
  <2> SUFFICES ASSUME KeyInv, Next, effects' # effects PROVE row.status = "processing"
    BY DEF vars
  <2>1. PICK r \in Request : pc[r] \in Working
    BY DEF Next, Arrive, Begin, BeginFresh, BeginConflict, BeginReplay, BeginInProgress,
           BeginTakeOver, Insert, HandlerReturns, HandlerThrows, PersistCompletedResponse,
           PersistFails, ClearIdempotencyRecord, Crash, Sweep, Tick, Working
  <2> QED
    BY <2>1, LockHolds
<1> QED
  BY <1>1, KeyInvariance, PTL DEF Spec, NoEffectBesideAnswer

-----------------------------------------------------------------------------
(* Circuit breaker                                                         *)

\* A half-open breaker still waits for a probe: without it one more success
\* could take halfOpenSuccesses out of its type.
AwaitsProbe == state = "HALF_OPEN" => halfOpenSuccesses < HalfOpenSuccessThreshold

BreakerInv == BreakerTypeOK /\ OpensAtThreshold /\ AwaitsProbe

LEMMA CappedBounds ==
    ASSUME NEW limit \in Nat, NEW n \in 0 .. limit
    PROVE  /\ Capped(n + 1, limit) \in 0 .. limit
           /\ n + 1 < limit => Capped(n + 1, limit) = n + 1
           /\ n + 1 >= limit => Capped(n + 1, limit) = limit
  BY DEF Capped

LEMMA BreakerInitInv == BreakerInit => BreakerInv
  BY CircuitBreakerAssumption DEF BreakerInit, BreakerInv, BreakerTypeOK, OpensAtThreshold,
                                  AwaitsProbe, States

\* One fact per action: the step preserves the types and the agreement.
LEMMA ExecuteInv ==
    ASSUME BreakerInv, NEW c \in Caller, Execute(c)
    PROVE  BreakerInv'
  <1> USE CircuitBreakerAssumption DEF BreakerInv, Execute, MayProbe
  <1>1. state' \in States /\ halfOpenSuccesses' \in 0 .. HalfOpenSuccessThreshold
    BY DEF BreakerTypeOK, States
  <1>2. [admitted |-> state', age |-> 0] \in Calls
    BY <1>1 DEF Calls
  <1>3. calls' \in [Caller -> Calls \cup {None}]
    BY <1>2 DEF BreakerTypeOK
  <1>4. state' # "CLOSED" => sinceOpened' # None
    BY DEF BreakerTypeOK
  <1>5. BreakerTypeOK'
    BY <1>1, <1>3, <1>4 DEF BreakerTypeOK
  <1>6. OpensAtThreshold'
    BY DEF OpensAtThreshold
  <1>7. AwaitsProbe'
    BY DEF BreakerTypeOK, AwaitsProbe
  <1> QED
    BY <1>5, <1>6, <1>7

LEMMA OnSuccessInv ==
    ASSUME BreakerInv, NEW c \in Caller, OnSuccess(c)
    PROVE  BreakerInv'
  <1> USE CircuitBreakerAssumption DEF BreakerInv, OnSuccess, Settle
  <1>1. calls' \in [Caller -> Calls \cup {None}]
    BY DEF BreakerTypeOK
  <1>2. CASE state = "HALF_OPEN"
    <2>1. halfOpenSuccesses' = halfOpenSuccesses + 1
      BY <1>2
    <2>2. CASE halfOpenSuccesses' >= HalfOpenSuccessThreshold
      <3>1. halfOpenSuccesses' \in 0 .. HalfOpenSuccessThreshold
        BY <1>2, <2>1 DEF BreakerTypeOK, AwaitsProbe
      <3> QED
        BY <1>1, <1>2, <2>2, <3>1 DEF BreakerTypeOK, OpensAtThreshold, AwaitsProbe, States
    <2>3. CASE ~(halfOpenSuccesses' >= HalfOpenSuccessThreshold)
      BY <1>1, <1>2, <2>1, <2>3 DEF BreakerTypeOK, OpensAtThreshold, AwaitsProbe, States
    <2> QED
      BY <2>2, <2>3
  <1>3. CASE state # "HALF_OPEN"
    BY <1>1, <1>3 DEF BreakerTypeOK, OpensAtThreshold, AwaitsProbe, States
  <1> QED
    BY <1>2, <1>3

LEMMA OnFailureInv ==
    ASSUME BreakerInv, NEW c \in Caller, OnFailure(c)
    PROVE  BreakerInv'
  <1> USE CircuitBreakerAssumption DEF BreakerInv, OnFailure, Settle
  <1>1. calls' \in [Caller -> Calls \cup {None}]
    BY DEF BreakerTypeOK
  <1>2. failures' \in 0 .. FailureThreshold /\ streak' \in 0 .. FailureThreshold
    BY CappedBounds DEF BreakerTypeOK
  <1>3. CASE state = "HALF_OPEN" \/ failures' >= FailureThreshold
    BY <1>1, <1>2, <1>3 DEF BreakerTypeOK, OpensAtThreshold, AwaitsProbe, States
  <1>4. CASE ~(state = "HALF_OPEN" \/ failures' >= FailureThreshold)
    <2>1. state' = state /\ sinceOpened' = sinceOpened
      BY <1>4
    <2>2. state = "CLOSED" => failures' = streak'
      BY DEF OpensAtThreshold
    <2> QED
      BY <1>1, <1>2, <1>4, <2>1, <2>2 DEF BreakerTypeOK, OpensAtThreshold, AwaitsProbe
  <1> QED
    BY <1>3, <1>4

LEMMA TimePassesInv ==
    ASSUME BreakerInv, TimePasses
    PROVE  BreakerInv'
  <1> USE CircuitBreakerAssumption DEF BreakerInv, TimePasses
  <1>1. /\ sinceOpened' \in 0 .. ResetTimeout \cup {None}
        /\ sinceOpened # None => sinceOpened' # None
    BY DEF BreakerTypeOK, Capped
  <1>2. ASSUME NEW c \in Caller, InFlight(c)
        PROVE  [calls[c] EXCEPT !.age = Capped(@ + 1, Timeout + TimerLag)] \in Calls
    <2>1. calls[c] \in Calls
      BY <1>2 DEF BreakerTypeOK, InFlight
    <2>2. Capped(calls[c].age + 1, Timeout + TimerLag) \in 0 .. Timeout + TimerLag
      BY <2>1, CappedBounds DEF Calls
    <2> QED
      BY <2>1, <2>2 DEF Calls
  <1>3. calls' \in [Caller -> Calls \cup {None}]
    BY <1>2
  <1> QED
    BY <1>1, <1>3 DEF BreakerTypeOK, OpensAtThreshold, AwaitsProbe

LEMMA BreakerNextInv == BreakerInv /\ [BreakerNext]_breakerVars => BreakerInv'
  <1> SUFFICES ASSUME BreakerInv, [BreakerNext]_breakerVars PROVE BreakerInv'
    OBVIOUS
  <1>1. ASSUME NEW c \in Caller, TimeOut(c) PROVE BreakerInv'
    BY <1>1, OnFailureInv DEF TimeOut
  <1>2. CASE Reset
    BY <1>2, CircuitBreakerAssumption
       DEF Reset, BreakerInv, BreakerTypeOK, OpensAtThreshold, AwaitsProbe, States
  <1>3. CASE UNCHANGED breakerVars
    BY <1>3 DEF breakerVars, breaker, BreakerInv, BreakerTypeOK, OpensAtThreshold, AwaitsProbe
  <1> QED
    BY <1>1, <1>2, <1>3, ExecuteInv, OnSuccessInv, OnFailureInv, TimePassesInv DEF BreakerNext

LEMMA BreakerInvariance == BreakerSpec => []BreakerInv
  BY BreakerInitInv, BreakerNextInv, PTL DEF BreakerSpec

\* Every field keeps its type, and an open breaker knows since when.
THEOREM BreakerIsTyped == BreakerSpec => []BreakerTypeOK
  BY BreakerInvariance, PTL DEF BreakerInv

\* A closed breaker counts the failures in a row exactly, and they are fewer
\* than the threshold, however the calls overlap.
THEOREM CountsExactly == BreakerSpec => []OpensAtThreshold
  BY BreakerInvariance, PTL DEF BreakerInv

\* When calls end within the waiting time: what is still in flight began before
\* the breaker opened, and once it probes only probes are in flight.
ProbeInv ==
    /\ state = "OPEN" =>
          \A c \in Caller : InFlight(c) => calls[c].age >= sinceOpened
    /\ state = "HALF_OPEN" =>
          \A c \in Caller : InFlight(c) => calls[c].admitted = "HALF_OPEN"

\* The age of a call in flight, and the waiting time of an open breaker.
LEMMA AgesAreNumbers ==
    ASSUME BreakerInv
    PROVE  /\ \A c \in Caller : InFlight(c) =>
                 calls[c] \in Calls /\ calls[c].age \in 0 .. Timeout + TimerLag
           /\ state = "OPEN" => sinceOpened \in 0 .. ResetTimeout
  BY DEF BreakerInv, BreakerTypeOK, InFlight, Calls

\* A breaker whose wait is over has no call in flight.
LEMMA NoneOutlivesTheWait ==
    ASSUME BreakerInv, ProbeInv, MayProbe, Timeout + TimerLag < ResetTimeout, NEW c \in Caller
    PROVE  ~InFlight(c)
  <1> SUFFICES ASSUME InFlight(c) PROVE FALSE
    OBVIOUS
  <1>1. calls[c].age \in 0 .. Timeout + TimerLag
    BY AgesAreNumbers
  <1>2. calls[c].age >= ResetTimeout
    BY DEF ProbeInv, MayProbe
  <1> QED BY <1>1, <1>2, CircuitBreakerAssumption

\* A call that settles leaves the other calls as they were.
LEMMA SettleKeeps ==
    ASSUME BreakerInv, NEW c \in Caller, Settle(c), NEW d \in Caller, InFlight(d)'
    PROVE  InFlight(d) /\ calls'[d] = calls[d]
  BY DEF Settle, InFlight, BreakerInv, BreakerTypeOK

LEMMA ExecuteProbes ==
    ASSUME BreakerInv, ProbeInv, Timeout + TimerLag < ResetTimeout, NEW c \in Caller, Execute(c)
    PROVE  ProbeInv'
  <1>1. calls' = [calls EXCEPT ![c] = [admitted |-> state', age |-> 0]]
    BY DEF Execute
  <1>2. calls'[c].admitted = state' /\ \A d \in Caller \ {c} : calls'[d] = calls[d]
    BY <1>1 DEF BreakerInv, BreakerTypeOK
  <1>3. state' # "OPEN"
    BY DEF Execute, MayProbe
  <1>4. CASE MayProbe
    <2>1. \A d \in Caller : ~InFlight(d)
      BY <1>4, NoneOutlivesTheWait
    <2> QED BY <1>2, <1>3, <2>1 DEF ProbeInv, InFlight
  <1>5. CASE ~MayProbe
    <2>1. state' = state
      BY <1>5 DEF Execute
    <2> QED BY <1>2, <1>3, <2>1 DEF ProbeInv, InFlight
  <1> QED BY <1>4, <1>5

LEMMA OnSuccessProbes ==
    ASSUME BreakerInv, ProbeInv, NEW c \in Caller, OnSuccess(c)
    PROVE  ProbeInv'
  <1>1. Settle(c)
    BY DEF OnSuccess
  <1>2. state' = "CLOSED" \/ (state' = state /\ sinceOpened' = sinceOpened)
    BY DEF OnSuccess
  <1>3. \A d \in Caller : InFlight(d)' => InFlight(d) /\ calls'[d] = calls[d]
    BY <1>1, SettleKeeps
  <1> QED BY <1>2, <1>3 DEF ProbeInv

LEMMA OnFailureProbes ==
    ASSUME BreakerInv, ProbeInv, NEW c \in Caller, OnFailure(c)
    PROVE  ProbeInv'
  <1>1. Settle(c)
    BY DEF OnFailure
  <1>2. \/ state' = "OPEN" /\ sinceOpened' = 0
        \/ state' = state /\ sinceOpened' = sinceOpened
    BY DEF OnFailure
  <1>3. \A d \in Caller : InFlight(d)' => InFlight(d) /\ calls'[d] = calls[d]
    BY <1>1, SettleKeeps
  <1>4. CASE state' = "OPEN" /\ sinceOpened' = 0
    <2>1. \A d \in Caller : InFlight(d)' => calls'[d].age \in 0 .. Timeout + TimerLag
      BY <1>3, AgesAreNumbers
    <2>2. \A d \in Caller : InFlight(d)' => calls'[d].age >= 0
      BY <2>1, CircuitBreakerAssumption
    <2> QED BY <1>4, <2>2 DEF ProbeInv
  <1>5. CASE state' = state /\ sinceOpened' = sinceOpened
    BY <1>3, <1>5 DEF ProbeInv
  <1> QED BY <1>2, <1>4, <1>5

LEMMA TimePassesProbes ==
    ASSUME BreakerInv, ProbeInv, Timeout > 0, TimePasses
    PROVE  ProbeInv'
  <1>1. state' = state
    BY DEF TimePasses
  <1>2. ASSUME NEW c \in Caller, InFlight(c)'
        PROVE  /\ InFlight(c) /\ calls'[c].admitted = calls[c].admitted
               /\ calls'[c].age = calls[c].age + 1
    <2>1. InFlight(c)
      BY <1>2 DEF TimePasses, InFlight
    <2>2. calls'[c] = [calls[c] EXCEPT !.age = Capped(@ + 1, Timeout + TimerLag)]
      BY <2>1 DEF TimePasses
    <2>3. calls[c] \in Calls /\ calls[c].age \in 0 .. Timeout + TimerLag
      BY <2>1, AgesAreNumbers
    <2>4. calls[c].age < Timeout + TimerLag
      BY <2>1 DEF TimePasses
    <2>5. Capped(calls[c].age + 1, Timeout + TimerLag) = calls[c].age + 1
      BY <2>3, <2>4, CircuitBreakerAssumption DEF Capped
    <2> QED BY <2>1, <2>2, <2>3, <2>5 DEF Calls
  <1>3. ASSUME state = "OPEN", NEW c \in Caller, InFlight(c)'
        PROVE  calls'[c].age >= sinceOpened'
    <2>1. calls[c].age >= sinceOpened /\ calls'[c].age = calls[c].age + 1
      BY <1>2, <1>3 DEF ProbeInv
    <2>2. sinceOpened \in 0 .. ResetTimeout /\ calls[c].age \in 0 .. Timeout + TimerLag
      BY <1>2, <1>3, AgesAreNumbers
    <2>3. sinceOpened' = Capped(sinceOpened + 1, ResetTimeout)
      BY <2>2, CircuitBreakerAssumption DEF TimePasses
    <2>4. sinceOpened' <= sinceOpened + 1
      BY <2>2, <2>3, CircuitBreakerAssumption DEF Capped
    <2>5. sinceOpened' \in Int
      BY <2>2, <2>3, CircuitBreakerAssumption DEF Capped
    <2> QED BY <2>1, <2>2, <2>4, <2>5, CircuitBreakerAssumption
  <1> QED BY <1>1, <1>2, <1>3 DEF ProbeInv

LEMMA ProbesStep ==
    ASSUME Timeout > 0, Timeout + TimerLag < ResetTimeout,
           BreakerInv, ProbeInv, [BreakerNext]_breakerVars
    PROVE  ProbeInv'
  <1>1. ASSUME NEW c \in Caller, TimeOut(c) PROVE ProbeInv'
    BY <1>1, OnFailureProbes DEF TimeOut
  <1>2. CASE Reset
    BY <1>2 DEF Reset, ProbeInv
  <1>3. CASE UNCHANGED breakerVars
    BY <1>3 DEF breakerVars, breaker, ProbeInv, InFlight
  <1> QED
    BY <1>1, <1>2, <1>3, ExecuteProbes, OnSuccessProbes, OnFailureProbes, TimePassesProbes
       DEF BreakerNext

\* A closed breaker opens at the threshold and never earlier; a half-open one opens
\* on the failure of a probe, if every call ends within the waiting time.
THEOREM OpensWithCause ==
  ASSUME Timeout > 0, Timeout + TimerLag < ResetTimeout
  PROVE  BreakerSpec => OpensForCause
  <1> DEFINE Cause == state # "OPEN" /\ state' = "OPEN" =>
                        /\ state = "CLOSED" => streak + 1 = FailureThreshold
                        /\ state = "HALF_OPEN" =>
                             /\ streak' > 0
                             /\ \E c \in Caller :
                                   /\ InFlight(c) /\ calls[c].admitted = "HALF_OPEN"
                                   /\ calls'[c] = None
  <1>1. BreakerInit => ProbeInv
    BY DEF BreakerInit, ProbeInv
  <1>2. BreakerInv /\ ProbeInv /\ [BreakerNext]_breakerVars => ProbeInv'
    BY ProbesStep
  <1>3. BreakerInv /\ ProbeInv /\ [BreakerNext]_breakerVars => [Cause]_breakerVars
    <2> SUFFICES ASSUME BreakerInv, ProbeInv, BreakerNext, state # "OPEN", state' = "OPEN"
                 PROVE  Cause
      BY DEF breakerVars, breaker
    <2>1. PICK c \in Caller : OnFailure(c)
      BY DEF BreakerNext, Execute, MayProbe, OnSuccess, TimeOut, Reset, TimePasses
    <2>2. /\ failures' = Capped(failures + 1, FailureThreshold)
          /\ streak' = Capped(streak + 1, FailureThreshold)
          /\ streak \in 0 .. FailureThreshold
      BY <2>1 DEF OnFailure, BreakerInv, BreakerTypeOK
    <2>3. ASSUME state = "CLOSED" PROVE streak + 1 = FailureThreshold
      <3>1. failures = streak /\ failures < FailureThreshold
        BY <2>3 DEF BreakerInv, OpensAtThreshold
      <3>2. failures' >= FailureThreshold
        BY <2>1, <2>3 DEF OnFailure
      <3> QED
        BY <2>2, <3>1, <3>2, CircuitBreakerAssumption DEF Capped
    <2>4. streak' > 0
      BY <2>2, CircuitBreakerAssumption DEF Capped
    <2>5. ASSUME state = "HALF_OPEN"
          PROVE  InFlight(c) /\ calls[c].admitted = "HALF_OPEN" /\ calls'[c] = None
      <3>1. InFlight(c) /\ calls' = [calls EXCEPT ![c] = None]
        BY <2>1 DEF OnFailure, Settle
      <3> QED
        BY <2>5, <3>1 DEF ProbeInv, BreakerInv, BreakerTypeOK
    <2> QED
      BY <2>3, <2>4, <2>5
  <1> QED
    BY <1>1, <1>2, <1>3, BreakerInvariance, PTL DEF BreakerSpec, OpensForCause

-----------------------------------------------------------------------------
(* Rate limiter                                                            *)

\* Every set of natural numbers has a least one: how what follows counts up.
LEMMA LeastNat ==
  ASSUME NEW T, T \subseteq Nat, T # {}
  PROVE  \E n \in T : \A m \in T : n <= m
<1> DEFINE Below == {0 .. n : n \in T}
<1>1. Below \subseteq FiniteSubsetsOf(Nat)
  <2> SUFFICES ASSUME NEW n \in T PROVE 0 .. n \in FiniteSubsetsOf(Nat)
    OBVIOUS
  <2>1. n \in Int /\ 0 .. n \in SUBSET Nat
    OBVIOUS
  <2> QED
    BY <2>1, FS_Interval DEF FiniteSubsetsOf
<1>2. PICK X \in Below : \A Y \in Below : <<Y, X>> \notin StrictSubsetOrdering(Nat)
  <2>1. Below # {}
    OBVIOUS
  <2> HIDE DEF Below
  <2> QED
    BY <1>1, <2>1, WFMin, FS_StrictSubsetOrderingWellFounded
<1>3. PICK n \in T : X = 0 .. n
  BY <1>2
<1>4. ASSUME NEW m \in T, m < n PROVE FALSE
  <2>1. 0 .. m \in Below
    OBVIOUS
  <2>2. 0 .. m \in SUBSET Nat /\ 0 .. n \in SUBSET Nat
    OBVIOUS
  <2>3. 0 .. m \subseteq 0 .. n /\ 0 .. m # 0 .. n
    <3>1. n \in 0 .. n /\ n \notin 0 .. m
      BY <1>4
    <3> QED
      BY <1>4, <3>1
  <2>4. <<0 .. m, X>> \in StrictSubsetOrdering(Nat)
    BY <1>3, <2>2, <2>3 DEF StrictSubsetOrdering
  <2> QED
    BY <1>2, <2>1, <2>4
<1> QED
  BY <1>4

-----------------------------------------------------------------------------

\* f follows the filter of s up to n.
Filters(f, s, m, n) ==
  /\ f[0] = <<>>
  /\ \A i \in 1 .. n : f[i] = IF s[i] > m THEN Append(f[i - 1], s[i]) ELSE f[i - 1]

LEMMA FilterExists ==
  ASSUME NEW s, Len(s) \in Nat, NEW m
  PROVE  \A n \in 0 .. Len(s) : \E f : Filters(f, s, m, n) /\ f = [i \in 0 .. n |-> f[i]]
<1> DEFINE Bad == {n \in 0 .. Len(s) : ~ \E f : Filters(f, s, m, n) /\ f = [i \in 0 .. n |-> f[i]]}
<1>1. SUFFICES ASSUME Bad # {} PROVE FALSE
  OBVIOUS
<1>2. PICK n \in Bad : \A k \in Bad : n <= k
  <2>1. Bad \subseteq Nat
    OBVIOUS
  <2> HIDE DEF Bad
  <2> QED
    BY <1>1, <2>1, LeastNat
<1>3. n # 0
  <2> SUFFICES ASSUME n = 0 PROVE FALSE
    OBVIOUS
  <2> DEFINE f == [i \in 0 .. 0 |-> <<>>]
  <2>1. Filters(f, s, m, 0)
    BY DEF Filters
  <2>2. f = [i \in 0 .. 0 |-> f[i]]
    OBVIOUS
  <2> QED
    BY <2>1, <2>2, <1>2
<1>4. n - 1 \in 0 .. Len(s) /\ n \in 1 .. Len(s)
  BY <1>3
<1>5. n - 1 \notin Bad
  BY <1>2
<1>6. PICK f : Filters(f, s, m, n - 1) /\ f = [i \in 0 .. (n - 1) |-> f[i]]
  BY <1>4, <1>5
<1> DEFINE last == IF s[n] > m THEN Append(f[n - 1], s[n]) ELSE f[n - 1]
           g == [i \in 0 .. n |-> IF i = n THEN last ELSE f[i]]
<1>7. Filters(g, s, m, n)
  <2>1. \A i \in 0 .. (n - 1) : g[i] = f[i]
    BY <1>4
  <2>2. g[n] = last
    BY <1>4
  <2>3. g[0] = <<>>
    BY <1>4, <1>6, <2>1 DEF Filters
  <2>4. ASSUME NEW i \in 1 .. n
        PROVE  g[i] = IF s[i] > m THEN Append(g[i - 1], s[i]) ELSE g[i - 1]
    <3>1. CASE i = n
      <4>1. g[i - 1] = f[n - 1]
        BY <1>4, <2>1, <3>1
      <4> QED
        BY <2>2, <3>1, <4>1
    <3>2. CASE i # n
      <4>1. i \in 1 .. (n - 1) /\ i \in 0 .. (n - 1) /\ i - 1 \in 0 .. (n - 1)
        BY <1>4, <3>2
      <4>2. g[i] = f[i] /\ g[i - 1] = f[i - 1]
        BY <2>1, <4>1
      <4>3. f[i] = IF s[i] > m THEN Append(f[i - 1], s[i]) ELSE f[i - 1]
        BY <1>6, <4>1 DEF Filters
      <4> QED
        BY <4>2, <4>3
    <3> QED
      BY <3>1, <3>2
  <2> HIDE DEF g
  <2> QED
    BY <2>3, <2>4 DEF Filters
<1>8. g = [i \in 0 .. n |-> g[i]]
  OBVIOUS
<1> QED
  BY <1>7, <1>8, <1>2

\* The filter is what its recursion says it is.
LEMMA AfterFilters ==
  ASSUME NEW s, Len(s) \in Nat, NEW m
  PROVE  \E f : Filters(f, s, m, Len(s)) /\ After(s, m) = f[Len(s)]
<1> DEFINE Solves(f) == f = [i \in 0 .. Len(s) |->
                               IF i = 0 THEN <<>>
                               ELSE IF s[i] > m THEN Append(f[i - 1], s[i]) ELSE f[i - 1]]
<1>1. \E f : Solves(f)
  <2>1. PICK f : Filters(f, s, m, Len(s)) /\ f = [i \in 0 .. Len(s) |-> f[i]]
    <3>1. Len(s) \in 0 .. Len(s)
      OBVIOUS
    <3> HIDE DEF Solves
    <3> QED
      BY <3>1, FilterExists
  <2>2. ASSUME NEW i \in 0 .. Len(s)
        PROVE  f[i] = IF i = 0 THEN <<>>
                      ELSE IF s[i] > m THEN Append(f[i - 1], s[i]) ELSE f[i - 1]
    <3>1. CASE i = 0
      BY <2>1, <3>1 DEF Filters
    <3>2. CASE i # 0
      <4>1. i \in 1 .. Len(s)
        BY <3>2
      <4> QED
        BY <2>1, <3>2, <4>1 DEF Filters
    <3> QED
      BY <3>1, <3>2
  <2>3. Solves(f)
    BY <2>1, <2>2
  <2> QED
    BY <2>3
<1> DEFINE k == CHOOSE f : Solves(f)
<1>2. Solves(k)
  <2> HIDE DEF Solves
  <2> QED
    BY <1>1
<1>3. After(s, m) = k[Len(s)]
  BY DEF After
<1> HIDE DEF k
<1>4. Filters(k, s, m, Len(s))
  <2>1. k[0] = <<>>
    <3>1. 0 \in 0 .. Len(s)
      OBVIOUS
    <3> QED
      BY <1>2, <3>1
  <2>2. ASSUME NEW i \in 1 .. Len(s)
        PROVE  k[i] = IF s[i] > m THEN Append(k[i - 1], s[i]) ELSE k[i - 1]
    <3>1. i \in 0 .. Len(s) /\ i # 0
      OBVIOUS
    <3> QED
      BY <1>2, <3>1
  <2> HIDE DEF Solves
  <2> QED
    BY <2>1, <2>2 DEF Filters
<1> QED
  BY <1>3, <1>4

\* e tells where in the first n of s each member of t comes from; every member
\* of s later than m is there.
Embeds(e, t, s, m, n) ==
  /\ e \in Injection(1 .. Len(t), 1 .. n)
  /\ \A j \in 1 .. Len(t) : t[j] = s[e[j]] /\ s[e[j]] > m
  /\ \A i \in 1 .. n : s[i] > m => \E j \in 1 .. Len(t) : e[j] = i

LEMMA EmbedsNext ==
  ASSUME NEW S \in SUBSET Int, NEW s \in Seq(S), NEW m \in Int, NEW n \in 1 .. Len(s),
         NEW t \in Seq(S), NEW e, Embeds(e, t, s, m, n - 1)
  PROVE  LET u == IF s[n] > m THEN Append(t, s[n]) ELSE t
         IN  u \in Seq(S) /\ \E d : Embeds(d, u, s, m, n)
<1>1. s[n] \in S
  OBVIOUS
<1>2. /\ e \in [1 .. Len(t) -> 1 .. (n - 1)]
      /\ \A i, j \in 1 .. Len(t) : e[i] = e[j] => i = j
  BY DEF Embeds, Injection, IsInjective
<1>3. CASE ~(s[n] > m)
  <2>1. e \in Injection(1 .. Len(t), 1 .. n)
    BY <1>2 DEF Injection, IsInjective
  <2>2. \A i \in 1 .. n : s[i] > m => \E j \in 1 .. Len(t) : e[j] = i
    <3> SUFFICES ASSUME NEW i \in 1 .. n, s[i] > m PROVE i \in 1 .. (n - 1)
      BY DEF Embeds
    <3> QED
      BY <1>3
  <2>3. Embeds(e, t, s, m, n)
    BY <2>1, <2>2 DEF Embeds
  <2> QED
    BY <1>3, <2>3
<1>4. CASE s[n] > m
  <2> DEFINE u == Append(t, s[n])
             d == [j \in 1 .. Len(u) |-> IF j = Len(u) THEN n ELSE e[j]]
  <2>1. u \in Seq(S) /\ Len(u) = Len(t) + 1 /\ u[Len(u)] = s[n]
        /\ \A j \in 1 .. Len(t) : u[j] = t[j]
    BY <1>1
  <2>2. d \in Injection(1 .. Len(u), 1 .. n)
    <3>1. \A j \in 1 .. Len(u) : d[j] \in 1 .. n
      BY <1>2, <2>1
    <3>2. \A i, j \in 1 .. Len(u) : d[i] = d[j] => i = j
      BY <1>2, <2>1
    <3> QED
      BY <3>1, <3>2 DEF Injection, IsInjective
  <2>3. \A j \in 1 .. Len(u) : u[j] = s[d[j]] /\ s[d[j]] > m
    <3> SUFFICES ASSUME NEW j \in 1 .. Len(u) PROVE u[j] = s[d[j]] /\ s[d[j]] > m
      OBVIOUS
    <3>1. CASE j = Len(u)
      BY <1>4, <2>1, <3>1
    <3>2. CASE j # Len(u)
      BY <2>1, <3>2 DEF Embeds
    <3> QED
      BY <3>1, <3>2
  <2>4. \A i \in 1 .. n : s[i] > m => \E j \in 1 .. Len(u) : d[j] = i
    <3> SUFFICES ASSUME NEW i \in 1 .. n, s[i] > m
                 PROVE  \E j \in 1 .. Len(u) : d[j] = i
      OBVIOUS
    <3>1. CASE i = n
      BY <2>1, <3>1
    <3>2. CASE i # n
      <4>1. PICK j \in 1 .. Len(t) : e[j] = i
        BY <3>2 DEF Embeds
      <4> QED
        BY <2>1, <4>1
    <3> QED
      BY <3>1, <3>2
  <2> HIDE DEF d, u
  <2>5. Embeds(d, u, s, m, n)
    BY <2>2, <2>3, <2>4 DEF Embeds
  <2> QED
    BY <1>4, <2>1, <2>5 DEF u
<1> QED
  BY <1>3, <1>4

\* The filter keeps exactly the members later than m.
LEMMA AfterEmbeds ==
  ASSUME NEW S \in SUBSET Int, NEW s \in Seq(S), NEW m \in Int
  PROVE  After(s, m) \in Seq(S) /\ \E e : Embeds(e, After(s, m), s, m, Len(s))
<1>0. Len(s) \in Nat
  OBVIOUS
<1>1. PICK f : Filters(f, s, m, Len(s)) /\ After(s, m) = f[Len(s)]
  BY <1>0, AfterFilters
<1> DEFINE Good(n) == f[n] \in Seq(S) /\ \E e : Embeds(e, f[n], s, m, n)
           Bad == {n \in 0 .. Len(s) : ~ Good(n)}
<1>2. SUFFICES ASSUME Bad # {} PROVE FALSE
  BY <1>1
<1>3. PICK n \in Bad : \A k \in Bad : n <= k
  <2>1. Bad \subseteq Nat
    OBVIOUS
  <2> HIDE DEF Bad
  <2> QED
    BY <1>2, <2>1, LeastNat
<1>4. CASE n = 0
  <2>1. f[0] = <<>>
    BY <1>1 DEF Filters
  <2>2. \E e : Embeds(e, <<>>, s, m, 0)
    <3> DEFINE e == [j \in 1 .. 0 |-> j]
    <3>1. e \in Injection(1 .. 0, 1 .. 0) /\ Len(<<>>) = 0
      BY DEF Injection, IsInjective
    <3>2. Embeds(e, <<>>, s, m, 0)
      BY <3>1 DEF Embeds
    <3> QED
      BY <3>2
  <2>3. Good(0)
    <3>1. <<>> \in Seq(S)
      OBVIOUS
    <3> QED
      BY <2>1, <2>2, <3>1
  <2> QED
    BY <1>3, <1>4, <2>3
<1>5. CASE n # 0
  <2>1. n - 1 \in 0 .. Len(s) /\ n \in 1 .. Len(s)
    BY <1>3, <1>5
  <2>2. Good(n - 1)
    BY <1>3, <2>1
  <2>3. f[n] = IF s[n] > m THEN Append(f[n - 1], s[n]) ELSE f[n - 1]
    BY <1>1, <2>1 DEF Filters
  <2>4. Good(n)
    BY <2>1, <2>2, <2>3, EmbedsNext
  <2> QED
    BY <1>3, <2>4
<1> QED
  BY <1>4, <1>5

LEMMA IntervalSize ==
  ASSUME NEW n \in Nat
  PROVE  IsFiniteSet(1 .. n) /\ Cardinality(1 .. n) = n
<1>1. 1 \in Int /\ n \in Int /\ (1 > n => n = 0)
  OBVIOUS
<1> QED
  BY <1>1, FS_Interval

\* A member that the filter drops makes the list shorter.
LEMMA AfterShortens ==
  ASSUME NEW S \in SUBSET Int, NEW s \in Seq(S), NEW m \in Int
  PROVE  /\ Len(After(s, m)) <= Len(s)
         /\ \A p \in 1 .. Len(s) : s[p] <= m => Len(After(s, m)) < Len(s)
<1> DEFINE t == After(s, m)
<1>1. t \in Seq(S) /\ Len(t) \in Nat /\ Len(s) \in Nat /\ \A p \in 1 .. Len(s) : s[p] \in Int
  <2>1. t \in Seq(S)
    BY AfterEmbeds
  <2> HIDE DEF t
  <2>2. Len(t) \in Nat /\ Len(s) \in Nat
    BY <2>1
  <2>3. ASSUME NEW p \in 1 .. Len(s) PROVE s[p] \in Int
    <3>1. s[p] \in S
      OBVIOUS
    <3> QED
      BY <3>1
  <2> QED
    BY <2>1, <2>2, <2>3
<1>2. PICK e : Embeds(e, t, s, m, Len(s))
  BY AfterEmbeds
<1> HIDE DEF t
<1>3. ASSUME NEW Q \in SUBSET (1 .. Len(s)), \A j \in 1 .. Len(t) : e[j] \in Q
      PROVE  Len(t) <= Cardinality(Q)
  <2>1. e \in Injection(1 .. Len(t), Q)
    BY <1>2, <1>3 DEF Embeds, Injection, IsInjective
  <2>2. IsFiniteSet(Q)
    BY <1>1, IntervalSize, FS_Subset
  <2>3. Cardinality(1 .. Len(t)) = Len(t)
    BY <1>1, IntervalSize
  <2> QED
    BY <2>1, <2>2, <2>3, FS_Injection
<1>4. IsFiniteSet(1 .. Len(s)) /\ Cardinality(1 .. Len(s)) = Len(s)
  BY <1>1, IntervalSize
<1>5. Len(t) <= Len(s)
  BY <1>2, <1>3, <1>4 DEF Embeds, Injection
<1>6. ASSUME NEW p \in 1 .. Len(s), s[p] <= m PROVE Len(t) < Len(s)
  <2>1. \A j \in 1 .. Len(t) : e[j] \in 1 .. Len(s) \ {p}
    <3> SUFFICES ASSUME NEW j \in 1 .. Len(t) PROVE e[j] \in 1 .. Len(s) /\ e[j] # p
      OBVIOUS
    <3>1. e[j] \in 1 .. Len(s) /\ s[e[j]] > m
      BY <1>2 DEF Embeds, Injection
    <3> QED
      BY <1>1, <1>6, <3>1
  <2>2. Cardinality(1 .. Len(s) \ {p}) = Len(s) - 1
    BY <1>4, FS_RemoveElement
  <2>3. Len(t) <= Cardinality(1 .. Len(s) \ {p})
    BY <1>3, <2>1
  <2> QED
    BY <1>1, <2>2, <2>3
<1> QED
  BY <1>5, <1>6 DEF t

-----------------------------------------------------------------------------

\* R is a set of recorded requests <<time, number>>.  Within: each member of s
\* is the time of a request of R, of another one for each.
Within(s, R) ==
  \E f \in Injection(1 .. Len(s), R) : \A i \in 1 .. Len(s) : f[i][1] = s[i]

\* Each request of R has its time in s, each in another place.
Holds(s, R) ==
  \E g \in Injection(R, 1 .. Len(s)) : \A x \in R : s[g[x]] = x[1]

LEMMA WithinMore ==
  ASSUME NEW s, NEW R, NEW Q, Within(s, R), R \subseteq Q
  PROVE  Within(s, Q)
  BY DEF Within, Injection, IsInjective

LEMMA WithinAfter ==
  ASSUME NEW S \in SUBSET Int, NEW s \in Seq(S), NEW m \in Int, NEW R, Within(s, R)
  PROVE  Within(After(s, m), {x \in R : x[1] > m})
<1> DEFINE t == After(s, m)
           Q == {x \in R : x[1] > m}
<1>1. PICK e : Embeds(e, t, s, m, Len(s))
  BY AfterEmbeds
<1>2. PICK f \in Injection(1 .. Len(s), R) : \A i \in 1 .. Len(s) : f[i][1] = s[i]
  BY DEF Within
<1> HIDE DEF t
<1> DEFINE h == [j \in 1 .. Len(t) |-> f[e[j]]]
<1>3. \A j \in 1 .. Len(t) : h[j] \in Q /\ h[j][1] = t[j]
  BY <1>1, <1>2 DEF Embeds, Injection
<1>4. \A i, j \in 1 .. Len(t) : h[i] = h[j] => i = j
  BY <1>1, <1>2 DEF Embeds, Injection, IsInjective
<1>5. h \in Injection(1 .. Len(t), Q)
  BY <1>3, <1>4 DEF Injection, IsInjective
<1> HIDE DEF h, Q
<1>6. Within(t, Q)
  BY <1>3, <1>5 DEF Within
<1> QED
  BY <1>6 DEF t, Q

LEMMA WithinAppend ==
  ASSUME NEW S \in SUBSET Int, NEW s \in Seq(S), NEW R, NEW y, y[1] \in S, y \notin R,
         Within(s, R)
  PROVE  Within(Append(s, y[1]), R \cup {y})
<1> DEFINE u == Append(s, y[1])
<1>1. /\ Len(u) = Len(s) + 1 /\ Len(s) \in Nat /\ u[Len(u)] = y[1]
      /\ \A j \in 1 .. Len(s) : u[j] = s[j]
  OBVIOUS
<1>2. PICK f \in Injection(1 .. Len(s), R) : \A i \in 1 .. Len(s) : f[i][1] = s[i]
  BY DEF Within
<1> HIDE DEF u
<1> DEFINE h == [j \in 1 .. Len(u) |-> IF j = Len(u) THEN y ELSE f[j]]
<1>3. \A j \in 1 .. Len(u) : h[j] \in R \cup {y} /\ h[j][1] = u[j]
  BY <1>1, <1>2 DEF Injection
<1>4. \A i, j \in 1 .. Len(u) : h[i] = h[j] => i = j
  BY <1>1, <1>2 DEF Injection, IsInjective
<1>5. h \in Injection(1 .. Len(u), R \cup {y})
  BY <1>3, <1>4 DEF Injection, IsInjective
<1> HIDE DEF h
<1>6. Within(u, R \cup {y})
  BY <1>3, <1>5 DEF Within
<1> QED
  BY <1>6 DEF u

LEMMA WithinCounts ==
  ASSUME NEW s, Len(s) \in Nat, NEW R, IsFiniteSet(R), Within(s, R)
  PROVE  Len(s) <= Cardinality(R)
  BY IntervalSize, FS_Injection DEF Within

LEMMA HoldsLess ==
  ASSUME NEW s, NEW R, NEW Q, Holds(s, R), Q \subseteq R
  PROVE  Holds(s, Q)
<1>1. PICK g \in Injection(R, 1 .. Len(s)) : \A x \in R : s[g[x]] = x[1]
  BY DEF Holds
<1> DEFINE h == [x \in Q |-> g[x]]
<1>2. h \in Injection(Q, 1 .. Len(s)) /\ \A x \in Q : s[h[x]] = x[1]
  BY <1>1 DEF Injection, IsInjective
<1> HIDE DEF h
<1> QED
  BY <1>2 DEF Holds

LEMMA HoldsNone == \A s : Holds(s, {})
<1> SUFFICES ASSUME NEW s PROVE Holds(s, {})
  OBVIOUS
<1> DEFINE h == [x \in {} |-> 1]
<1>1. h \in Injection({}, 1 .. Len(s))
  BY DEF Injection, IsInjective
<1> QED
  BY <1>1 DEF Holds

LEMMA HoldsAfter ==
  ASSUME NEW S \in SUBSET Int, NEW s \in Seq(S), NEW m \in Int,
         NEW R, \A x \in R : x[1] > m, Holds(s, R)
  PROVE  Holds(After(s, m), R)
<1> DEFINE t == After(s, m)
<1>1. PICK e : Embeds(e, t, s, m, Len(s))
  BY AfterEmbeds
<1>2. PICK g \in Injection(R, 1 .. Len(s)) : \A x \in R : s[g[x]] = x[1]
  BY DEF Holds
<1> HIDE DEF t
<1> DEFINE h == [x \in R |-> CHOOSE j \in 1 .. Len(t) : e[j] = g[x]]
<1>3. ASSUME NEW x \in R PROVE h[x] \in 1 .. Len(t) /\ e[h[x]] = g[x] /\ t[h[x]] = x[1]
  <2>1. g[x] \in 1 .. Len(s) /\ s[g[x]] > m
    BY <1>2 DEF Injection
  <2>2. \E j \in 1 .. Len(t) : e[j] = g[x]
    BY <1>1, <2>1 DEF Embeds
  <2>3. h[x] \in 1 .. Len(t) /\ e[h[x]] = g[x]
    BY <2>2
  <2> HIDE DEF h
  <2> QED
    BY <1>1, <1>2, <2>3 DEF Embeds
<1> HIDE DEF h
<1>4. \A x, y \in R : h[x] = h[y] => x = y
  BY <1>2, <1>3 DEF Injection, IsInjective
<1>5. h \in Injection(R, 1 .. Len(t))
  BY <1>3, <1>4 DEF h, Injection, IsInjective
<1>6. Holds(t, R)
  BY <1>3, <1>5 DEF Holds
<1> QED
  BY <1>6 DEF t

LEMMA HoldsAppend ==
  ASSUME NEW S \in SUBSET Int, NEW s \in Seq(S), NEW R, NEW y, y[1] \in S, y \notin R,
         Holds(s, R)
  PROVE  Holds(Append(s, y[1]), R \cup {y})
<1> DEFINE u == Append(s, y[1])
<1>1. /\ Len(u) = Len(s) + 1 /\ Len(s) \in Nat /\ u[Len(u)] = y[1]
      /\ \A j \in 1 .. Len(s) : u[j] = s[j]
  OBVIOUS
<1>2. PICK g \in Injection(R, 1 .. Len(s)) : \A x \in R : s[g[x]] = x[1]
  BY DEF Holds
<1> HIDE DEF u
<1> DEFINE h == [x \in R \cup {y} |-> IF x = y THEN Len(u) ELSE g[x]]
<1>3. \A x \in R \cup {y} : h[x] \in 1 .. Len(u) /\ u[h[x]] = x[1]
  BY <1>1, <1>2 DEF Injection
<1>4. \A x, z \in R \cup {y} : h[x] = h[z] => x = z
  BY <1>1, <1>2 DEF Injection, IsInjective
<1>5. h \in Injection(R \cup {y}, 1 .. Len(u))
  BY <1>3, <1>4 DEF Injection, IsInjective
<1> HIDE DEF h
<1>6. Holds(u, R \cup {y})
  BY <1>3, <1>5 DEF Holds
<1> QED
  BY <1>6 DEF u

LEMMA HoldsCounts ==
  ASSUME NEW s, Len(s) \in Nat, NEW R, Holds(s, R)
  PROVE  IsFiniteSet(R) /\ Cardinality(R) <= Len(s)
  BY IntervalSize, FS_Injection DEF Holds

-----------------------------------------------------------------------------

\* All requests of a key that were recorded, and those that the window now
\* counts and no lost write hides.
Entries(k) == {x \in Time \X Nat : x[2] \in 1 .. recorded[k][x[1]]}
Fresh(k) == {x \in Entries(k) : x[1] > spoilt[k] /\ x[1] > time - windowMs}

\* A member of the list leaves the window at this time or before.
Leaves(k, by) == \E p \in 1 .. Len(store[k].value) : store[k].value[p] + windowMs <= by

\* The stored list is a part of what was recorded, and misses nothing fresh.
KeyAgrees(k) ==
  /\ IsFiniteSet(Entries(k))
  /\ \A x \in Entries(k) : x[1] <= time /\ x[1] + windowMs <= store[k].expiresAt
  /\ Within(store[k].value, Entries(k))
  /\ Holds(store[k].value, Fresh(k))

\* What a check has read is so too, unless the key was written since; and a
\* denial that has not been overtaken by a write names a time of the list.
CheckAgrees(me) ==
  /\ me.pc \in {"get", "set"} => me.at \in 0 .. time
  /\ me.pc = "get" /\ me.owed => Leaves(me.key, me.at)
  /\ me.pc = "set" => /\ Len(me.timestamps) < maxRequests
                      /\ Within(me.timestamps, Entries(me.key))
                      /\ ~me.unseen => Holds(me.timestamps, Fresh(me.key))
  /\ me.pc = "denied" => /\ ~me.owed
                         /\ ~me.unseen => Leaves(me.key, me.resetAt)
                         /\ Cardinality(Recorded(me.key, me.at - windowMs)) >= maxRequests

LimiterInv ==
  /\ LimiterTypeOK
  /\ \A k \in Key : KeyAgrees(k)
  /\ \A r \in Check : CheckAgrees(locals[r])

LEMMA EntriesAfter ==
  ASSUME NEW n \in [Time -> Nat], NEW m \in Int
  PROVE  UNION {{t} \X (1 .. n[t]) : t \in {u \in Time : u > m}}
           = {x \in {z \in Time \X Nat : z[2] \in 1 .. n[z[1]]} : x[1] > m}
<1> DEFINE L == UNION {{t} \X (1 .. n[t]) : t \in {u \in Time : u > m}}
           R == {x \in {z \in Time \X Nat : z[2] \in 1 .. n[z[1]]} : x[1] > m}
<1>1. ASSUME NEW x \in L PROVE x \in R
  OBVIOUS
<1>2. ASSUME NEW x \in R PROVE x \in L
  OBVIOUS
<1> HIDE DEF L, R
<1>3. L = R
  BY <1>1, <1>2
<1> QED
  BY <1>3 DEF L, R

LEMMA RecordedEntries ==
  ASSUME LimiterTypeOK, NEW k \in Key, NEW m \in Int
  PROVE  Recorded(k, m) = {x \in Entries(k) : x[1] > m}
<1>1. recorded[k] \in [Time -> Nat]
  BY DEF LimiterTypeOK
<1> QED
  BY <1>1, EntriesAfter DEF Recorded, Entries

LEMMA RecordedEntriesNext ==
  ASSUME LimiterTypeOK', NEW k \in Key, NEW m \in Int
  PROVE  Recorded(k, m)' = {x \in Entries(k)' : x[1] > m}
<1>1. recorded'[k] \in [Time -> Nat]
  BY DEF LimiterTypeOK
<1> QED
  BY <1>1, EntriesAfter DEF Recorded, Entries

LEMMA LimiterInvInit == LimiterInit => LimiterInv
<1> SUFFICES ASSUME LimiterInit PROVE LimiterInv
  OBVIOUS
<1>0. 0 \in Time /\ <<>> \in Times /\ Len(<<>>) = 0
  BY ConfigAssumption DEF Time, Times
<1>1. \A r \in Check : /\ locals[r].pc = "idle" /\ locals[r] \in Locals
  <2> SUFFICES ASSUME NEW r \in Check PROVE locals[r].pc = "idle" /\ locals[r] \in Locals
    OBVIOUS
  <2>1. PICK k \in Key : locals[r] = [pc |-> "idle", key |-> k, at |-> -1, timestamps |-> <<>>,
                                      resetAt |-> 0, unseen |-> FALSE, owed |-> FALSE]
    BY DEF LimiterInit
  <2> QED
    BY <1>0, <2>1, ConfigAssumption DEF Locals
<1>2. LimiterTypeOK
  <2>1. locals \in [Check -> Locals]
    BY <1>1 DEF LimiterInit
  <2>2. store \in [Key -> [value : Times, expiresAt : 0 .. LastTick + windowMs]]
    BY <1>0, ConfigAssumption DEF LimiterInit
  <2>3. spoilt \in [Key -> -windowMs .. LastTick]
    BY ConfigAssumption DEF LimiterInit
  <2> QED
    BY <1>0, <2>1, <2>2, <2>3 DEF LimiterInit, LimiterTypeOK
<1>3. ASSUME NEW k \in Key PROVE KeyAgrees(k)
  <2>1. Entries(k) = {} /\ Fresh(k) = {}
    BY DEF LimiterInit, Entries, Fresh
  <2>2. store[k].value = <<>>
    BY DEF LimiterInit
  <2>3. Within(<<>>, {})
    <3> DEFINE f == [i \in 1 .. 0 |-> i]
    <3>1. f \in Injection(1 .. Len(<<>>), {}) /\ \A i \in 1 .. Len(<<>>) : f[i][1] = <<>>[i]
      BY <1>0 DEF Injection, IsInjective
    <3> HIDE DEF f
    <3> QED
      BY <3>1 DEF Within
  <2> QED
    BY <2>1, <2>2, <2>3, HoldsNone, FS_EmptySet DEF KeyAgrees
<1>4. ASSUME NEW r \in Check PROVE CheckAgrees(locals[r])
  BY <1>1 DEF CheckAgrees
<1> QED
  BY <1>2, <1>3, <1>4 DEF LimiterInv

\* A key that nobody writes goes on agreeing as time passes, and so does a check
\* that does not move.
LEMMA KeyKeeps ==
  ASSUME LimiterTypeOK, NEW k \in Key, KeyAgrees(k), time' \in Time, time' >= time,
         store'[k] = store[k], recorded'[k] = recorded[k], spoilt'[k] = spoilt[k]
  PROVE  /\ KeyAgrees(k)' /\ Entries(k)' = Entries(k) /\ Fresh(k)' \subseteq Fresh(k)
         /\ \A m \in Int : Recorded(k, m)' = Recorded(k, m)
<1>0. time \in Int /\ time' \in Int /\ windowMs \in Int
  BY ConfigAssumption DEF LimiterTypeOK, Time
<1>1. Entries(k)' = Entries(k)
  BY DEF Entries
<1>2. \A x \in Entries(k) : x[1] \in Int
  BY DEF Entries, Time
<1>3. Fresh(k)' \subseteq Fresh(k)
  BY <1>0, <1>1, <1>2 DEF Fresh
<1>4. \A x \in Entries(k)' : x[1] <= time' /\ x[1] + windowMs <= store'[k].expiresAt
  BY <1>0, <1>1, <1>2 DEF KeyAgrees
<1>5. Holds(store'[k].value, Fresh(k)')
  BY <1>3, HoldsLess DEF KeyAgrees
<1>6. \A m \in Int : Recorded(k, m)' = Recorded(k, m)
  BY DEF Recorded
<1> QED
  BY <1>1, <1>3, <1>4, <1>5, <1>6 DEF KeyAgrees

LEMMA LocalsFacts ==
  ASSUME LimiterTypeOK, NEW r \in Check
  PROVE  /\ locals[r] \in Locals /\ locals[r].key \in Key
         /\ locals[r].at \in -1 .. LastTick /\ locals[r].at - windowMs \in Int
         /\ locals[r].resetAt \in Int /\ locals[r].timestamps \in Times
         /\ locals[r].unseen \in BOOLEAN /\ locals[r].owed \in BOOLEAN
         /\ store[locals[r].key].value \in Times
         /\ store[locals[r].key].expiresAt \in 0 .. LastTick + windowMs
<1>1. locals[r] \in Locals
  BY DEF LimiterTypeOK
<1> QED
  BY <1>1, ConfigAssumption DEF LimiterTypeOK, Locals

LEMMA CheckKeeps ==
  ASSUME LimiterTypeOK, NEW r \in Check, CheckAgrees(locals[r]), locals'[r] = locals[r],
         KeyAgrees(locals[r].key),
         time' \in Time, time' >= time, store'[locals[r].key] = store[locals[r].key],
         recorded'[locals[r].key] = recorded[locals[r].key],
         spoilt'[locals[r].key] = spoilt[locals[r].key]
  PROVE  CheckAgrees(locals[r])'
<1> DEFINE k == locals[r].key
           m == locals[r].at - windowMs
<1>1. k \in Key /\ m \in Int /\ time \in Int /\ time' \in Int /\ locals[r].at \in Int
  BY LocalsFacts DEF LimiterTypeOK, Time
<1>2. /\ Entries(k)' = Entries(k) /\ Fresh(k)' \subseteq Fresh(k)
      /\ Recorded(k, m)' = Recorded(k, m)
  BY <1>1, KeyKeeps
<1>3. \A by : Leaves(k, by) => \E p \in 1 .. Len(store'[k].value) :
                                   store'[k].value[p] + windowMs <= by
  BY DEF Leaves
<1>4. locals[r].pc = "set" /\ ~locals[r].unseen => Holds(locals[r].timestamps, Fresh(k)')
  BY <1>2, HoldsLess DEF CheckAgrees
<1>5. locals[r].pc \in {"get", "set"} => locals[r].at \in 0 .. time'
  BY <1>1 DEF CheckAgrees
<1> QED
  BY <1>1, <1>2, <1>3, <1>4, <1>5 DEF CheckAgrees, Leaves

\* One caller moves and the keys stay.
LEMMA OneMoves ==
  ASSUME LimiterInv, NEW r \in Check, UNCHANGED <<time, store, recorded, spoilt>>,
         NEW me, me \in Locals, locals' = [locals EXCEPT ![r] = me], CheckAgrees(me)
  PROVE  LimiterInv'
<1>1. LimiterTypeOK'
  BY DEF LimiterInv, LimiterTypeOK
<1>2. time' \in Time /\ time' >= time
  BY DEF LimiterInv, LimiterTypeOK, Time
<1>3. ASSUME NEW k \in Key PROVE KeyAgrees(k)'
  BY <1>2, KeyKeeps DEF LimiterInv
<1>4. ASSUME NEW q \in Check PROVE CheckAgrees(locals[q])'
  <2>1. CASE q = r
    <3>1. locals'[r] = me
      BY DEF LimiterInv, LimiterTypeOK
    <3> QED
      BY <2>1, <3>1 DEF CheckAgrees, Leaves, Entries, Fresh, Recorded
  <2>2. CASE q # r
    <3>1. locals'[q] = locals[q]
      BY <2>2 DEF LimiterInv, LimiterTypeOK
    <3> QED
      BY <3>1, <1>2, CheckKeeps, LocalsFacts DEF LimiterInv
  <2> QED
    BY <2>1, <2>2
<1> QED
  BY <1>1, <1>3, <1>4 DEF LimiterInv

LEMMA TimesFacts ==
  ASSUME NEW v \in Times
  PROVE  /\ v \in Seq(Time) /\ Len(v) \in Nat /\ Len(v) <= maxRequests
         /\ \A p \in 1 .. Len(v) : v[p] \in Time /\ v[p] \in Int
<1>1. v \in Seq(Time) /\ Len(v) \in Nat /\ Len(v) <= maxRequests
  BY DEF Times
<1>2. ASSUME NEW p \in 1 .. Len(v) PROVE v[p] \in Time
  BY <1>1
<1> QED
  BY <1>1, <1>2 DEF Time

LEMMA CheckInv ==
  ASSUME LimiterInv, NEW r \in Check, check(r)
  PROVE  LimiterInv'
<1> DEFINE k == locals[r].key
           me == [locals[r] EXCEPT !.pc = "get", !.at = time, !.timestamps = <<>>,
                                   !.resetAt = 0, !.unseen = FALSE, !.owed = Promised(k)]
<1>1. /\ locals[r] \in Locals /\ k \in Key /\ time \in Time /\ time \in -1 .. LastTick
      /\ <<>> \in Times /\ 0 \in 0 .. LastTick + windowMs
  BY LocalsFacts, ConfigAssumption DEF LimiterInv, LimiterTypeOK, Time, Times
<1>2. me \in Locals
  BY <1>1 DEF Locals, Promised
<1>3. Promised(k) => Leaves(k, time)
  <2> SUFFICES ASSUME NEW q \in Check, locals[q].pc = "denied", locals[q].key = k,
                      ~locals[q].unseen, locals[q].resetAt <= time
               PROVE  Leaves(k, time)
    BY DEF Promised
  <2>1. PICK p \in 1 .. Len(store[k].value) :
                store[k].value[p] + windowMs <= locals[q].resetAt
    BY DEF LimiterInv, CheckAgrees, Leaves
  <2>2. store[k].value[p] \in Int /\ locals[q].resetAt \in Int /\ time \in Int
        /\ windowMs \in Int
    <3>1. store[k].value \in Times /\ locals[q].resetAt \in Int
      BY LocalsFacts DEF LimiterInv
    <3> HIDE DEF k
    <3>2. store[k].value[p] \in Int
      BY <3>1, TimesFacts
    <3> QED
      BY <1>1, <3>1, <3>2, ConfigAssumption DEF Time
  <2> HIDE DEF k
  <2>3. store[k].value[p] + windowMs <= time
    BY <2>1, <2>2
  <2> QED
    BY <2>3 DEF Leaves
<1>4. CheckAgrees(me)
  <2>1. me.pc = "get" /\ me.at = time /\ me.owed = Promised(k) /\ me.key = k
    BY <1>1 DEF Locals
  <2> HIDE DEF me
  <2> QED
    BY <1>1, <1>3, <2>1 DEF CheckAgrees, Time
<1>5. locals' = [locals EXCEPT ![r] = me] /\ UNCHANGED <<time, store, recorded, spoilt>>
  BY DEF check
<1> HIDE DEF me
<1> QED
  BY <1>2, <1>4, <1>5, OneMoves

\* What a check keeps of a list of the cache.
LEMMA WindowFacts ==
  ASSUME NEW v \in Times, NEW at \in Time
  PROVE  LET live == InWindow(v, at)
         IN  /\ live \in Times
             /\ Full(live) => /\ \A p \in 1 .. Len(v) : v[p] > at - windowMs
                              /\ \E p \in 1 .. Len(v) : v[p] = Head(live)
<1> DEFINE live == InWindow(v, at)
           m == at - windowMs
<1>0. Time \in SUBSET Int /\ m \in Int /\ v \in Seq(Time) /\ Len(v) \in Nat
      /\ Len(v) <= maxRequests
  BY TimesFacts, ConfigAssumption DEF Time
<1>1. live = After(v, m)
  BY DEF InWindow
<1> HIDE DEF live, m
<1>2. /\ live \in Seq(Time) /\ Len(live) <= Len(v)
      /\ \A p \in 1 .. Len(v) : v[p] <= m => Len(live) < Len(v)
  BY <1>0, <1>1, AfterEmbeds, AfterShortens
<1>3. live \in Times
  BY <1>0, <1>2, ConfigAssumption DEF Times
<1>4. ASSUME Full(live)
      PROVE  /\ \A p \in 1 .. Len(v) : v[p] > m
             /\ \E p \in 1 .. Len(v) : v[p] = Head(live)
  <2>1. Len(live) >= maxRequests /\ Len(live) \in Nat /\ Len(live) >= 1
    BY <1>2, <1>4, ConfigAssumption DEF Full
  <2>2. \A p \in 1 .. Len(v) : v[p] > m
    <3> SUFFICES ASSUME NEW p \in 1 .. Len(v), ~(v[p] > m) PROVE FALSE
      OBVIOUS
    <3>1. v[p] \in Int
      BY TimesFacts
    <3> QED
      BY <1>0, <1>2, <2>1, <3>1, ConfigAssumption
  <2>3. PICK e : Embeds(e, live, v, m, Len(v))
    BY <1>0, <1>1, AfterEmbeds
  <2>4. live[1] = Head(live) /\ 1 \in 1 .. Len(live)
    BY <1>2, <2>1
  <2>5. e[1] \in 1 .. Len(v) /\ live[1] = v[e[1]]
    BY <2>3, <2>4 DEF Embeds, Injection
  <2> QED
    BY <2>2, <2>4, <2>5
<1> QED
  BY <1>3, <1>4 DEF live, m

LEMMA WithinNone == \A R : Within(<<>>, R)
<1> SUFFICES ASSUME NEW R PROVE Within(<<>>, R)
  OBVIOUS
<1> DEFINE f == [i \in 1 .. 0 |-> i]
<1>1. f \in Injection(1 .. Len(<<>>), R) /\ \A i \in 1 .. Len(<<>>) : f[i][1] = <<>>[i]
  BY DEF Injection, IsInjective
<1> HIDE DEF f
<1> QED
  BY <1>1 DEF Within

\* An answer of the cache, expired or not, agrees with the history as the stored
\* list does: what has expired has left the window.
LEMMA CachedAgrees ==
  ASSUME LimiterTypeOK, NEW k \in Key, KeyAgrees(k)
  PROVE  /\ Cached(k) \in Times
         /\ Within(Cached(k), Entries(k)) /\ Holds(Cached(k), Fresh(k))
<1>1. CASE time > store[k].expiresAt
  <2>1. Cached(k) = <<>>
    BY <1>1 DEF Cached
  <2>2. Fresh(k) = {}
    <3> SUFFICES ASSUME NEW x \in Entries(k), x[1] > time - windowMs PROVE FALSE
      BY DEF Fresh
    <3>1. x[1] + windowMs <= store[k].expiresAt
      BY DEF KeyAgrees
    <3>2. x[1] \in Int /\ time \in Int /\ windowMs \in Int /\ store[k].expiresAt \in Int
      BY ConfigAssumption DEF Entries, Time, LimiterTypeOK
    <3> QED
      BY <1>1, <3>1, <3>2
  <2>3. <<>> \in Times
    BY ConfigAssumption DEF Times
  <2> QED
    BY <2>1, <2>2, <2>3, WithinNone, HoldsNone
<1>2. CASE ~(time > store[k].expiresAt)
  BY <1>2 DEF Cached, KeyAgrees, LimiterTypeOK
<1> QED
  BY <1>1, <1>2

LEMMA ReadInv ==
  ASSUME LimiterInv, NEW r \in Check, Read(r)
  PROVE  LimiterInv'
<1> DEFINE k == locals[r].key
           at == locals[r].at
           m == at - windowMs
           c == Cached(k)
           live == InWindow(c, at)
           v == store[k].value
<1>1. /\ LimiterTypeOK /\ locals[r] \in Locals /\ k \in Key /\ KeyAgrees(k)
      /\ locals[r].pc = "get" /\ at \in Time /\ at <= time /\ time \in Int /\ at \in Int
      /\ m \in Int /\ windowMs \in Nat /\ v \in Times
  <2>1. LimiterTypeOK /\ CheckAgrees(locals[r]) /\ locals[r].pc = "get"
    BY DEF LimiterInv, Read
  <2>2. locals[r] \in Locals /\ k \in Key /\ v \in Times
    BY <2>1, LocalsFacts
  <2>3. at \in 0 .. time /\ time \in Time
    BY <2>1 DEF CheckAgrees, LimiterTypeOK
  <2>4. KeyAgrees(k)
    BY <2>2 DEF LimiterInv
  <2> HIDE DEF k, at, v
  <2> QED
    BY <2>1, <2>2, <2>3, <2>4, ConfigAssumption DEF Time
<1>2. c \in Times /\ Within(c, Entries(k)) /\ Holds(c, Fresh(k))
  BY <1>1, CachedAgrees
<1>3. /\ live \in Times
      /\ Full(live) => /\ \A p \in 1 .. Len(c) : c[p] > m
                       /\ \E p \in 1 .. Len(c) : c[p] = Head(live)
  BY <1>1, <1>2, WindowFacts
<1>4. live = After(c, m)
  BY DEF InWindow
<1>5. UNCHANGED <<time, store, recorded, spoilt>>
  BY DEF Read
<1>6. /\ live \in Seq(Time) /\ Len(live) \in Nat /\ Len(live) <= maxRequests
      /\ c \in Seq(Time) /\ Time \in SUBSET Int
  BY <1>2, <1>3, TimesFacts DEF Time
<1>7. Within(live, {x \in Entries(k) : x[1] > m})
  BY <1>1, <1>2, <1>4, <1>6, WithinAfter
<1>8. CASE Full(live)
  <2> DEFINE me == [locals[r] EXCEPT !.pc = "denied", !.resetAt = Head(live) + windowMs]
  <2>1. c = v
    <3> SUFFICES ASSUME c = <<>> PROVE FALSE
      BY DEF Cached
    <3> QED
      BY <1>3, <1>8
  <2>2. PICK p \in 1 .. Len(v) : v[p] = Head(live)
    BY <1>3, <1>8, <2>1
  <2>3. Head(live) \in Time /\ Head(live) + windowMs \in 0 .. LastTick + windowMs
    <3>1. v[p] \in Time
      BY <1>1, TimesFacts
    <3> QED
      BY <2>2, <3>1, ConfigAssumption DEF Time
  <2>4. ~locals[r].owed
    <3> SUFFICES ASSUME locals[r].owed PROVE FALSE
      OBVIOUS
    <3>1. PICK i \in 1 .. Len(v) : v[i] + windowMs <= at
      BY <1>1 DEF LimiterInv, CheckAgrees, Leaves
    <3>2. v[i] \in Int
      BY <1>1, TimesFacts
    <3>3. v[i] > m
      BY <1>3, <1>8, <2>1
    <3> HIDE DEF v, at
    <3> QED
      BY <1>1, <3>1, <3>2, <3>3
  <2>5. Cardinality(Recorded(k, m)) >= maxRequests
    <3>1. Recorded(k, m) = {x \in Entries(k) : x[1] > m}
      BY <1>1, RecordedEntries
    <3>2. IsFiniteSet(Recorded(k, m))
      BY <1>1, <3>1, FS_Subset DEF KeyAgrees
    <3>3. Len(live) <= Cardinality(Recorded(k, m)) /\ Cardinality(Recorded(k, m)) \in Nat
      BY <1>6, <1>7, <3>1, <3>2, WithinCounts, FS_CardinalityType
    <3> QED
      BY <1>6, <1>8, <3>3, ConfigAssumption DEF Full
  <2>6. me \in Locals
    BY <1>1, <2>3 DEF Locals
  <2>7. /\ me.pc = "denied" /\ me.owed = locals[r].owed /\ me.key = k /\ me.at = at
        /\ me.resetAt = Head(live) + windowMs
    BY <1>1 DEF Locals
  <2>8. locals' = [locals EXCEPT ![r] = me]
    BY <1>8 DEF Read
  <2>9. Leaves(k, Head(live) + windowMs)
    <3> HIDE DEF live, k, at, m, c
    <3>1. Head(live) \in Int
      BY <2>3 DEF Time
    <3>2. v[p] + windowMs <= Head(live) + windowMs
      BY <1>1, <2>2, <3>1
    <3> QED
      BY <3>2 DEF Leaves
  <2> HIDE DEF me, live, k, at, m, v, c
  <2>10. CheckAgrees(me)
    BY <2>4, <2>5, <2>7, <2>9 DEF CheckAgrees, m
  <2> QED
    BY <1>5, <2>6, <2>8, <2>10, OneMoves
<1>9. CASE ~Full(live)
  <2> DEFINE me == [locals[r] EXCEPT !.pc = "set", !.timestamps = live]
  <2>1. me \in Locals
    BY <1>1, <1>3 DEF Locals
  <2>2. me.pc = "set" /\ me.key = k /\ me.at = at /\ me.timestamps = live
    BY <1>1 DEF Locals
  <2>3. Within(live, Entries(k))
    BY <1>7, WithinMore
  <2>4. Holds(live, Fresh(k))
    <3>1. \A x \in Fresh(k) : x[1] > m
      <4> SUFFICES ASSUME NEW x \in Fresh(k) PROVE x[1] > m
        OBVIOUS
      <4>1. x[1] \in Int /\ x[1] > time - windowMs
        BY DEF Fresh, Entries, Time
      <4> QED
        BY <1>1, <4>1
    <3> QED
      BY <1>1, <1>2, <1>4, <1>6, <3>1, HoldsAfter
  <2>5. locals' = [locals EXCEPT ![r] = me]
    BY <1>9 DEF Read
  <2>6. Len(live) < maxRequests /\ at \in 0 .. time
    BY <1>1, <1>6, <1>9, ConfigAssumption DEF Full, Time
  <2> HIDE DEF me, live, k, at, m, v, c
  <2>7. CheckAgrees(me)
    BY <2>2, <2>3, <2>4, <2>6 DEF CheckAgrees
  <2> QED
    BY <1>5, <2>1, <2>5, <2>7, OneMoves
<1> QED
  BY <1>8, <1>9

LEMMA FailInv ==
  ASSUME LimiterInv, NEW r \in Check, Fail(r)
  PROVE  LimiterInv'
<1> DEFINE me == [locals[r] EXCEPT !.pc = "idle", !.timestamps = <<>>, !.unseen = FALSE,
                                   !.owed = FALSE]
<1>1. locals[r] \in Locals /\ <<>> \in Times
  BY LocalsFacts, ConfigAssumption DEF LimiterInv, Times
<1>2. me \in Locals /\ me.pc = "idle"
  BY <1>1 DEF Locals
<1>3. locals' = [locals EXCEPT ![r] = me] /\ UNCHANGED <<time, store, recorded, spoilt>>
  BY DEF Fail
<1> HIDE DEF me
<1>4. CheckAgrees(me)
  BY <1>2 DEF CheckAgrees
<1> QED
  BY <1>2, <1>3, <1>4, OneMoves

LEMMA LimiterTickInv ==
  ASSUME LimiterInv, LimiterTick
  PROVE  LimiterInv'
<1>1. time' \in Time /\ time' >= time
  BY ConfigAssumption DEF LimiterInv, LimiterTypeOK, LimiterTick, Time
<1>2. LimiterTypeOK'
  BY <1>1 DEF LimiterInv, LimiterTypeOK, LimiterTick
<1>3. ASSUME NEW k \in Key PROVE KeyAgrees(k)'
  BY <1>1, KeyKeeps DEF LimiterInv, LimiterTick
<1>4. ASSUME NEW r \in Check PROVE CheckAgrees(locals[r])'
  BY <1>1, CheckKeeps, LocalsFacts DEF LimiterInv, LimiterTick
<1> QED
  BY <1>2, <1>3, <1>4 DEF LimiterInv

\* The write adds one request to what was recorded.
LEMMA LetInEntries ==
  ASSUME LimiterInv, NEW r \in Check, LetIn(r), NEW k \in Key, locals[r].key = k,
         NEW at \in Time, locals[r].at = at,
         NEW y \in Time \X Nat, y = <<at, recorded[k][at] + 1>>
  PROVE  /\ y \notin Entries(k) /\ Entries(k)' = Entries(k) \cup {y}
         /\ recorded' \in [Key -> [Time -> Nat]]
         /\ \A j \in Key \ {k} : recorded'[j] = recorded[j]
<1> DEFINE n == recorded[k][at]
<1>2. recorded \in [Key -> [Time -> Nat]] /\ recorded' = [recorded EXCEPT ![k][at] = @ + 1]
  BY DEF LimiterInv, LimiterTypeOK, LetIn
<1>3. /\ recorded' \in [Key -> [Time -> Nat]]
      /\ \A j \in Key \ {k} : recorded'[j] = recorded[j]
      /\ recorded'[k][at] = n + 1 /\ n \in Nat
      /\ \A t \in Time \ {at} : recorded'[k][t] = recorded[k][t]
  BY <1>2
<1>4. y \notin Entries(k)
  BY <1>3 DEF Entries
<1>5. \A t \in Time, i \in Nat : i \in 1 .. recorded'[k][t] <=>
                                   i \in 1 .. recorded[k][t] \/ (t = at /\ i = n + 1)
  <2> SUFFICES ASSUME NEW t \in Time, NEW i \in Nat
               PROVE  i \in 1 .. recorded'[k][t] <=>
                                   i \in 1 .. recorded[k][t] \/ (t = at /\ i = n + 1)
    OBVIOUS
  <2>1. CASE t = at
    <3>1. recorded'[k][t] = n + 1 /\ recorded[k][t] = n
      BY <1>3, <2>1
    <3> HIDE DEF n
    <3> QED
      BY <1>3, <2>1, <3>1
  <2>2. CASE t # at
    BY <1>3, <2>2
  <2> QED
    BY <2>1, <2>2
<1>6. {x \in Time \X Nat : x[2] \in 1 .. recorded'[k][x[1]]}
        = {x \in Time \X Nat : x[2] \in 1 .. recorded[k][x[1]]} \cup {y}
  <2>1. y \in Time \X Nat
    BY <1>3
  <2>2. \A x \in Time \X Nat : x[1] \in Time /\ x[2] \in Nat
                               /\ (x = y <=> x[1] = at /\ x[2] = n + 1)
    OBVIOUS
  <2>3. \A x \in Time \X Nat : x[2] \in 1 .. recorded'[k][x[1]] <=>
                                 x[2] \in 1 .. recorded[k][x[1]] \/ x = y
    BY <1>5, <2>2
  <2> QED
    BY <2>1, <2>3
<1>7. Entries(k)' = Entries(k) \cup {y}
  BY <1>6 DEF Entries
<1> QED
  BY <1>3, <1>4, <1>7

LEMMA LetInInv ==
  ASSUME LimiterInv, NEW r \in Check, LetIn(r)
  PROVE  LimiterInv'
<1>1. PICK me : me = locals[r]
  OBVIOUS
<1>2. PICK k : k = locals[r].key
  OBVIOUS
<1>3. PICK at : at = locals[r].at
  OBVIOUS
<1>4. PICK y : y = <<at, recorded[k][at] + 1>>
  OBVIOUS
<1>5. /\ k \in Key /\ at \in Time /\ at <= time /\ y \in Time \X Nat
      /\ y \notin Entries(k) /\ Entries(k)' = Entries(k) \cup {y}
      /\ recorded' \in [Key -> [Time -> Nat]]
      /\ \A j \in Key \ {k} : recorded'[j] = recorded[j]
  <2>1. CheckAgrees(locals[r]) /\ locals[r].pc = "set" /\ LimiterTypeOK
    BY DEF LimiterInv, LetIn
  <2>2. at \in 0 .. time /\ time \in Time /\ k \in Key
    BY <1>2, <1>3, <2>1, LocalsFacts DEF CheckAgrees, LimiterTypeOK
  <2>3. at \in Time /\ at <= time
    BY <2>2, ConfigAssumption DEF Time
  <2>4. recorded[k][at] \in Nat
    BY <2>1, <2>2, <2>3 DEF LimiterTypeOK
  <2>5. y \in Time \X Nat
    BY <1>4, <2>3, <2>4
  <2>6. locals[r].key = k /\ locals[r].at = at
    BY <1>2, <1>3
  <2>7. /\ y \notin Entries(k) /\ Entries(k)' = Entries(k) \cup {y}
        /\ recorded' \in [Key -> [Time -> Nat]]
        /\ \A j \in Key \ {k} : recorded'[j] = recorded[j]
    <3>1. LimiterInv /\ LetIn(r)
      OBVIOUS
    <3> QED
      BY <1>4, <2>2, <2>3, <2>5, <2>6, <3>1, LetInEntries, SMTT(20)
  <2> QED
    BY <2>2, <2>3, <2>5, <2>7
<1>6. /\ LimiterTypeOK /\ KeyAgrees(k) /\ CheckAgrees(me) /\ me.pc = "set"
      /\ time \in Time /\ time \in Int /\ time' = time /\ time' \in Time /\ time' >= time
      /\ windowMs \in Nat /\ windowMs > 0 /\ LastTick \in Nat
  <2>1. LimiterTypeOK /\ KeyAgrees(k) /\ CheckAgrees(me) /\ me.pc = "set" /\ time' = time
    BY <1>1, <1>5 DEF LimiterInv, LetIn
  <2>2. time \in Time
    BY <2>1 DEF LimiterTypeOK
  <2> QED
    BY <2>1, <2>2, ConfigAssumption DEF Time
<1>7. me \in Locals /\ me.timestamps \in Times /\ me.unseen \in BOOLEAN
  BY <1>1, <1>6, LocalsFacts
<1> DEFINE list == Append(me.timestamps, at)
<1>8. /\ store' = [store EXCEPT ![k] = [value |-> list, expiresAt |-> time + windowMs]]
      /\ spoilt' = [spoilt EXCEPT ![k] = IF me.unseen THEN time ELSE @]
      /\ locals' = [Written(k) EXCEPT ![r] =
              [me EXCEPT !.pc = "idle", !.timestamps = <<>>, !.unseen = FALSE, !.owed = FALSE]]
  BY <1>1, <1>2, <1>3 DEF LetIn
<1>9. list \in Times
  <2>1. me.timestamps \in Seq(Time) /\ Len(me.timestamps) < maxRequests
    BY <1>6, <1>7, TimesFacts DEF CheckAgrees
  <2>2. list \in Seq(Time) /\ Len(list) = Len(me.timestamps) + 1 /\ Len(list) \in Nat
    BY <1>5, <2>1
  <2> QED
    BY <2>1, <2>2, ConfigAssumption DEF Times
<1> HIDE DEF list
<1>10. /\ store'[k].value = list /\ store'[k].expiresAt = time + windowMs
       /\ spoilt'[k] = IF me.unseen THEN time ELSE spoilt[k]
       /\ \A j \in Key \ {k} : store'[j] = store[j] /\ spoilt'[j] = spoilt[j]
  BY <1>5, <1>6, <1>8 DEF LimiterTypeOK
<1>11. ASSUME NEW q \in Check
       PROVE  /\ locals'[q] \in Locals
              /\ q = r => locals'[q].pc = "idle"
              /\ q # r /\ (locals[q].key # k \/ locals[q].pc = "idle") => locals'[q] = locals[q]
              /\ q # r /\ locals[q].key = k /\ locals[q].pc # "idle" =>
                   locals'[q] = [locals[q] EXCEPT !.unseen = locals[q].pc \in {"set", "denied"},
                                                  !.owed = FALSE]
  <2>1. locals[q] \in Locals /\ <<>> \in Times
    BY <1>6, LocalsFacts, ConfigAssumption DEF Times
  <2>2. CASE q = r
    <3>1. locals'[q] = [me EXCEPT !.pc = "idle", !.timestamps = <<>>, !.unseen = FALSE,
                                  !.owed = FALSE]
      BY <1>8, <2>2 DEF Written
    <3> QED
      BY <1>7, <2>1, <2>2, <3>1 DEF Locals
  <2>3. CASE q # r
    <3>1. locals'[q] = Written(k)[q]
      BY <1>8, <2>3 DEF Written
    <3>2. locals'[q] = IF locals[q].key # k \/ locals[q].pc = "idle" THEN locals[q]
                       ELSE [locals[q] EXCEPT !.unseen = locals[q].pc \in {"set", "denied"},
                                              !.owed = FALSE]
      BY <3>1 DEF Written
    <3>3. [locals[q] EXCEPT !.unseen = locals[q].pc \in {"set", "denied"}, !.owed = FALSE]
             \in Locals
      <4>1. \A b \in BOOLEAN : [locals[q] EXCEPT !.unseen = b, !.owed = FALSE] \in Locals
        BY <2>1 DEF Locals
      <4>2. (locals[q].pc \in {"set", "denied"}) \in BOOLEAN
        OBVIOUS
      <4> QED
        BY <4>1, <4>2, Zenon
    <3>4. locals'[q] \in Locals
      BY <2>1, <3>2, <3>3
    <3> QED
      BY <2>3, <3>2, <3>4
  <2> QED
    BY <2>2, <2>3
<1>12. LimiterTypeOK'
  <2>1. locals' \in [Check -> Locals]
    BY <1>8, <1>11 DEF Written
  <2>2. store' \in [Key -> [value : Times, expiresAt : 0 .. LastTick + windowMs]]
    <3>1. [value |-> list, expiresAt |-> time + windowMs]
             \in [value : Times, expiresAt : 0 .. LastTick + windowMs]
      BY <1>6, <1>9 DEF Time
    <3> QED
      BY <1>5, <1>6, <1>8, <3>1 DEF LimiterTypeOK
  <2>3. spoilt' \in [Key -> -windowMs .. LastTick]
    <3>1. time \in -windowMs .. LastTick
      BY <1>6 DEF Time
    <3> QED
      BY <1>5, <1>6, <1>8, <3>1 DEF LimiterTypeOK
  <2> QED
    BY <1>5, <1>6, <2>1, <2>2, <2>3 DEF LimiterTypeOK
<1>13. Within(list, Entries(k)')
  <2>1. Within(me.timestamps, Entries(k)) /\ me.timestamps \in Seq(Time)
    BY <1>2, <1>1, <1>6, <1>7, TimesFacts DEF CheckAgrees
  <2>2. y[1] = at /\ y[1] \in Time /\ Time \in SUBSET Int
    BY <1>4, <1>5 DEF Time
  <2>3. Within(Append(me.timestamps, y[1]), Entries(k) \cup {y})
    BY <1>5, <2>1, <2>2, WithinAppend
  <2> QED
    BY <1>5, <2>2, <2>3 DEF list
<1>14. \A x \in Entries(k)' : x[1] <= time /\ x[1] \in Time
  BY <1>4, <1>5, <1>6 DEF KeyAgrees, Entries
<1>15. Holds(list, Fresh(k)')
  <2>1. CASE me.unseen
    <3>1. Fresh(k)' = {}
      <4> SUFFICES ASSUME NEW x \in Entries(k)', x[1] > spoilt'[k] PROVE FALSE
        BY DEF Fresh
      <4>1. x[1] > time /\ x[1] <= time /\ x[1] \in Int
        BY <1>10, <1>14, <2>1 DEF Time
      <4> QED
        BY <1>6, <4>1
    <3> QED
      BY <3>1, HoldsNone
  <2>2. CASE ~me.unseen
    <3>1. Fresh(k)' \subseteq Fresh(k) \cup {y}
      <4> SUFFICES ASSUME NEW x \in Entries(k)', x[1] > spoilt'[k], x[1] > time' - windowMs,
                          x # y
                   PROVE  x \in Fresh(k)
        BY DEF Fresh
      <4> QED
        BY <1>5, <1>6, <1>10, <2>2 DEF Fresh
    <3>2. Holds(me.timestamps, Fresh(k)) /\ me.timestamps \in Seq(Time)
      BY <1>1, <1>2, <1>6, <1>7, <2>2, TimesFacts DEF CheckAgrees
    <3>3. y[1] = at /\ y[1] \in Time /\ Time \in SUBSET Int /\ y \notin Fresh(k)
      BY <1>4, <1>5 DEF Time, Fresh
    <3>4. Holds(Append(me.timestamps, y[1]), Fresh(k) \cup {y})
      BY <3>2, <3>3, HoldsAppend
    <3>5. Holds(list, Fresh(k) \cup {y})
      BY <3>3, <3>4 DEF list
    <3> QED
      BY <3>1, <3>5, HoldsLess
  <2> QED
    BY <1>7, <2>1, <2>2
<1>16. IsFiniteSet(Entries(k)')
  BY <1>5, <1>6, FS_AddElement DEF KeyAgrees
<1>17. \A x \in Entries(k)' : x[1] <= time' /\ x[1] + windowMs <= store'[k].expiresAt
  <2> SUFFICES ASSUME NEW x \in Entries(k)'
               PROVE  x[1] <= time /\ x[1] + windowMs <= time + windowMs
    BY <1>6, <1>10
  <2>1. x[1] <= time /\ x[1] \in Int
    BY <1>14 DEF Time
  <2> QED
    BY <1>6, <2>1
<1>18. ASSUME NEW j \in Key PROVE KeyAgrees(j)'
  <2>1. CASE j = k
    BY <1>10, <1>13, <1>15, <1>16, <1>17, <2>1 DEF KeyAgrees
  <2>2. CASE j # k
    BY <1>5, <1>6, <1>10, <2>2, KeyKeeps DEF LimiterInv
  <2> QED
    BY <2>1, <2>2
<1>19. ASSUME NEW q \in Check PROVE CheckAgrees(locals[q])'
  <2>1. CASE q = r \/ locals'[q].pc = "idle"
    BY <1>11, <2>1 DEF CheckAgrees
  <2>2. CASE q # r /\ locals[q].key # k
    <3>1. locals'[q] = locals[q] /\ locals[q].key \in Key \ {k}
      BY <1>6, <1>11, <2>2, LocalsFacts
    <3>2. CheckAgrees(locals[q]) /\ KeyAgrees(locals[q].key)
      BY <3>1 DEF LimiterInv
    <3> QED
      BY <1>5, <1>6, <1>10, <3>1, <3>2, CheckKeeps
  <2>3. CASE q # r /\ locals[q].key = k /\ locals[q].pc # "idle"
    <3>1. PICK him : him = locals[q]
      OBVIOUS
    <3>2. PICK it : it = locals'[q]
      OBVIOUS
    <3>3. him \in Locals /\ CheckAgrees(him) /\ him.key = k /\ him.at \in Int
          /\ him.at - windowMs \in Int
      BY <1>6, <2>3, <3>1, LocalsFacts DEF LimiterInv
    <3>4. it = [him EXCEPT !.unseen = him.pc \in {"set", "denied"}, !.owed = FALSE]
      BY <1>11, <2>3, <3>1, <3>2
    <3>5. /\ it.pc = him.pc /\ it.key = k /\ it.at = him.at /\ it.timestamps = him.timestamps
          /\ it.owed = FALSE /\ (it.pc \in {"set", "denied"} => it.unseen)
      BY <3>3, <3>4 DEF Locals
    <3>6. Within(him.timestamps, Entries(k)) => Within(him.timestamps, Entries(k)')
      BY <1>5, WithinMore
    <3>7. him.pc = "denied" =>
             Cardinality(Recorded(k, him.at - windowMs)') >= maxRequests
      <4> SUFFICES ASSUME him.pc = "denied"
                   PROVE  Cardinality(Recorded(k, him.at - windowMs)') >= maxRequests
        OBVIOUS
      <4> DEFINE m == him.at - windowMs
      <4>1. /\ Recorded(k, m) = {x \in Entries(k) : x[1] > m}
            /\ Recorded(k, m)' = {x \in Entries(k)' : x[1] > m}
        <5>1. m \in Int
          BY <3>3
        <5> HIDE DEF m
        <5>2. Recorded(k, m) = {x \in Entries(k) : x[1] > m}
          BY <1>5, <1>6, <5>1, RecordedEntries
        <5>3. Recorded(k, m)' = {x \in Entries(k)' : x[1] > m}
          BY <1>5, <1>12, <5>1, RecordedEntriesNext
        <5> QED
          BY <5>2, <5>3
      <4>2. Cardinality(Recorded(k, m)) >= maxRequests
        BY <3>3 DEF CheckAgrees
      <4> HIDE DEF m
      <4>3. IsFiniteSet(Recorded(k, m)') /\ Recorded(k, m) \in SUBSET (Recorded(k, m)')
        BY <1>5, <1>16, <4>1, FS_Subset
      <4>4. /\ Cardinality(Recorded(k, m)) <= Cardinality(Recorded(k, m)')
            /\ Cardinality(Recorded(k, m)) \in Nat /\ Cardinality(Recorded(k, m)') \in Nat
        BY <4>3, FS_Subset, FS_CardinalityType
      <4>5. Cardinality(Recorded(k, m)') >= maxRequests
        BY <4>2, <4>4, ConfigAssumption
      <4> QED
        BY <4>5 DEF m
    <3>8. him.pc \in {"get", "set"} => him.at \in 0 .. time'
      BY <1>6, <3>3 DEF CheckAgrees
    <3>9. him.pc = "set" => Len(him.timestamps) < maxRequests
                            /\ Within(him.timestamps, Entries(k))
      BY <3>3 DEF CheckAgrees
    <3> QED
      BY <3>2, <3>3, <3>5, <3>6, <3>7, <3>8, <3>9 DEF CheckAgrees
  <2> QED
    BY <1>11, <2>1, <2>2, <2>3
<1> QED
  BY <1>12, <1>18, <1>19 DEF LimiterInv

LEMMA LimiterInvStep == LimiterInv /\ [LimiterNext]_limiterVars => LimiterInv'
<1> SUFFICES ASSUME LimiterInv, [LimiterNext]_limiterVars PROVE LimiterInv'
  OBVIOUS
<1>1. CASE UNCHANGED limiterVars
  <2>1. UNCHANGED <<time, store, locals, recorded, spoilt>>
    BY <1>1 DEF limiterVars
  <2>2. LimiterTypeOK' /\ time' \in Time /\ time' >= time
    BY <2>1 DEF LimiterInv, LimiterTypeOK, Time
  <2>3. ASSUME NEW k \in Key PROVE KeyAgrees(k)'
    BY <2>1, <2>2, KeyKeeps DEF LimiterInv
  <2>4. ASSUME NEW r \in Check PROVE CheckAgrees(locals[r])'
    BY <2>1, <2>2, CheckKeeps, LocalsFacts DEF LimiterInv
  <2> QED
    BY <2>2, <2>3, <2>4 DEF LimiterInv
<1> QED
  BY <1>1, LimiterTickInv, CheckInv, ReadInv, LetInInv, FailInv DEF LimiterNext

LEMMA LimiterInvariance == LimiterSpec => []LimiterInv
  BY LimiterInvInit, LimiterInvStep, PTL DEF LimiterSpec

\* The values of the cache and the locals keep their types; no list is ever
\* longer than the limit.
THEOREM LimiterIsTyped == LimiterSpec => []LimiterTypeOK
  BY LimiterInvariance, PTL DEF LimiterInv

\* Nobody is denied unless the window before held as many recorded requests of
\* the same client as may pass, whatever checks overlap and calls fail.
THEOREM DenialsHaveCause == LimiterSpec => []DeniedForCause
<1>1. LimiterInv => DeniedForCause
  BY DEF LimiterInv, CheckAgrees, DeniedForCause
<1> QED
  BY <1>1, LimiterInvariance, PTL

\* A window that began after the last lost write holds no more requests than may
\* pass.
THEOREM LimitRecovers == LimiterSpec => []LimitHoldsAgain
<1>1. LimiterInv => LimitHoldsAgain
  <2> SUFFICES ASSUME LimiterInv, NEW k \in Key, spoilt[k] <= time - windowMs
               PROVE  Cardinality(Recorded(k, time - windowMs)) <= maxRequests
    BY DEF LimitHoldsAgain
  <2>1. time - windowMs \in Int /\ spoilt[k] \in Int
    BY ConfigAssumption DEF LimiterInv, LimiterTypeOK, Time
  <2>2. Recorded(k, time - windowMs) = {x \in Entries(k) : x[1] > time - windowMs}
    BY <2>1, RecordedEntries DEF LimiterInv
  <2>3. \A x \in Entries(k) : x[1] \in Int
    BY DEF Entries, Time
  <2>4. Recorded(k, time - windowMs) = Fresh(k)
    BY <2>1, <2>2, <2>3 DEF Fresh
  <2>5. store[k].value \in Times /\ Holds(store[k].value, Fresh(k))
    BY DEF LimiterInv, LimiterTypeOK, KeyAgrees
  <2>6. Len(store[k].value) \in Nat /\ Len(store[k].value) <= maxRequests
    BY <2>5, TimesFacts
  <2>7. IsFiniteSet(Fresh(k)) /\ Cardinality(Fresh(k)) <= Len(store[k].value)
    BY <2>5, <2>6, HoldsCounts
  <2>8. Cardinality(Fresh(k)) \in Nat
    BY <2>7, FS_CardinalityType
  <2> QED
    BY <2>4, <2>6, <2>7, <2>8, ConfigAssumption
<1> QED
  BY <1>1, LimiterInvariance, PTL

\* A client that comes back at resetAt is let in unless another request of the
\* key was recorded in between.
THEOREM WaitsAreEnough == LimiterSpec => []WaitIsEnough
<1>1. LimiterInv => WaitIsEnough
  BY DEF LimiterInv, CheckAgrees, WaitIsEnough
<1> QED
  BY <1>1, LimiterInvariance, PTL
=============================================================================
