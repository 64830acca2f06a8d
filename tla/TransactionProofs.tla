-------------------------- MODULE TransactionProofs --------------------------
(***************************************************************************)
(* Proofs about a transaction and about the queue transactions wait in.    *)
(*                                                                         *)
(* OfframpTx, for any number of requests, any timeouts and any writes of    *)
(* clients: each request carries a decision taken on a row that may have     *)
(* changed since, so the invariant says what each pending decision still   *)
(* implies about the history.                                              *)
(*                                                                         *)
(* PriorityQueue, for any ids, priorities and limits: the heap array       *)
(* implements the bag of PriorityBag.  That takes three things: each loop  *)
(* takes its passes one after the other (Iterable, SinkRuns, LiftRuns,     *)
(* RebuildRuns), each pass keeps how often every entry occurs (Same,       *)
(* Without) and each loop leaves the array in heap order (Fits).           *)
(***************************************************************************)
EXTENDS OfframpTx, PriorityQueue, FiniteSetTheorems, SequenceTheorems,
        WellFoundedInduction, TLAPS

\* A failure the row or a pending refund tells of has happened.
FailureOnRecord ==
    /\ row.status = "failed" \/ row.payoutStatus \in {"expired", "refunded"} => failed
    /\ refunds > 0 => failed
    /\ \A r \in Request : step[r] \in {"issue", "emit"} => failed

\* So has a timeout.
TimeoutOnRecord ==
    /\ row.error = "timed out" => timedOut
    /\ \A r \in Request : step[r] = "requeue" => timedOut

\* Whoever is about to write a completed row read it before it completed.
DecidingRaced == row.status = "completed" => Deciding \subseteq raced

IInv == TypeOK /\ FailureOnRecord /\ TimeoutOnRecord /\ DecidingRaced

-----------------------------------------------------------------------------

\* What dal.update leaves in each column.
LEMMA UpdatedFields ==
    ASSUME row \in Row, NEW u
    PROVE  /\ Updated(u) = [status |-> Updated(u).status,
                            payoutStatus |-> Updated(u).payoutStatus,
                            error |-> Updated(u).error,
                            bridge |-> Updated(u).bridge,
                            order |-> Updated(u).order,
                            timestamp |-> Updated(u).timestamp,
                            finalizedAt |-> Updated(u).finalizedAt]
           /\ Updated(u).status = IF "status" \in DOMAIN u THEN u.status ELSE row.status
           /\ Updated(u).payoutStatus = IF "payoutStatus" \in DOMAIN u
                                        THEN u.payoutStatus ELSE row.payoutStatus
           /\ Updated(u).error = IF "error" \in DOMAIN u THEN u.error ELSE row.error
           /\ Updated(u).bridge = IF "bridge" \in DOMAIN u THEN u.bridge ELSE row.bridge
           /\ Updated(u).order = IF "order" \in DOMAIN u THEN u.order ELSE row.order
           /\ Updated(u).timestamp = IF "timestamp" \in DOMAIN u
                                     THEN u.timestamp ELSE row.timestamp
           /\ Updated(u).finalizedAt =
                 IF "finalizedAt" \in DOMAIN u THEN u.finalizedAt
                 ELSE IF Finalizes(u) /\ row.finalizedAt = Nil THEN now
                 ELSE row.finalizedAt
  <1>1. DOMAIN row = Columns
    BY DEF Row, Columns
  <1> QED
    BY <1>1 DEF Updated, Columns

\* The updates the server makes on its own, and with those of clients.
ServerUpdates == {mapEventToUpdates[event] : event \in DOMAIN mapEventToUpdates}
                 \cup {[status |-> "failed", error |-> "timed out"],
                       [status |-> "failed", payoutStatus |-> "refunded", error |-> "other"],
                       [status |-> "pending", error |-> "none"]}
Updates == ServerUpdates \cup Edits

\* Each of them names columns of the right types; only a client's names the date.
LEMMA UpdatesTyped ==
    ASSUME NEW u \in Updates, "status" \in DOMAIN u => u.status \in Statuses
    PROVE  /\ "finalizedAt" \in DOMAIN u => u \in Edits /\ u.finalizedAt \in Int
           /\ u \in ServerUpdates => "finalizedAt" \notin DOMAIN u
           /\ "timestamp" \in DOMAIN u => u.timestamp \in Int
           /\ "payoutStatus" \in DOMAIN u => u.payoutStatus \in PayoutStatuses
           /\ "error" \in DOMAIN u => u.error \in Errors
           /\ "bridge" \in DOMAIN u => u.bridge \in BOOLEAN
           /\ "order" \in DOMAIN u => u.order \in BOOLEAN
  <1> DEFINE Typed(v) == /\ "finalizedAt" \notin DOMAIN v
                         /\ "timestamp" \notin DOMAIN v
                         /\ "payoutStatus" \in DOMAIN v => v.payoutStatus \in PayoutStatuses
                         /\ "error" \in DOMAIN v => v.error \in Errors
                         /\ "bridge" \in DOMAIN v => v.bridge \in BOOLEAN
                         /\ "order" \in DOMAIN v => v.order \in BOOLEAN
  <1>2. ASSUME NEW s, NEW e \in Errors
        PROVE  Typed([status |-> s, error |-> e])
    OBVIOUS
  <1>3. ASSUME NEW s, NEW p \in PayoutStatuses, NEW e \in Errors
        PROVE  Typed([status |-> s, payoutStatus |-> p, error |-> e])
    OBVIOUS
  <1>4. ASSUME NEW p \in PayoutStatuses
        PROVE  Typed([payoutStatus |-> p])
    OBVIOUS
  <1>5. ASSUME NEW s, NEW p \in PayoutStatuses
        PROVE  Typed([status |-> s, payoutStatus |-> p])
    OBVIOUS
  <1>6. ASSUME \E event \in DOMAIN mapEventToUpdates : u = mapEventToUpdates[event]
        PROVE  Typed(u)
    <2>1. \/ u = [status |-> "completed", payoutStatus |-> "settled"]
          \/ u = [payoutStatus |-> "pending"]
          \/ u = [status |-> "failed", payoutStatus |-> "refunded", error |-> "other"]
          \/ u = [status |-> "failed", payoutStatus |-> "expired", error |-> "other"]
          \/ u = [status |-> "failed", payoutStatus |-> "failed", error |-> "other"]
          \/ u = [status |-> "cancelled", payoutStatus |-> "cancelled", error |-> "other"]
      BY <1>6 DEF mapEventToUpdates
    <2>2. u # [status |-> "cancelled", payoutStatus |-> "cancelled", error |-> "other"]
      BY DEF Statuses
    <2>3. {"settled", "pending", "refunded", "expired", "failed"} \subseteq PayoutStatuses
          /\ "other" \in Errors
      BY DEF PayoutStatuses, Errors
    <2> HIDE DEF Typed
    <2> QED
      BY <1>3, <1>4, <1>5, <2>1, <2>2, <2>3
  <1>7. ASSUME u \in {[status |-> "failed", error |-> "timed out"],
                      [status |-> "failed", payoutStatus |-> "refunded", error |-> "other"],
                      [status |-> "pending", error |-> "none"]}
        PROVE  Typed(u)
    <2>1. "refunded" \in PayoutStatuses /\ {"timed out", "other", "none"} \subseteq Errors
      BY DEF PayoutStatuses, Errors
    <2> HIDE DEF Typed
    <2> QED
      BY <1>2, <1>3, <1>7, <2>1
  <1>8. CASE u \in ServerUpdates
    <2>1. Typed(u)
      BY <1>6, <1>7, <1>8 DEF ServerUpdates
    <2> QED
      BY <2>1
  <1>9. CASE u \in Edits /\ u \notin ServerUpdates
    BY <1>9, OfframpTxAssumption
  <1> QED
    BY <1>8, <1>9 DEF Updates

\* An update keeps the row's type, dates an end once and for all unless a client
\* writes the date, and lets only requests that had read the row before a
\* completion be about to write it.
LEMMA UpdateKeepsRow ==
    ASSUME TypeOK, NEW u \in Updates, update(u)
    PROVE  /\ row' \in Row
           /\ row'.status # "pending" => row'.finalizedAt # Nil
           /\ row.finalizedAt # Nil /\ row'.finalizedAt # row.finalizedAt =>
                 u \in Edits /\ "finalizedAt" \in DOMAIN u
           /\ raced' \subseteq Request
  <1>1. row' = Updated(u) /\ ("status" \in DOMAIN u => u.status \in Statuses)
    BY DEF update
  <1>2. now \in Int /\ row \in Row
    BY OfframpTxAssumption DEF TypeOK
  <1>3. row'.status \in Statuses /\ row'.payoutStatus \in PayoutStatuses
        /\ row'.error \in Errors /\ row'.bridge \in BOOLEAN /\ row'.order \in BOOLEAN
        /\ row'.timestamp \in Int
    BY <1>1, <1>2, UpdatedFields, UpdatesTyped DEF Row
  <1>4. row'.finalizedAt = IF "finalizedAt" \in DOMAIN u THEN u.finalizedAt
                           ELSE IF Finalizes(u) /\ row.finalizedAt = Nil THEN now
                           ELSE row.finalizedAt
    BY <1>1, <1>2, UpdatedFields
  <1>5. "finalizedAt" \in DOMAIN u => u \in Edits /\ u.finalizedAt \in Int
    BY <1>1, UpdatesTyped
  <1>6. row'.finalizedAt \in Int \cup {Nil}
    BY <1>2, <1>4, <1>5 DEF Row
  <1>7. row' \in Row
    BY <1>1, <1>2, <1>3, <1>6, UpdatedFields DEF Row
  <1>8. row'.status # "pending" => row'.finalizedAt # Nil
    <2>1. now # Nil /\ Nil \notin Int
      BY <1>2, OfframpTxAssumption
    <2>2. CASE "finalizedAt" \in DOMAIN u
      BY <1>4, <1>5, <2>1, <2>2
    <2>3. CASE "finalizedAt" \notin DOMAIN u /\ "status" \in DOMAIN u
      <3>1. row'.status # "pending" => Finalizes(u)
        BY <1>1, <1>2, <2>3, UpdatedFields DEF Finalizes, Statuses
      <3> QED
        BY <1>4, <2>1, <2>3, <3>1
    <2>4. CASE "finalizedAt" \notin DOMAIN u /\ "status" \notin DOMAIN u
      <3>1. row'.status = row.status
        BY <1>1, <1>2, <2>4, UpdatedFields
      <3> QED
        BY <1>4, <2>4, <3>1 DEF TypeOK, Finalizes
    <2> QED
      BY <2>2, <2>3, <2>4
  <1>9. raced' \subseteq Request
    BY DEF update, TypeOK, Deciding
  <1> QED
    BY <1>4, <1>5, <1>7, <1>8, <1>9

-----------------------------------------------------------------------------

LEMMA InitIInv == Init => IInv
  <1> SUFFICES ASSUME Init PROVE IInv
    OBVIOUS
  <1>1. PICK body \in Bodies : row = save(body)
    BY DEF Init
  <1>2. /\ step = [r \in Request |-> "idle"]
        /\ refunds = 0
        /\ raced = {}
    BY DEF Init
  <1>3. now = 0
    BY DEF Init
  <1>4. failed = Failing(row) /\ timedOut = (row.error = "timed out")
    BY DEF Init
  <1> HIDE DEF Init
  <1>5. body \in Row
    <2>1. Bodies \subseteq Row
      BY OfframpTxAssumption
    <2> QED
      BY <2>1
  <1>6. MaxTime \in Nat /\ Nil # 0
    BY OfframpTxAssumption
  <1>7. row = [status |-> body.status, payoutStatus |-> body.payoutStatus,
               error |-> body.error, bridge |-> body.bridge, order |-> body.order,
               timestamp |-> body.timestamp,
               finalizedAt |-> IF body.finalizedAt = Nil /\ Finalizes(body)
                               THEN 0 ELSE body.finalizedAt]
    BY <1>1, <1>3, <1>5 DEF save, Row
  <1>8. row \in Row
    BY <1>5, <1>7 DEF Row
  <1>9. row.status # "pending" => row.finalizedAt # Nil
    <2>1. body.status # "pending" => Finalizes(body)
      BY <1>5 DEF Row, Statuses, Finalizes
    <2> QED
      BY <1>6, <1>7, <2>1
  <1>10. step \in [Request -> Steps]
    BY <1>2 DEF Steps
  <1>11. now \in 0 .. MaxTime
    BY <1>3, <1>6
  <1>12. refunds \in 0 .. 2
    BY <1>2
  <1>13. failed \in BOOLEAN /\ timedOut \in BOOLEAN
    BY <1>4 DEF Failing
  <1>14. TypeOK
    BY <1>2, <1>8, <1>9, <1>10, <1>11, <1>12, <1>13 DEF TypeOK
  <1>15. \A r \in Request : step[r] = "idle"
    BY <1>2
  <1>16. FailureOnRecord
    <2>1. row.status = "failed" \/ row.payoutStatus \in {"expired", "refunded"} => failed
      BY <1>4, Zenon DEF Failing
    <2>2. ~(refunds > 0)
      BY <1>2
    <2>3. \A r \in Request : step[r] \notin {"issue", "emit"}
      BY <1>15
    <2> QED
      BY <2>1, <2>2, <2>3, Zenon DEF FailureOnRecord
  <1>17. TimeoutOnRecord /\ DecidingRaced
    BY <1>2, <1>4, <1>15 DEF TimeoutOnRecord, DecidingRaced, Deciding
  <1> QED
    BY <1>14, <1>16, <1>17 DEF IInv

\* What an update leaves of the columns the records speak of.
LEMMA UpdateColumns ==
    ASSUME TypeOK, NEW u, update(u)
    PROVE  /\ row'.status = IF "status" \in DOMAIN u THEN u.status ELSE row.status
           /\ row'.payoutStatus = IF "payoutStatus" \in DOMAIN u
                                  THEN u.payoutStatus ELSE row.payoutStatus
           /\ row'.error = IF "error" \in DOMAIN u THEN u.error ELSE row.error
  BY UpdatedFields DEF update, TypeOK

\* Steps that read leave the row and the history alone and start no write that
\* the row does not warrant.
LEMMA ReadIInv ==
    ASSUME IInv, NEW r \in Request,
           BeginCancel(r) \/ BeginRefund(r) \/ BeginRequeue(r) \/ Abort(r)
    PROVE  IInv'
  <1>1. UNCHANGED <<row, now, history, raced>>
    BY DEF BeginCancel, BeginRefund, BeginRequeue, Abort
  <1>2. /\ step' = [step EXCEPT ![r] = step'[r]]
        /\ step'[r] \in {"idle", "cancel", "issue", "requeue"}
        /\ step'[r] = "cancel" => row.status = "pending"
        /\ step'[r] = "issue" => /\ row.status # "completed"
                                 /\ row.status = "failed"
                                    \/ row.payoutStatus \in {"expired", "refunded"}
        /\ step'[r] = "requeue" => row.status = "failed" /\ row.error = "timed out"
    BY DEF BeginCancel, BeginRefund, BeginRequeue, Abort, Go, isTransactionTimedOut,
           isRefundEligible, Requeueable, IInv, TypeOK
  <1>3. \A q \in Request : q # r => step'[q] = step[q]
    BY <1>2 DEF IInv, TypeOK
  <1>4. TypeOK'
    BY <1>1, <1>2 DEF IInv, TypeOK, Steps, history
  <1>5. FailureOnRecord'
    BY <1>1, <1>2, <1>3 DEF IInv, FailureOnRecord, history
  <1>6. TimeoutOnRecord'
    BY <1>1, <1>2, <1>3 DEF IInv, TimeoutOnRecord, history
  <1>7. DecidingRaced'
    BY <1>1, <1>2, <1>3 DEF IInv, DecidingRaced, Deciding
  <1> QED
    BY <1>4, <1>5, <1>6, <1>7 DEF IInv

\* A completion records who is deciding; an update that is none keeps that.
LEMMA UpdateRaced ==
    ASSUME IInv, NEW u, update(u), Deciding' \subseteq Deciding
    PROVE  DecidingRaced'
  BY DEF IInv, DecidingRaced, update

\* Webhooks and the writes of clients.
LEMMA ArrivalIInv ==
    ASSUME IInv,
           \/ \E event \in DOMAIN mapEventToUpdates : Webhook(event)
           \/ \E body \in Edits : Edit(body)
    PROVE  IInv'
  <1>1. UNCHANGED <<step, now, refunds>>
    BY DEF Webhook, Edit
  <1>2. PICK u \in Updates : update(u)
    BY DEF Webhook, Edit, Updates, ServerUpdates
  <1>3. /\ row' \in Row
        /\ row'.status # "pending" => row'.finalizedAt # Nil
        /\ raced' \subseteq Request
    BY <1>2, UpdateKeepsRow DEF IInv
  <1>4. failed' = (failed \/ Failing(row'))
    BY DEF Webhook, Edit
  <1>5. timedOut' \in BOOLEAN /\ (timedOut => timedOut')
        /\ (row'.error = "timed out" => timedOut')
    <2>1. CASE \E body \in Edits : Edit(body)
      <3>1. timedOut' = (timedOut \/ row'.error = "timed out")
        BY <2>1 DEF Edit
      <3> QED
        BY <3>1
    <2>2. CASE \E event \in DOMAIN mapEventToUpdates : Webhook(event)
      <3>1. PICK event \in DOMAIN mapEventToUpdates : Webhook(event)
        BY <2>2
      <3>2. timedOut' = timedOut /\ update(mapEventToUpdates[event])
        BY <3>1 DEF Webhook
      <3>3. \/ "error" \notin DOMAIN mapEventToUpdates[event]
            \/ mapEventToUpdates[event].error = "other"
        BY DEF mapEventToUpdates
      <3>4. row'.error = "timed out" => row.error = "timed out"
        BY <3>2, <3>3, UpdateColumns DEF IInv
      <3> QED
        BY <3>2, <3>4 DEF IInv, TypeOK, TimeoutOnRecord
    <2> QED
      BY <2>1, <2>2
  <1>6. TypeOK'
    <2>1. failed' \in BOOLEAN
      BY <1>4 DEF Failing
    <2> QED
      BY <1>1, <1>3, <1>5, <2>1 DEF IInv, TypeOK
  <1>7. FailureOnRecord'
    BY <1>1, <1>4 DEF IInv, FailureOnRecord, Failing
  <1>8. TimeoutOnRecord'
    BY <1>1, <1>5 DEF IInv, TimeoutOnRecord
  <1>9. DecidingRaced'
    BY <1>1, <1>2, UpdateRaced DEF Deciding
  <1> QED
    BY <1>6, <1>7, <1>8, <1>9 DEF IInv

\* The writes of a request, each a decision it has carried since its read.
LEMMA CancelIInv ==
    ASSUME IInv, NEW r \in Request, Cancel(r)
    PROVE  IInv'
  <1> DEFINE u == [status |-> "failed", error |-> "timed out"]
  <1>1. u \in Updates /\ update(u) /\ DOMAIN u = {"status", "error"}
    BY DEF Cancel, Updates, ServerUpdates
  <1>2. row'.status = "failed" /\ row'.payoutStatus = row.payoutStatus
    BY <1>1, UpdateColumns DEF IInv
  <1>3. step' = [step EXCEPT ![r] = "refund"] /\ failed' = TRUE /\ timedOut' = TRUE
        /\ UNCHANGED <<now, refunds>>
    BY DEF Cancel, Go
  <1> HIDE DEF u
  <1>4. TypeOK'
    BY <1>1, <1>3, UpdateKeepsRow DEF IInv, TypeOK, Steps
  <1>5. FailureOnRecord' /\ TimeoutOnRecord'
    BY <1>3 DEF FailureOnRecord, TimeoutOnRecord
  <1>6. DecidingRaced'
    BY <1>2 DEF DecidingRaced
  <1> QED
    BY <1>4, <1>5, <1>6 DEF IInv

LEMMA RefundIInv ==
    ASSUME IInv, NEW r \in Request, Refund(r)
    PROVE  IInv'
  <1> DEFINE u == [status |-> "failed", payoutStatus |-> "refunded", error |-> "other"]
  <1>1. u \in Updates /\ update(u) /\ DOMAIN u = {"status", "payoutStatus", "error"}
    BY DEF Refund, Updates, ServerUpdates
  <1>2. row'.status = "failed" /\ row'.error = "other"
    BY <1>1, UpdateColumns DEF IInv
  <1>3. step[r] = "issue" /\ step' = [step EXCEPT ![r] = "emit"]
        /\ UNCHANGED <<now, refunds, failed, timedOut>>
    BY DEF Refund, Go, history
  <1> HIDE DEF u
  <1>4. TypeOK'
    BY <1>1, <1>3, UpdateKeepsRow DEF IInv, TypeOK, Steps
  <1>5. failed
    BY <1>3 DEF IInv, FailureOnRecord
  <1>6. FailureOnRecord'
    BY <1>3, <1>5 DEF FailureOnRecord
  <1>7. TimeoutOnRecord'
    BY <1>2, <1>3 DEF IInv, TypeOK, TimeoutOnRecord
  <1>8. DecidingRaced'
    BY <1>2 DEF DecidingRaced
  <1> QED
    BY <1>4, <1>6, <1>7, <1>8 DEF IInv

LEMMA RequeueIInv ==
    ASSUME IInv, NEW r \in Request, Requeue(r)
    PROVE  IInv' /\ timedOut
  <1> DEFINE u == [status |-> "pending", error |-> "none"]
  <1>1. u \in Updates /\ update(u) /\ DOMAIN u = {"status", "error"}
    BY DEF Requeue, Updates, ServerUpdates
  <1>2. row'.status = "pending" /\ row'.error = "none"
        /\ row'.payoutStatus = row.payoutStatus
    BY <1>1, UpdateColumns DEF IInv
  <1>3. step[r] = "requeue" /\ step' = [step EXCEPT ![r] = "idle"]
        /\ UNCHANGED <<now, refunds, failed, timedOut>>
    BY DEF Requeue, Go, history
  <1> HIDE DEF u
  <1>4. TypeOK'
    BY <1>1, <1>3, UpdateKeepsRow DEF IInv, TypeOK, Steps
  <1>5. FailureOnRecord'
    BY <1>2, <1>3 DEF IInv, TypeOK, FailureOnRecord
  <1>6. TimeoutOnRecord'
    BY <1>2, <1>3 DEF IInv, TypeOK, TimeoutOnRecord
  <1>7. DecidingRaced'
    BY <1>2 DEF DecidingRaced
  <1>8. timedOut
    BY <1>3 DEF IInv, TimeoutOnRecord
  <1> QED
    BY <1>4, <1>5, <1>6, <1>7, <1>8 DEF IInv

LEMMA EmitRefundIInv ==
    ASSUME IInv, NEW r \in Request, EmitRefund(r)
    PROVE  IInv'
  <1>1. step[r] = "emit" /\ step' = [step EXCEPT ![r] = "idle"]
        /\ UNCHANGED <<row, now, failed, timedOut, raced>>
        /\ refunds' = IF refunds = 2 THEN 2 ELSE refunds + 1
    BY DEF EmitRefund, Go
  <1>2. failed
    BY <1>1 DEF IInv, FailureOnRecord
  <1>3. TypeOK'
    BY <1>1 DEF IInv, TypeOK, Steps
  <1>4. FailureOnRecord' /\ TimeoutOnRecord' /\ DecidingRaced'
    BY <1>1, <1>2 DEF IInv, TypeOK, FailureOnRecord, TimeoutOnRecord, DecidingRaced, Deciding
  <1> QED
    BY <1>3, <1>4 DEF IInv

LEMMA TickIInv ==
    ASSUME IInv, Tick
    PROVE  IInv'
  <1>1. TypeOK'
    BY OfframpTxAssumption DEF Tick, history, IInv, TypeOK
  <1>2. FailureOnRecord' /\ TimeoutOnRecord' /\ DecidingRaced'
    BY DEF Tick, history, IInv, FailureOnRecord, TimeoutOnRecord, DecidingRaced, Deciding
  <1> QED
    BY <1>1, <1>2 DEF IInv

LEMMA StutterIInv ==
    ASSUME IInv, UNCHANGED vars
    PROVE  IInv'
  BY DEF vars, history, IInv, TypeOK, FailureOnRecord, TimeoutOnRecord, DecidingRaced,
         Deciding

LEMMA NextIInv == IInv /\ [Next]_vars => IInv'
  BY ReadIInv, ArrivalIInv, CancelIInv, RefundIInv, RequeueIInv, EmitRefundIInv, TickIInv,
     StutterIInv DEF Next

LEMMA Invariance == Spec => []IInv
  BY InitIInv, NextIInv, PTL DEF Spec

-----------------------------------------------------------------------------

\* Every column keeps its type, and whatever has ended is dated.
THEOREM TypeCorrect == Spec => []TypeOK
  BY Invariance, PTL DEF IInv

\* No refund is marked or announced before a failure, whichever requests overlap.
THEOREM RefundsFollowFailures == Spec => []RefundFollowsFailure
  <1>1. IInv => RefundFollowsFailure
    BY DEF IInv, FailureOnRecord, RefundFollowsFailure
  <1> QED
    BY <1>1, Invariance, PTL

\* The first end is the one that is dated, whatever the server writes later; only
\* a client who writes the date itself replaces it.
THEOREM FirstEndStands == Spec => FinalizedForGood
  <1> DEFINE Stands == row.finalizedAt # Nil /\ row'.finalizedAt # row.finalizedAt =>
                          ClientWrites("finalizedAt")
  <1>1. IInv /\ [Next]_vars => [Stands]_vars
    <2> SUFFICES ASSUME IInv, Next PROVE Stands
      BY DEF vars
    <2>1. CASE \E body \in Edits : Edit(body)
      <3>1. PICK body \in Edits : Edit(body)
        BY <2>1
      <3>2. update(body) /\ body \in Updates
        BY <3>1 DEF Edit, Updates
      <3>3. row.finalizedAt # Nil /\ row'.finalizedAt # row.finalizedAt =>
               "finalizedAt" \in DOMAIN body
        BY <3>2, UpdateKeepsRow DEF IInv
      <3> QED
        BY <3>1, <3>3 DEF ClientWrites
    <2>2. CASE ~ \E body \in Edits : Edit(body)
      <3>1. UNCHANGED row \/ \E u \in ServerUpdates : update(u)
        BY <2>2 DEF Next, Webhook, BeginCancel, Cancel, BeginRefund, Refund, EmitRefund,
               BeginRequeue, Requeue, Abort, Tick, ServerUpdates
      <3>2. ASSUME NEW u \in ServerUpdates, update(u)
            PROVE  row.finalizedAt # Nil => row'.finalizedAt = row.finalizedAt
        <4>1. u \in Updates /\ "finalizedAt" \notin DOMAIN u
          BY <3>2, UpdatesTyped DEF Updates, update
        <4> QED
          BY <3>2, <4>1, UpdateKeepsRow DEF IInv
      <3> QED
        BY <3>1, <3>2
    <2> QED
      BY <2>1, <2>2
  <1> QED
    BY <1>1, Invariance, PTL DEF Spec, FinalizedForGood

\* The server brings a transaction back to pending only through a request that has
\* read that it was timed out; else a client has written the status itself.
THEOREM RequeuesFollowTimeouts == Spec => RequeueFollowsTimeout
  <1> DEFINE Follows == row.status # "pending" /\ row'.status = "pending" =>
                           timedOut \/ ClientWrites("status")
  <1>1. IInv /\ [Next]_vars => [Follows]_vars
    <2> SUFFICES ASSUME IInv, Next, row.status # "pending", row'.status = "pending"
                 PROVE  timedOut \/ ClientWrites("status")
      BY DEF vars
    <2>1. ASSUME NEW r \in Request, Requeue(r) PROVE timedOut
      BY <2>1, RequeueIInv
    <2>2. ASSUME NEW r \in Request, Cancel(r) \/ Refund(r) PROVE FALSE
      <3>1. CASE Cancel(r)
        <4> DEFINE u == [status |-> "failed", error |-> "timed out"]
        <4>1. update(u) /\ "status" \in DOMAIN u /\ u.status = "failed"
          BY <3>1 DEF Cancel
        <4> HIDE DEF u
        <4> QED
          BY <4>1, UpdateColumns DEF IInv
      <3>2. CASE Refund(r)
        <4> DEFINE u == [status |-> "failed", payoutStatus |-> "refunded", error |-> "other"]
        <4>1. update(u) /\ "status" \in DOMAIN u /\ u.status = "failed"
          BY <3>2 DEF Refund
        <4> HIDE DEF u
        <4> QED
          BY <4>1, UpdateColumns DEF IInv
      <3> QED
        BY <2>2, <3>1, <3>2
    <2>3. ASSUME NEW body \in Edits, Edit(body) PROVE ClientWrites("status")
      <3>1. "status" \in DOMAIN body
        BY <2>3, UpdateColumns DEF Edit, IInv
      <3> QED
        BY <2>3, <3>1 DEF ClientWrites
    <2>4. ASSUME NEW event \in DOMAIN mapEventToUpdates, Webhook(event) PROVE FALSE
      <3>1. \/ "status" \notin DOMAIN mapEventToUpdates[event]
            \/ mapEventToUpdates[event].status # "pending"
        BY DEF mapEventToUpdates
      <3> QED
        BY <2>4, <3>1, UpdateColumns DEF Webhook, IInv
    <2> QED
      BY <2>1, <2>2, <2>3, <2>4 DEF Next, BeginCancel, BeginRefund, EmitRefund,
         BeginRequeue, Abort, Tick
  <1> QED
    BY <1>1, Invariance, PTL DEF Spec, RequeueFollowsTimeout

\* A completed transaction is undone by no request that read it completed: by an
\* older request, by Paycrest, or by a client who writes the status.
THEOREM CompletionUndoneByRace == Spec => CompletionUndoneByRaceOnly
  <1> DEFINE Raced == row.status = "completed" /\ row'.status # "completed" =>
          \/ \E r \in raced : step[r] \in {"cancel", "issue", "requeue"} /\ step'[r] # step[r]
          \/ \E event \in DOMAIN mapEventToUpdates : Webhook(event)
          \/ ClientWrites("status")
  <1>1. IInv /\ [Next]_vars => [Raced]_vars
    <2> SUFFICES ASSUME IInv, Next, row.status = "completed", row'.status # "completed",
                        ~ \E event \in DOMAIN mapEventToUpdates : Webhook(event),
                        ~ ClientWrites("status")
                 PROVE  \E r \in raced : /\ step[r] \in {"cancel", "issue", "requeue"}
                                        /\ step'[r] # step[r]
      BY DEF vars
    <2>1. ASSUME NEW body \in Edits, Edit(body) PROVE FALSE
      <3>1. "status" \in DOMAIN body
        BY <2>1, UpdateColumns DEF Edit, IInv
      <3> QED
        BY <2>1, <3>1 DEF ClientWrites
    <2>2. PICK r \in Request : Cancel(r) \/ Refund(r) \/ Requeue(r)
      BY <2>1 DEF Next, BeginCancel, BeginRefund, EmitRefund, BeginRequeue, Abort, Tick
    <2>3. step[r] \in {"cancel", "issue", "requeue"} /\ step'[r] # step[r]
      BY <2>2 DEF Cancel, Refund, Requeue, Go, IInv, TypeOK
    <2>4. r \in raced
      BY <2>3 DEF IInv, DecidingRaced, Deciding
    <2> QED
      BY <2>3, <2>4
  <1> QED
    BY <1>1, Invariance, PTL DEF Spec, CompletionUndoneByRaceOnly
-----------------------------------------------------------------------------

(* The queue: numbers and loops *)
Heaps == Seq(QueuedTransaction)

\* Counting up from zero.
LEMMA Upwards ==
  ASSUME NEW T, 0 \in T, \A n \in T : n \in Nat => n + 1 \in T
  PROVE  Nat \subseteq T
<1> DEFINE Below == {0 .. n : n \in Nat \ T}
<1> SUFFICES ASSUME Nat \ T # {} PROVE FALSE
  OBVIOUS
<1>1. Below \subseteq FiniteSubsetsOf(Nat)
  <2> SUFFICES ASSUME NEW n \in Nat PROVE 0 .. n \in FiniteSubsetsOf(Nat)
    OBVIOUS
  <2>1. n \in Int /\ 0 .. n \in SUBSET Nat
    OBVIOUS
  <2> QED
    BY <2>1, FS_Interval DEF FiniteSubsetsOf
<1>2. PICK X \in Below : \A Y \in Below : <<Y, X>> \notin StrictSubsetOrdering(Nat)
  <2>1. Below # {}
    OBVIOUS
  <2> HIDE DEF Below
  <2> QED
    BY <1>1, <2>1, WFMin, FS_StrictSubsetOrderingWellFounded
<1>3. PICK n \in Nat \ T : X = 0 .. n
  BY <1>2
<1>4. n - 1 \in Nat \ T
  <2>1. n - 1 \in Nat /\ (n - 1) + 1 = n
    BY <1>3
  <2>2. n - 1 \in T => (n - 1) + 1 \in T
    BY <2>1
  <2> QED
    BY <1>3, <2>1, <2>2
<1>5. 0 .. (n - 1) \in Below
  BY <1>4
<1>6. 0 .. (n - 1) \in SUBSET Nat /\ 0 .. n \in SUBSET Nat
      /\ 0 .. (n - 1) \subseteq 0 .. n /\ 0 .. (n - 1) # 0 .. n
  <2>1. n \in 0 .. n /\ n \notin 0 .. (n - 1)
    BY <1>4
  <2> QED
    BY <1>4, <2>1
<1> QED
  BY <1>2, <1>3, <1>5, <1>6 DEF StrictSubsetOrdering

\* A set of numbers has a least one.
LEMMA Least ==
  ASSUME NEW T, T \subseteq Nat, T # {}
  PROVE  \E n \in T : \A m \in T : n <= m
<1> DEFINE Under == {n \in Nat : \A m \in T : n <= m}
<1> SUFFICES ASSUME \A n \in T : n \notin Under PROVE FALSE
  OBVIOUS
<1>1. 0 \in Under
  OBVIOUS
<1>2. ASSUME NEW n \in Under PROVE n + 1 \in Under
  <2>1. n \notin T
    BY <1>2
  <2> QED
    BY <2>1
<1> HIDE DEF Under
<1>3. Nat \subseteq Under
  BY <1>1, <1>2, Upwards
<1> QED
  BY <1>3

-----------------------------------------------------------------------------
\* The steps can be taken one after the other.
Iterable(S, s, n, pass) ==
  \E f \in [0 .. n -> S] : f[0] = s /\ \A k \in 1 .. n : f[k] = pass[k][f[k - 1]]

\* Operations on a set can be taken one after the other, as often as one likes.
LEMMA IterExists ==
  ASSUME NEW S, NEW s \in S, NEW n \in Nat, NEW pass \in [1 .. n -> [S -> S]]
  PROVE  Iterable(S, s, n, pass)
<1> DEFINE Runs(f, m) == f[0] = s /\ \A k \in 1 .. m : f[k] = pass[k][f[k - 1]]
           T == {m \in Nat : m <= n => \E f \in [0 .. m -> S] : Runs(f, m)}
<1>1. 0 \in T
  <2>1. [k \in 0 .. 0 |-> s] \in [0 .. 0 -> S] /\ Runs([k \in 0 .. 0 |-> s], 0)
    OBVIOUS
  <2> QED
    BY <2>1
<1>2. ASSUME NEW m \in T PROVE m + 1 \in T
  <2>0. m \in Nat /\ m + 1 \in Nat
    OBVIOUS
  <2> HIDE DEF Runs
  <2> SUFFICES ASSUME m + 1 <= n PROVE \E f \in [0 .. (m + 1) -> S] : Runs(f, m + 1)
    BY <2>0
  <2> USE DEF Runs
  <2>1. m \in Nat /\ m <= n /\ m + 1 \in 1 .. n
    OBVIOUS
  <2>2. PICK f \in [0 .. m -> S] : Runs(f, m)
    BY <2>1
  <2> DEFINE g == [k \in 0 .. (m + 1) |-> IF k = m + 1 THEN pass[m + 1][f[m]] ELSE f[k]]
  <2>3. f[m] \in S /\ pass[m + 1][f[m]] \in S
    BY <2>1, <2>2
  <2>4. g \in [0 .. (m + 1) -> S] /\ g[m + 1] = pass[m + 1][f[m]]
        /\ \A k \in 0 .. m : g[k] = f[k]
    BY <2>1, <2>2, <2>3
  <2> HIDE DEF g
  <2>5. ASSUME NEW k \in 1 .. (m + 1) PROVE g[k] = pass[k][g[k - 1]]
    <3>1. CASE k = m + 1
      BY <2>1, <2>4, <3>1
    <3>2. CASE k # m + 1
      <4>1. k \in 1 .. m /\ k \in 0 .. m /\ k - 1 \in 0 .. m
        BY <2>1, <3>2
      <4> QED
        BY <2>2, <2>4, <4>1
    <3> QED
      BY <3>1, <3>2
  <2>6. g[0] = s
    BY <2>1, <2>2, <2>4
  <2> QED
    BY <2>4, <2>5, <2>6
<1> HIDE DEF T
<1>3. Nat \subseteq T
  BY <1>1, <1>2, Upwards
<1> QED
  BY <1>3 DEF T, Iterable

-----------------------------------------------------------------------------
(* Heap order *)

\* A heap and a position in it, the state of sinkDown and bubbleUp.
Spots == {s \in [heap : Heaps, at : Nat] : s.at \in 1 .. Len(s.heap)}

\* Priorities and times are numbers.
LEMMA EntryNumbers ==
  \A x \in QueuedTransaction : x.priority \in Int /\ x.enqueuedAt \in Int
<1> TAKE x \in QueuedTransaction
<1>1. x.priority \in Priorities /\ x.enqueuedAt \in 0 .. MaxClock
  BY DEF QueuedTransaction
<1>2. \A p \in Priorities : p \in Int
  BY PrioritiesAssumption
<1>3. \A t \in 0 .. MaxClock : t \in Int
  BY LimitsAssumption
<1> QED
  BY <1>1, <1>2, <1>3

\* compare is a strict order in which not going before chains too.
LEMMA CompareOrders ==
  ASSUME NEW a \in QueuedTransaction, NEW b \in QueuedTransaction,
         NEW c \in QueuedTransaction
  PROVE  /\ ~compare(a, a)
         /\ compare(a, b) => ~compare(b, a)
         /\ ~compare(a, b) /\ ~compare(b, c) => ~compare(a, c)
  BY EntryNumbers DEF compare

\* What swapping two entries leaves where.
LEMMA SwapFits ==
  ASSUME NEW h \in Heaps, NEW i \in 1 .. Len(h), NEW j \in 1 .. Len(h)
  PROVE  LET g == Swap(h, i, j)
         IN  /\ g \in Heaps /\ Len(g) = Len(h)
             /\ g[i] = h[j] /\ g[j] = h[i]
             /\ \A k \in 1 .. Len(h) : k # i /\ k # j => g[k] = h[k]
  BY DEF Swap, Heaps

\* Nothing among a position and its children goes before the one chosen.
LEMMA LargestIs ==
  ASSUME NEW h \in Heaps, NEW i \in 1 .. Len(h)
  PROVE  LET l == Largest(h, i)
         IN  /\ l \in {i, 2 * i, 2 * i + 1} /\ l \in 1 .. Len(h)
             /\ l # i => compare(h[l], h[i])
             /\ \A c \in {i, 2 * i, 2 * i + 1} : c <= Len(h) => ~compare(h[c], h[l])
<1> DEFINE Better(best, c) == IF c <= Len(h) /\ compare(h[c], h[best]) THEN c ELSE best
           a == Better(i, 2 * i)
           b == Better(a, 2 * i + 1)
<1>0. \A k \in 1 .. Len(h) : h[k] \in QueuedTransaction
  BY DEF Heaps
<1>1. Largest(h, i) = b
  BY DEF Largest
<1>2. /\ a \in {i, 2 * i} /\ a \in 1 .. Len(h) /\ (a # i => compare(h[a], h[i]))
      /\ ~compare(h[i], h[a]) /\ (2 * i <= Len(h) => ~compare(h[2 * i], h[a]))
  BY <1>0, CompareOrders
<1> HIDE DEF a
<1>3. /\ b \in {a, 2 * i + 1} /\ b \in 1 .. Len(h) /\ (b # a => compare(h[b], h[a]))
      /\ ~compare(h[a], h[b]) /\ (2 * i + 1 <= Len(h) => ~compare(h[2 * i + 1], h[b]))
  BY <1>0, <1>2, CompareOrders
<1> HIDE DEF b
<1>4. \A c \in {i, 2 * i} : c <= Len(h) => ~compare(h[c], h[b])
  BY <1>0, <1>2, <1>3, CompareOrders
<1>5. b # i => compare(h[b], h[i])
  BY <1>0, <1>2, <1>3, CompareOrders
<1> QED
  BY <1>1, <1>2, <1>3, <1>4, <1>5

\* A pass stays within the heap and keeps its length.
LEMMA SinkSpot ==
  ASSUME NEW s \in Spots
  PROVE  /\ Sink(s) \in Spots
         /\ Len(Sink(s).heap) = Len(s.heap)
<1>1. s.heap \in Heaps /\ s.at \in 1 .. Len(s.heap)
  BY DEF Spots
<1>2. Largest(s.heap, s.at) \in 1 .. Len(s.heap)
  BY <1>1, LargestIs
<1>3. Swap(s.heap, s.at, Largest(s.heap, s.at)) \in Heaps
      /\ Len(Swap(s.heap, s.at, Largest(s.heap, s.at))) = Len(s.heap)
  BY <1>1, <1>2, SwapFits
<1> QED
  BY <1>2, <1>3 DEF Sink, Spots

\* The same of a pass upwards.
LEMMA LiftSpot ==
  ASSUME NEW s \in Spots
  PROVE  /\ Lift(s) \in Spots
         /\ Len(Lift(s).heap) = Len(s.heap)
<1>1. s.heap \in Heaps /\ s.at \in 1 .. Len(s.heap)
  BY DEF Spots
<1>2. CASE s.at > 1 /\ compare(s.heap[s.at], s.heap[s.at \div 2])
  <2>1. s.at \div 2 \in 1 .. Len(s.heap)
    BY <1>1, <1>2
  <2>2. Lift(s) = [heap |-> Swap(s.heap, s.at, s.at \div 2), at |-> s.at \div 2]
    BY <1>2 DEF Lift
  <2> QED
    BY <1>1, <2>1, <2>2, SwapFits DEF Spots
<1>3. CASE ~(s.at > 1 /\ compare(s.heap[s.at], s.heap[s.at \div 2]))
  BY <1>3 DEF Lift
<1> QED
  BY <1>2, <1>3

\* The loop of sinkDown is its passes taken one after the other.
LEMMA SinkRuns ==
  ASSUME NEW s \in Spots, NEW n \in Nat
  PROVE  \E f : /\ f[0] = s /\ \A k \in 1 .. n : f[k] = Sink(f[k - 1])
               /\ Loop(LAMBDA x, k : Sink(x), s, n) = f[n]
<1> DEFINE pass == [k \in 1 .. n |-> [x \in Spots |-> Sink(x)]]
           Solves(f) == f = [k \in 0 .. n |-> IF k = 0 THEN s ELSE Sink(f[k - 1])]
           c == CHOOSE f : Solves(f)
<1>1. pass \in [1 .. n -> [Spots -> Spots]]
  BY SinkSpot
<1>2. \A k \in 1 .. n : \A x \in Spots : pass[k][x] = Sink(x)
  OBVIOUS
<1> HIDE DEF pass
<1>3. PICK f \in [0 .. n -> Spots] : f[0] = s /\ \A k \in 1 .. n : f[k] = pass[k][f[k - 1]]
  <2>1. Iterable(Spots, s, n, pass)
    BY <1>1, IterExists
  <2> QED
    BY <2>1 DEF Iterable
<1>4. \A k \in 1 .. n : f[k] = Sink(f[k - 1])
  BY <1>2, <1>3
<1>5. Solves(f)
  BY <1>3, <1>4
<1>6. Solves(c)
  <2> HIDE DEF Solves
  <2> QED
    BY <1>5
<1>7. Loop(LAMBDA x, k : Sink(x), s, n) = c[n]
  BY DEF Loop
<1> HIDE DEF c
<1>8. c[0] = s
  BY <1>6
<1>9. \A k \in 1 .. n : c[k] = Sink(c[k - 1])
  BY <1>6
<1> QED
  BY <1>7, <1>8, <1>9

-----------------------------------------------------------------------------
\* c holds a child of the entry at p.
Child(p, c) == c = 2 * p \/ c = 2 * p + 1

\* No child goes before its parent, from a position on.
Fits(h, from) ==
  \A p, c \in 1 .. Len(h) : p >= from /\ Child(p, c) => ~compare(h[c], h[p])

\* In order from a position on but for the entry that is sinking, whose
\* children do not go before its parent.
Sinking(s, from) ==
  /\ s \in Spots /\ s.at >= from
  /\ \A p, c \in 1 .. Len(s.heap) :
        p >= from /\ p # s.at /\ Child(p, c) => ~compare(s.heap[c], s.heap[p])
  /\ \A p, c \in 1 .. Len(s.heap) :
        p >= from /\ Child(p, s.at) /\ Child(s.at, c) => ~compare(s.heap[c], s.heap[p])

\* An entry that has arrived stays, and the heap is in order.
LEMMA SinkStays ==
  ASSUME NEW from \in Nat, NEW s, Sinking(s, from), Largest(s.heap, s.at) = s.at
  PROVE  Sink(s) = s /\ Fits(s.heap, from)
<1>1. s.heap \in Heaps /\ s.at \in 1 .. Len(s.heap) /\ s = [heap |-> s.heap, at |-> s.at]
  BY DEF Sinking, Spots
<1>2. Swap(s.heap, s.at, s.at) = s.heap
  BY <1>1 DEF Swap, Heaps
<1>3. \A c \in 1 .. Len(s.heap) : Child(s.at, c) => ~compare(s.heap[c], s.heap[s.at])
  BY <1>1, LargestIs DEF Child
<1> QED
  BY <1>1, <1>2, <1>3 DEF Sink, Sinking, Fits

\* An entry that has not arrived moves down, and its new place is the only
\* one out of order.
LEMMA SinkMoves ==
  ASSUME NEW from \in Nat, NEW s, Sinking(s, from), Largest(s.heap, s.at) # s.at
  PROVE  Sinking(Sink(s), from) /\ Sink(s).at > s.at
<1> DEFINE h == s.heap
           i == s.at
           l == Largest(h, i)
           g == Swap(h, i, l)
<1>0. h \in Heaps /\ i \in 1 .. Len(h) /\ i >= from
  BY DEF Sinking, Spots
<1>1. \A k \in 1 .. Len(h) : h[k] \in QueuedTransaction
  BY <1>0 DEF Heaps
<1>2. /\ l \in {2 * i, 2 * i + 1} /\ l \in 1 .. Len(h) /\ compare(h[l], h[i])
      /\ \A c \in 1 .. Len(h) : Child(i, c) => ~compare(h[c], h[l])
  <2>1. /\ l \in {i, 2 * i, 2 * i + 1} /\ l \in 1 .. Len(h)
        /\ l # i => compare(h[l], h[i])
        /\ \A c \in {i, 2 * i, 2 * i + 1} : c <= Len(h) => ~compare(h[c], h[l])
    BY <1>0, LargestIs
  <2>2. l # i /\ Len(h) \in Nat
    BY <1>0 DEF Heaps
  <2> HIDE DEF h, i, l
  <2>3. \A c \in 1 .. Len(h) : Child(i, c) => c \in {i, 2 * i, 2 * i + 1} /\ c <= Len(h)
    BY <2>2 DEF Child
  <2> QED
    BY <2>1, <2>2, <2>3
<1>3. Sink(s) = [heap |-> g, at |-> l]
  BY DEF Sink
<1>4. \A p, c \in 1 .. Len(h) : p >= from /\ p # i /\ Child(p, c) => ~compare(h[c], h[p])
  BY DEF Sinking
<1>5. \A p, c \in 1 .. Len(h) :
         p >= from /\ Child(p, i) /\ Child(i, c) => ~compare(h[c], h[p])
  BY DEF Sinking
<1> HIDE DEF h, i, l
<1>6. /\ g \in Heaps /\ Len(g) = Len(h) /\ g[i] = h[l] /\ g[l] = h[i]
      /\ \A k \in 1 .. Len(h) : k # i /\ k # l => g[k] = h[k]
  BY <1>0, <1>2, SwapFits
<1> HIDE DEF g
<1>7. Len(h) \in Nat
  BY <1>0 DEF Heaps
<1>8. l > i /\ l >= from /\ Child(i, l) /\ i # l
  BY <1>0, <1>2, <1>7 DEF Child
<1>9. ASSUME NEW p \in 1 .. Len(h), NEW c \in 1 .. Len(h), p >= from, p # l, Child(p, c)
      PROVE  ~compare(g[c], g[p])
  <2>0. c > p
    BY <1>7, <1>9 DEF Child
  <2>1. CASE p = i /\ c = l
    BY <1>0, <1>1, <1>2, <1>6, <2>1, CompareOrders
  <2>2. CASE p = i /\ c # l
    BY <1>0, <1>1, <1>2, <1>6, <1>7, <1>9, <2>0, <2>2
  <2>3. CASE p # i /\ c = i
    BY <1>0, <1>2, <1>5, <1>6, <1>7, <1>8, <1>9, <2>0, <2>3
  <2>4. CASE p # i /\ c = l
    BY <1>0, <1>2, <1>7, <1>9, <2>4 DEF Child
  <2>5. CASE p # i /\ c # i /\ c # l
    BY <1>4, <1>6, <1>9, <2>5
  <2> QED
    BY <2>1, <2>2, <2>3, <2>4, <2>5
<1>10. ASSUME NEW p \in 1 .. Len(h), NEW c \in 1 .. Len(h), p >= from, Child(p, l),
              Child(l, c)
       PROVE  ~compare(g[c], g[p])
  <2>1. p = i
    BY <1>0, <1>2, <1>7, <1>10 DEF Child
  <2>2. c # i /\ c # l
    BY <1>0, <1>2, <1>7, <1>10 DEF Child
  <2> QED
    BY <1>2, <1>4, <1>6, <1>8, <1>10, <2>1, <2>2
<1>11. Sink(s) \in Spots
  BY <1>2, <1>3, <1>6, <1>7 DEF Spots
<1> QED
  BY <1>3, <1>6, <1>8, <1>9, <1>10, <1>11 DEF Sinking, i

-----------------------------------------------------------------------------
(* How often an entry occurs *)

\* Where an entry is.
Places(h, x) == {i \in 1 .. Len(h) : h[i] = x}

Count(h, x) == Cardinality(Places(h, x))

\* One array is a rearrangement of the other.
Same(h, g) == Len(g) = Len(h) /\ \A x : Count(g, x) = Count(h, x)

\* An entry occurs finitely often.
LEMMA PlacesFinite ==
  ASSUME NEW h, Len(h) \in Nat, NEW x
  PROVE  IsFiniteSet(Places(h, x)) /\ Count(h, x) \in Nat
<1>1. IsFiniteSet(1 .. Len(h))
  <2>1. 1 \in Int /\ Len(h) \in Int
    OBVIOUS
  <2> QED
    BY <2>1, FS_Interval
<1>2. Places(h, x) \in SUBSET (1 .. Len(h))
  BY DEF Places
<1>3. IsFiniteSet(Places(h, x))
  BY <1>1, <1>2, FS_Subset
<1> QED
  BY <1>3, FS_CardinalityType DEF Count

\* Where the places of one list are paired with some of another.
LEMMA CountMapped ==
  ASSUME NEW h, NEW g, Len(h) \in Nat, Len(g) \in Nat, NEW x,
         NEW D, NEW m \in Bijection(1 .. Len(g), D),
         \A j \in 1 .. Len(g) : g[j] = h[m[j]]
  PROVE  Cardinality({i \in D : h[i] = x}) = Count(g, x)
<1> DEFINE A == {i \in D : h[i] = x}
           B == Places(g, x)
           q == [j \in B |-> m[j]]
<1>1. q \in Bijection(B, A)
  <2>1. \A j \in B : j \in 1 .. Len(g) /\ m[j] \in A
    BY DEF Places, Bijection, Injection
  <2>2. \A i, j \in B : m[i] = m[j] => i = j
    BY <2>1 DEF Bijection, Injection, IsInjective
  <2>3. \A i \in A : \E j \in B : m[j] = i
    <3> TAKE i \in A
    <3>1. PICK j \in 1 .. Len(g) : m[j] = i
      BY DEF Bijection, Surjection
    <3>2. j \in B
      BY <3>1 DEF Places
    <3> QED
      BY <3>1, <3>2
  <2> HIDE DEF A, B
  <2> QED
    BY <2>1, <2>2, <2>3 DEF Bijection, Injection, Surjection, IsInjective
<1>2. IsFiniteSet(B)
  BY PlacesFinite
<1> HIDE DEF A, B, q
<1>3. ExistsBijection(B, A)
  BY <1>1 DEF ExistsBijection
<1>4. Cardinality(A) = Cardinality(B)
  BY <1>2, <1>3, FS_Bijection
<1> QED
  BY <1>4 DEF A, B, Count

\* Swapping rearranges.
LEMMA SwapSame ==
  ASSUME NEW h \in Heaps, NEW i \in 1 .. Len(h), NEW j \in 1 .. Len(h)
  PROVE  Same(h, Swap(h, i, j))
<1> DEFINE g == Swap(h, i, j)
           m == [k \in 1 .. Len(h) |-> IF k = i THEN j ELSE IF k = j THEN i ELSE k]
<1>1. /\ Len(h) \in Nat /\ Len(g) = Len(h) /\ g[i] = h[j] /\ g[j] = h[i]
      /\ \A k \in 1 .. Len(h) : k # i /\ k # j => g[k] = h[k]
  <2>1. Len(h) \in Nat
    BY DEF Heaps
  <2> QED
    BY <2>1, SwapFits
<1> HIDE DEF g
<1>2. \A k \in 1 .. Len(g) : g[k] = h[m[k]]
  BY <1>1
<1>3. m \in Bijection(1 .. Len(g), 1 .. Len(h))
  <2>1. \A k \in 1 .. Len(h) : m[k] \in 1 .. Len(h) /\ m[m[k]] = k
    OBVIOUS
  <2> HIDE DEF m
  <2>2. m = [k \in 1 .. Len(h) |-> m[k]]
    BY DEF m
  <2> QED
    BY <1>1, <2>1, <2>2 DEF Bijection, Injection, Surjection, IsInjective
<1> HIDE DEF m
<1>4. ASSUME NEW x PROVE Count(g, x) = Count(h, x)
  <2>1. Cardinality({k \in 1 .. Len(h) : h[k] = x}) = Count(g, x)
    BY <1>1, <1>2, <1>3, CountMapped
  <2> QED
    BY <2>1 DEF Count, Places
<1> QED
  BY <1>1, <1>4 DEF Same, g

\* r is h without the entry at k.
Without(h, k, r) ==
  \E m \in Bijection(1 .. Len(r), (1 .. Len(h)) \ {k}) :
     \A j \in 1 .. Len(r) : r[j] = h[m[j]]

\* What is taken out occurs once less.
LEMMA CountWithout ==
  ASSUME NEW h, NEW r, Len(h) \in Nat, Len(r) \in Nat, NEW k \in 1 .. Len(h),
         Without(h, k, r), NEW x
  PROVE  Count(h, x) = Count(r, x) + (IF h[k] = x THEN 1 ELSE 0)
<1>1. PICK m \in Bijection(1 .. Len(r), (1 .. Len(h)) \ {k}) :
         \A j \in 1 .. Len(r) : r[j] = h[m[j]]
  BY DEF Without
<1>2. Cardinality({i \in (1 .. Len(h)) \ {k} : h[i] = x}) = Count(r, x)
  BY <1>1, CountMapped
<1>3. {i \in (1 .. Len(h)) \ {k} : h[i] = x} = Places(h, x) \ {k}
  BY DEF Places
<1>4. k \in Places(h, x) <=> h[k] = x
  BY DEF Places
<1>5. IsFiniteSet(Places(h, x)) /\ Cardinality(Places(h, x)) \in Nat
  BY PlacesFinite DEF Count
<1>6. Cardinality(Places(h, x) \ {k})
        = IF k \in Places(h, x) THEN Cardinality(Places(h, x)) - 1
          ELSE Cardinality(Places(h, x))
  BY <1>5, FS_RemoveElement
<1>7. Cardinality(Places(h, x) \ {k}) = Count(r, x)
  BY <1>2, <1>3
<1>8. Count(h, x) = Cardinality(Places(h, x))
  BY DEF Count
<1> QED
  BY <1>4, <1>5, <1>6, <1>7, <1>8

-----------------------------------------------------------------------------
(* sinkDown and bubbleUp *)

\* A pass rearranges.
LEMMA SinkSame ==
  ASSUME NEW s \in Spots
  PROVE  Same(s.heap, Sink(s).heap)
<1>1. s.heap \in Heaps /\ s.at \in 1 .. Len(s.heap)
  BY DEF Spots
<1>2. Largest(s.heap, s.at) \in 1 .. Len(s.heap)
  BY <1>1, LargestIs
<1>3. Sink(s).heap = Swap(s.heap, s.at, Largest(s.heap, s.at))
  BY DEF Sink
<1> QED
  BY <1>1, <1>2, <1>3, SwapSame

\* Rearranging twice rearranges.
LEMMA SameChains ==
  ASSUME NEW h, NEW g, NEW k, Same(h, g), Same(g, k)
  PROVE  Same(h, k)
  BY DEF Same

\* sinkDown rearranges.
LEMMA SinkDownKeeps ==
  ASSUME NEW h \in Heaps, NEW i \in 1 .. Len(h)
  PROVE  sinkDown(h, i) \in Heaps /\ Same(h, sinkDown(h, i))
<1> DEFINE n == Len(h)
           s == [heap |-> h, at |-> i]
<1>1. n \in Nat /\ s \in Spots /\ s.heap = h
  BY DEF Spots, Heaps
<1>2. PICK f : /\ f[0] = s /\ \A k \in 1 .. n : f[k] = Sink(f[k - 1])
               /\ Loop(LAMBDA x, k : Sink(x), s, n) = f[n]
  BY <1>1, SinkRuns
<1>3. sinkDown(h, i) = f[n].heap
  BY <1>2 DEF sinkDown
<1> HIDE DEF s
<1> DEFINE T == {k \in Nat : k <= n => f[k] \in Spots /\ Same(h, f[k].heap)}
<1>4. 0 \in T
  BY <1>1, <1>2 DEF Same
<1>5. ASSUME NEW k \in T PROVE k + 1 \in T
  <2>0. k \in Nat
    OBVIOUS
  <2>1. SUFFICES ASSUME k + 1 <= n PROVE k + 1 \in T
    BY <2>0
  <2>2. k + 1 \in 1 .. n /\ (k + 1) - 1 = k /\ k <= n
    BY <2>0, <2>1, <1>1
  <2>3. f[k + 1] = Sink(f[k])
    BY <1>2, <2>2
  <2>4. f[k] \in Spots /\ Same(h, f[k].heap)
    BY <2>2
  <2>5. f[k + 1] \in Spots /\ Same(h, f[k + 1].heap)
    BY <2>3, <2>4, SinkSpot, SinkSame, SameChains
  <2> QED
    BY <2>0, <2>5
<1> HIDE DEF T
<1>6. n \in T
  BY <1>1, <1>4, <1>5, Upwards
<1>7. f[n] \in Spots /\ Same(h, f[n].heap)
  BY <1>1, <1>6 DEF T
<1> QED
  BY <1>3, <1>7 DEF Spots

\* sinkDown mends the heap at i when it is in order below.
LEMMA SinkDownMends ==
  ASSUME NEW h \in Heaps, NEW i \in 1 .. Len(h), Fits(h, i + 1)
  PROVE  Fits(sinkDown(h, i), i)
<1> DEFINE n == Len(h)
           s == [heap |-> h, at |-> i]
<1>1. n \in Nat /\ i \in Nat /\ s \in Spots /\ s.heap = h /\ s.at = i
  BY DEF Spots, Heaps
<1>2. Sinking(s, i)
  <2>1. ASSUME NEW p \in 1 .. n, NEW c \in 1 .. n, p >= i, p # i, Child(p, c)
        PROVE  ~compare(h[c], h[p])
    BY <1>1, <2>1 DEF Fits
  <2>2. ASSUME NEW p \in 1 .. n, p >= i PROVE ~Child(p, i)
    BY <1>1, <2>2 DEF Child
  <2> QED
    BY <1>1, <2>1, <2>2 DEF Sinking
<1>3. PICK f : /\ f[0] = s /\ \A k \in 1 .. n : f[k] = Sink(f[k - 1])
               /\ Loop(LAMBDA x, k : Sink(x), s, n) = f[n]
  BY <1>1, SinkRuns
<1>4. sinkDown(h, i) = f[n].heap
  BY <1>3 DEF sinkDown
<1> HIDE DEF s
<1> DEFINE T == {k \in Nat : k <= n =>
                    /\ Sinking(f[k], i)
                    /\ f[k].at >= i + k \/ Largest(f[k].heap, f[k].at) = f[k].at}
<1>5. 0 \in T
  <2>1. Sinking(f[0], i)
    BY <1>2, <1>3
  <2>2. f[0].at >= i + 0
    <3>1. f[0].at = i
      BY <1>1, <1>3
    <3>2. i >= i + 0
      BY <1>1
    <3> QED
      BY <3>1, <3>2
  <2> QED
    BY <2>1, <2>2
<1>6. ASSUME NEW k \in T PROVE k + 1 \in T
  <2>0. k \in Nat
    OBVIOUS
  <2>1. SUFFICES ASSUME k + 1 <= n PROVE k + 1 \in T
    BY <2>0
  <2>2. k + 1 \in 1 .. n /\ (k + 1) - 1 = k /\ k <= n
    BY <2>0, <2>1, <1>1
  <2>3. f[k + 1] = Sink(f[k])
    BY <1>3, <2>2
  <2>4. Sinking(f[k], i) /\ (f[k].at >= i + k \/ Largest(f[k].heap, f[k].at) = f[k].at)
    BY <2>2
  <2>5. f[k].at \in Nat /\ Sink(f[k]).at \in Nat
    BY <2>4, SinkSpot DEF Sinking, Spots
  <2>6. CASE Largest(f[k].heap, f[k].at) = f[k].at
    BY <1>1, <2>0, <2>3, <2>4, <2>6, SinkStays
  <2>7. CASE Largest(f[k].heap, f[k].at) # f[k].at
    <3>1. Sinking(f[k + 1], i) /\ f[k + 1].at > f[k].at
      BY <1>1, <2>3, <2>4, <2>7, SinkMoves
    <3>2. f[k + 1].at >= i + (k + 1)
      BY <1>1, <2>0, <2>3, <2>4, <2>5, <2>7, <3>1
    <3> QED
      BY <2>0, <3>1, <3>2
  <2> QED
    BY <2>6, <2>7
<1> HIDE DEF T
<1>7. n \in T
  BY <1>1, <1>5, <1>6, Upwards
<1>8. Sinking(f[n], i) /\ (f[n].at >= i + n \/ Largest(f[n].heap, f[n].at) = f[n].at)
  BY <1>1, <1>7 DEF T
<1>9. f[n].at \in 1 .. n
  BY <1>4, <1>8, SinkDownKeeps DEF Sinking, Spots, Same
<1>10. Largest(f[n].heap, f[n].at) = f[n].at
  BY <1>1, <1>8, <1>9
<1> QED
  BY <1>1, <1>4, <1>8, <1>10, SinkStays

-----------------------------------------------------------------------------
Parent(i) == i \div 2

\* Every position but the first has one parent, further up.
LEMMA Parents ==
  ASSUME NEW i \in Nat, i > 1
  PROVE  /\ Parent(i) \in Nat /\ Parent(i) >= 1 /\ Parent(i) < i /\ Child(Parent(i), i)
         /\ \A p \in Nat : Child(p, i) => p = Parent(i)
  BY DEF Parent, Child

\* In order but for the entry that is rising.
Lifting(s) ==
  /\ s \in Spots
  /\ \A p, c \in 1 .. Len(s.heap) :
        c # s.at /\ Child(p, c) => ~compare(s.heap[c], s.heap[p])
  /\ \A p, c \in 1 .. Len(s.heap) :
        Child(p, s.at) /\ Child(s.at, c) => ~compare(s.heap[c], s.heap[p])

\* The entry has risen far enough.
Lifted(s) == ~(s.at > 1 /\ compare(s.heap[s.at], s.heap[Parent(s.at)]))

\* Then it stays, and the heap is in order.
LEMMA LiftStays ==
  ASSUME NEW s, Lifting(s), Lifted(s)
  PROVE  Lift(s) = s /\ Fits(s.heap, 1)
<1>1. s.heap \in Heaps /\ s.at \in 1 .. Len(s.heap) /\ Len(s.heap) \in Nat
  BY DEF Lifting, Spots, Heaps
<1>2. Lift(s) = s
  BY DEF Lift, Lifted, Parent
<1>3. ASSUME NEW p \in 1 .. Len(s.heap), Child(p, s.at)
      PROVE  ~compare(s.heap[s.at], s.heap[p])
  <2>1. s.at > 1 /\ s.at \in Nat
    BY <1>1, <1>3 DEF Child
  <2>2. p = Parent(s.at)
    BY <1>1, <1>3, <2>1, Parents
  <2> QED
    BY <2>1, <2>2 DEF Lifted
<1> QED
  BY <1>2, <1>3 DEF Lifting, Fits

\* Otherwise it moves up, and its new place is the only one out of order.
LEMMA LiftMoves ==
  ASSUME NEW s, Lifting(s), ~Lifted(s)
  PROVE  Lifting(Lift(s)) /\ Lift(s).at < s.at /\ Same(s.heap, Lift(s).heap)
<1> DEFINE h == s.heap
           i == s.at
           q == Parent(i)
           g == Swap(h, i, q)
<1>0. h \in Heaps /\ i \in 1 .. Len(h) /\ i > 1 /\ compare(h[i], h[q])
  BY DEF Lifting, Spots, Lifted
<1>1. \A k \in 1 .. Len(h) : h[k] \in QueuedTransaction
  BY <1>0 DEF Heaps
<1>2. Lift(s) = [heap |-> g, at |-> q]
  BY <1>0 DEF Lift, Parent
<1>3. \A p, c \in 1 .. Len(h) : c # i /\ Child(p, c) => ~compare(h[c], h[p])
  BY DEF Lifting
<1>4. \A p, c \in 1 .. Len(h) : Child(p, i) /\ Child(i, c) => ~compare(h[c], h[p])
  BY DEF Lifting
<1> HIDE DEF h, i
<1>5. Len(h) \in Nat
  BY <1>0 DEF Heaps
<1>6. /\ q \in 1 .. Len(h) /\ q < i /\ Child(q, i)
      /\ \A p \in 1 .. Len(h) : Child(p, i) => p = q
  BY <1>0, <1>5, Parents
<1> HIDE DEF q
<1>7. /\ g \in Heaps /\ Len(g) = Len(h) /\ g[i] = h[q] /\ g[q] = h[i]
      /\ \A k \in 1 .. Len(h) : k # i /\ k # q => g[k] = h[k]
  BY <1>0, <1>6, SwapFits
<1>8. Same(h, g)
  BY <1>0, <1>6, SwapSame
<1> HIDE DEF g
<1>9. ASSUME NEW p \in 1 .. Len(h), NEW c \in 1 .. Len(h), c # q, Child(p, c)
      PROVE  ~compare(g[c], g[p])
  <2>0. c > p
    BY <1>5, <1>9 DEF Child
  <2>1. CASE c = i
    <3>1. p = q
      BY <1>6, <1>9, <2>1
    <3> QED
      BY <1>0, <1>1, <1>6, <1>7, <2>1, <3>1, CompareOrders
  <2>2. CASE c # i /\ p = q
    <3>1. ~compare(h[c], h[q])
      BY <1>3, <1>6, <1>9, <2>2
    <3>2. ~compare(h[c], h[i])
      <4>1. ~compare(h[q], h[i])
        BY <1>0, <1>1, <1>6, CompareOrders
      <4> QED
        BY <1>0, <1>1, <1>6, <3>1, <4>1, CompareOrders
    <3> QED
      BY <1>7, <1>9, <2>2, <3>2
  <2>3. CASE c # i /\ p = i
    <3>1. ~compare(h[c], h[q])
      BY <1>4, <1>6, <1>9, <2>3
    <3> QED
      BY <1>7, <1>9, <2>3, <3>1
  <2>4. CASE c # i /\ p # i /\ p # q
    BY <1>3, <1>7, <1>9, <2>4
  <2> QED
    BY <2>1, <2>2, <2>3, <2>4
<1>10. ASSUME NEW p \in 1 .. Len(h), NEW c \in 1 .. Len(h), Child(p, q), Child(q, c)
       PROVE  ~compare(g[c], g[p])
  <2>1. p # q /\ p # i /\ c # q /\ q # i
    BY <1>5, <1>6, <1>10 DEF Child
  <2>2. ~compare(h[q], h[p])
    BY <1>3, <1>6, <1>10, <2>1
  <2>3. CASE c = i
    BY <1>7, <2>1, <2>2, <2>3
  <2>4. CASE c # i
    <3>1. ~compare(h[c], h[q])
      BY <1>3, <1>6, <1>10, <2>4
    <3>2. ~compare(h[c], h[p])
      BY <1>1, <1>6, <2>2, <3>1, CompareOrders
    <3> QED
      BY <1>7, <2>1, <2>4, <3>2
  <2> QED
    BY <2>3, <2>4
<1>11. Lift(s) \in Spots
  BY <1>2, <1>5, <1>6, <1>7 DEF Spots
<1>12. Lifting(Lift(s))
  BY <1>2, <1>7, <1>9, <1>10, <1>11 DEF Lifting
<1> QED
  BY <1>2, <1>6, <1>8, <1>12 DEF h, i

\* The loop of bubbleUp is its passes taken one after the other.
LEMMA LiftRuns ==
  ASSUME NEW s \in Spots, NEW n \in Nat
  PROVE  \E f : /\ f[0] = s /\ \A k \in 1 .. n : f[k] = Lift(f[k - 1])
               /\ Loop(LAMBDA x, k : Lift(x), s, n) = f[n]
<1> DEFINE pass == [k \in 1 .. n |-> [x \in Spots |-> Lift(x)]]
           Solves(f) == f = [k \in 0 .. n |-> IF k = 0 THEN s ELSE Lift(f[k - 1])]
           c == CHOOSE f : Solves(f)
<1>1. pass \in [1 .. n -> [Spots -> Spots]]
  BY LiftSpot
<1>2. \A k \in 1 .. n : \A x \in Spots : pass[k][x] = Lift(x)
  OBVIOUS
<1> HIDE DEF pass
<1>3. PICK f \in [0 .. n -> Spots] : f[0] = s /\ \A k \in 1 .. n : f[k] = pass[k][f[k - 1]]
  <2>1. Iterable(Spots, s, n, pass)
    BY <1>1, IterExists
  <2> QED
    BY <2>1 DEF Iterable
<1>4. \A k \in 1 .. n : f[k] = Lift(f[k - 1])
  BY <1>2, <1>3
<1>5. Solves(f)
  BY <1>3, <1>4
<1>6. Solves(c)
  <2> HIDE DEF Solves
  <2> QED
    BY <1>5
<1>7. Loop(LAMBDA x, k : Lift(x), s, n) = c[n]
  BY DEF Loop
<1> HIDE DEF c
<1>8. c[0] = s
  BY <1>6
<1>9. \A k \in 1 .. n : c[k] = Lift(c[k - 1])
  BY <1>6
<1> QED
  BY <1>7, <1>8, <1>9

\* bubbleUp mends a heap whose entry at i may be too low.
LEMMA BubbleUpMends ==
  ASSUME NEW h \in Heaps, NEW i \in 1 .. Len(h), Lifting([heap |-> h, at |-> i])
  PROVE  bubbleUp(h, i) \in Heaps /\ Same(h, bubbleUp(h, i)) /\ Fits(bubbleUp(h, i), 1)
<1> DEFINE s == [heap |-> h, at |-> i]
<1>1. Len(h) \in Nat /\ i \in Nat /\ s \in Spots /\ s.heap = h /\ s.at = i
  BY DEF Spots, Heaps
<1>3. PICK f : /\ f[0] = s /\ \A k \in 1 .. i : f[k] = Lift(f[k - 1])
               /\ Loop(LAMBDA x, k : Lift(x), s, i) = f[i]
  BY <1>1, LiftRuns
<1>4. bubbleUp(h, i) = f[i].heap
  BY <1>3 DEF bubbleUp
<1>2. Lifting(s)
  OBVIOUS
<1> HIDE DEF s
<1> DEFINE T == {k \in Nat : k <= i =>
                    /\ Lifting(f[k]) /\ Same(h, f[k].heap)
                    /\ f[k].at <= i - k \/ Lifted(f[k])}
<1>5. 0 \in T
  <2>1. Lifting(f[0]) /\ Same(h, f[0].heap)
    BY <1>1, <1>2, <1>3 DEF Same
  <2>2. f[0].at <= i - 0
    <3>1. f[0].at = i
      BY <1>1, <1>3
    <3>2. i <= i - 0
      BY <1>1
    <3> QED
      BY <3>1, <3>2
  <2> QED
    BY <2>1, <2>2
<1>6. ASSUME NEW k \in T PROVE k + 1 \in T
  <2>0. k \in Nat
    OBVIOUS
  <2>1. SUFFICES ASSUME k + 1 <= i PROVE k + 1 \in T
    BY <2>0
  <2>2. f[k + 1] = Lift(f[k])
    <3>1. k + 1 \in 1 .. i /\ (k + 1) - 1 = k
      BY <2>0, <2>1, <1>1
    <3> QED
      BY <1>3, <3>1
  <2>3. Lifting(f[k]) /\ Same(h, f[k].heap) /\ (f[k].at <= i - k \/ Lifted(f[k]))
    BY <2>0, <2>1, <1>1
  <2>4. f[k] \in Spots /\ f[k].at \in Nat /\ Lift(f[k]).at \in Nat
    BY <2>3, LiftSpot DEF Lifting, Spots
  <2>6. CASE Lifted(f[k])
    BY <2>0, <2>2, <2>3, <2>6, LiftStays
  <2>7. CASE ~Lifted(f[k])
    <3>1. /\ Lifting(f[k + 1]) /\ f[k + 1].at < f[k].at
          /\ Same(f[k].heap, f[k + 1].heap)
      BY <2>2, <2>3, <2>7, LiftMoves
    <3>2. f[k + 1].at <= i - (k + 1)
      BY <1>1, <2>0, <2>2, <2>3, <2>4, <2>7, <3>1
    <3> QED
      BY <2>0, <2>3, <3>1, <3>2, SameChains
  <2> QED
    BY <2>6, <2>7
<1> HIDE DEF T
<1>7. i \in T
  BY <1>1, <1>5, <1>6, Upwards
<1>8. Lifting(f[i]) /\ Same(h, f[i].heap) /\ (f[i].at <= i - i \/ Lifted(f[i]))
  BY <1>1, <1>7 DEF T
<1>9. f[i].heap \in Heaps /\ f[i].at \in Nat /\ f[i].at >= 1
  BY <1>8 DEF Lifting, Spots
<1>10. Lifted(f[i])
  BY <1>1, <1>8, <1>9
<1> QED
  BY <1>4, <1>8, <1>9, <1>10, LiftStays

\* Where the heap is in order bubbleUp leaves it alone.
LEMMA BubbleUpIdle ==
  ASSUME NEW h \in Heaps, NEW i \in 1 .. Len(h), Fits(h, 1)
  PROVE  bubbleUp(h, i) = h
<1> DEFINE s == [heap |-> h, at |-> i]
<1>1. Len(h) \in Nat /\ i \in Nat /\ s \in Spots /\ s.heap = h /\ s.at = i
  BY DEF Spots, Heaps
<1>2. PICK f : /\ f[0] = s /\ \A k \in 1 .. i : f[k] = Lift(f[k - 1])
               /\ Loop(LAMBDA x, k : Lift(x), s, i) = f[i]
  BY <1>1, LiftRuns
<1>3. Lift(s) = s
  <2>1. CASE i > 1
    <3>1. Parent(i) \in 1 .. Len(h) /\ Child(Parent(i), i)
      BY <1>1, <2>1, Parents
    <3>2. ~compare(h[i], h[Parent(i)])
      BY <3>1 DEF Fits
    <3> QED
      BY <3>2 DEF Lift, Parent
  <2>2. CASE ~(i > 1)
    BY <2>2 DEF Lift
  <2> QED
    BY <2>1, <2>2
<1>4. bubbleUp(h, i) = f[i].heap
  BY <1>2 DEF bubbleUp
<1> HIDE DEF s
<1> DEFINE T == {k \in Nat : k <= i => f[k] = s}
<1>5. 0 \in T
  BY <1>2
<1>6. ASSUME NEW k \in T PROVE k + 1 \in T
  <2>0. k \in Nat
    OBVIOUS
  <2>1. SUFFICES ASSUME k + 1 <= i PROVE k + 1 \in T
    BY <2>0
  <2>2. k + 1 \in 1 .. i /\ (k + 1) - 1 = k /\ k <= i
    BY <2>0, <2>1, <1>1
  <2>3. f[k] = s
    BY <2>0, <2>2
  <2>4. f[k + 1] = Lift(f[k])
    BY <1>2, <2>2
  <2> QED
    BY <1>3, <2>0, <2>3, <2>4
<1> HIDE DEF T
<1>7. i \in T
  BY <1>1, <1>5, <1>6, Upwards
<1> QED
  BY <1>1, <1>4, <1>7 DEF T

-----------------------------------------------------------------------------
(* The loops over the whole array *)

\* The heaps of one length.
Alike(n) == {g \in Heaps : Len(g) = n}

\* The loop that rebuilds is its calls of sinkDown, one after the other.
LEMMA RebuildRuns ==
  ASSUME NEW n \in Nat, NEW h \in Alike(n), NEW half \in Nat, half <= n
  PROVE  \E f : /\ f[0] = h /\ \A k \in 1 .. half : f[k] = sinkDown(f[k - 1], half + 1 - k)
               /\ Loop(LAMBDA g, k : sinkDown(g, half + 1 - k), h, half) = f[half]
<1> DEFINE pass == [k \in 1 .. half |-> [x \in Alike(n) |-> sinkDown(x, half + 1 - k)]]
           Solves(f) == f = [k \in 0 .. half |->
                                IF k = 0 THEN h ELSE sinkDown(f[k - 1], half + 1 - k)]
           c == CHOOSE f : Solves(f)
<1>1. ASSUME NEW k \in 1 .. half, NEW x \in Alike(n)
      PROVE  sinkDown(x, half + 1 - k) \in Alike(n)
  <2>1. half + 1 - k \in 1 .. Len(x) /\ x \in Heaps /\ Len(x) = n
    BY DEF Alike
  <2> QED
    BY <2>1, SinkDownKeeps DEF Same, Alike
<1>2. pass \in [1 .. half -> [Alike(n) -> Alike(n)]]
  BY <1>1
<1>3. \A k \in 1 .. half : \A x \in Alike(n) : pass[k][x] = sinkDown(x, half + 1 - k)
  OBVIOUS
<1> HIDE DEF pass
<1>4. PICK f \in [0 .. half -> Alike(n)] :
         f[0] = h /\ \A k \in 1 .. half : f[k] = pass[k][f[k - 1]]
  <2>1. Iterable(Alike(n), h, half, pass)
    BY <1>2, IterExists
  <2> QED
    BY <2>1 DEF Iterable
<1>5. \A k \in 1 .. half : f[k] = sinkDown(f[k - 1], half + 1 - k)
  BY <1>3, <1>4
<1>6. Solves(f)
  BY <1>4, <1>5
<1>7. Solves(c)
  <2> HIDE DEF Solves
  <2> QED
    BY <1>6
<1>8. Loop(LAMBDA g, k : sinkDown(g, half + 1 - k), h, half) = c[half]
  BY DEF Loop
<1> HIDE DEF c
<1>9. c[0] = h
  BY <1>7
<1>10. \A k \in 1 .. half : c[k] = sinkDown(c[k - 1], half + 1 - k)
  BY <1>7
<1> QED
  BY <1>8, <1>9, <1>10

\* The loop over all inner positions puts any list in order.
LEMMA RebuildMends ==
  ASSUME NEW h \in Heaps
  PROVE  Rebuild(h) \in Heaps /\ Same(h, Rebuild(h)) /\ Fits(Rebuild(h), 1)
<1> DEFINE half == Len(h) \div 2
<1>1. Len(h) \in Nat /\ half \in Nat /\ half <= Len(h) /\ 2 * (half + 1) > Len(h)
  BY DEF Heaps
<1>2. PICK f : /\ f[0] = h /\ \A k \in 1 .. half : f[k] = sinkDown(f[k - 1], half + 1 - k)
               /\ Loop(LAMBDA g, k : sinkDown(g, half + 1 - k), h, half) = f[half]
  <2>1. h \in Alike(Len(h))
    BY DEF Alike
  <2> HIDE DEF half
  <2> QED
    BY <1>1, <2>1, RebuildRuns
<1>3. Rebuild(h) = f[half]
  BY <1>2 DEF Rebuild
<1> HIDE DEF half
<1> DEFINE T == {k \in Nat : k <= half =>
                    f[k] \in Heaps /\ Same(h, f[k]) /\ Fits(f[k], half + 1 - k)}
<1>4. 0 \in T
  <2>1. Fits(h, half + 1 - 0)
    BY <1>1 DEF Fits, Child
  <2> QED
    BY <1>2, <2>1 DEF Same
<1>5. ASSUME NEW k \in T PROVE k + 1 \in T
  <2>0. k \in Nat
    OBVIOUS
  <2>1. SUFFICES ASSUME k + 1 <= half PROVE k + 1 \in T
    BY <2>0
  <2>2. k + 1 \in 1 .. half /\ (k + 1) - 1 = k /\ k <= half
    BY <2>0, <2>1, <1>1
  <2> DEFINE i == half - k
  <2>3. i \in 1 .. Len(h) /\ half + 1 - (k + 1) = i /\ half + 1 - k = i + 1
    BY <1>1, <2>0, <2>1
  <2>4. f[k + 1] = sinkDown(f[k], i)
    BY <1>2, <2>2, <2>3
  <2>5. f[k] \in Heaps /\ Same(h, f[k]) /\ Fits(f[k], i + 1)
    BY <2>2, <2>3
  <2>6. i \in 1 .. Len(f[k])
    BY <2>3, <2>5 DEF Same
  <2> HIDE DEF i
  <2>7. f[k + 1] \in Heaps /\ Same(h, f[k + 1]) /\ Fits(f[k + 1], i)
    BY <2>4, <2>5, <2>6, SinkDownKeeps, SinkDownMends, SameChains
  <2> QED
    BY <2>0, <2>3, <2>7
<1> HIDE DEF T
<1>6. half \in T
  BY <1>1, <1>4, <1>5, Upwards
<1>7. half + 1 - half = 1
  BY <1>1
<1> QED
  BY <1>1, <1>3, <1>6, <1>7 DEF T

\* Where the heap is in order, lifting every entry changes nothing.
LEMMA LiftAllIdle ==
  ASSUME NEW h \in Heaps, Fits(h, 1)
  PROVE  LiftAll(h) = h
<1> DEFINE n == Len(h)
           pass == [k \in 1 .. n |-> [x \in {h} |-> bubbleUp(x, n + 1 - k)]]
           Solves(f) == f = [k \in 0 .. n |->
                                IF k = 0 THEN h ELSE bubbleUp(f[k - 1], n + 1 - k)]
           c == CHOOSE f : Solves(f)
<1>1. n \in Nat
  BY DEF Heaps
<1>2. \A k \in 1 .. n : bubbleUp(h, n + 1 - k) = h
  <2> TAKE k \in 1 .. n
  <2>1. n + 1 - k \in 1 .. n
    BY <1>1
  <2> QED
    BY <2>1, BubbleUpIdle
<1>3. Solves([k \in 0 .. n |-> h])
  BY <1>1, <1>2
<1>4. Solves(c)
  <2> HIDE DEF Solves
  <2> QED
    BY <1>3
<1>5. LiftAll(h) = c[n]
  BY DEF LiftAll, Loop
<1> HIDE DEF c
<1>6. c[0] = h
  BY <1>1, <1>4
<1>7. \A k \in 1 .. n : c[k] = bubbleUp(c[k - 1], n + 1 - k)
  BY <1>1, <1>4
<1> DEFINE T == {k \in Nat : k <= n => c[k] = h}
<1>8. 0 \in T
  BY <1>6
<1>9. ASSUME NEW k \in T PROVE k + 1 \in T
  <2>0. k \in Nat
    OBVIOUS
  <2>1. SUFFICES ASSUME k + 1 <= n PROVE k + 1 \in T
    BY <2>0
  <2>2. k + 1 \in 1 .. n /\ (k + 1) - 1 = k /\ k <= n
    BY <2>0, <2>1, <1>1
  <2>3. c[k] = h
    BY <2>0, <2>2
  <2>4. c[k + 1] = bubbleUp(c[k], n + 1 - (k + 1))
    BY <1>7, <2>2
  <2> QED
    BY <1>2, <2>0, <2>2, <2>3, <2>4
<1> HIDE DEF T
<1>10. n \in T
  BY <1>1, <1>8, <1>9, Upwards
<1> QED
  BY <1>1, <1>5, <1>10 DEF T

\* In an ordered heap nothing goes before the first entry.
LEMMA FirstIsFirst ==
  ASSUME NEW h \in Heaps, Fits(h, 1), NEW j \in 1 .. Len(h)
  PROVE  ~compare(h[j], h[1])
<1>1. Len(h) \in Nat /\ \A k \in 1 .. Len(h) : h[k] \in QueuedTransaction
  BY DEF Heaps
<1> DEFINE T == {n \in Nat : \A k \in 1 .. Len(h) : k <= n => ~compare(h[k], h[1])}
<1>2. 0 \in T
  OBVIOUS
<1>3. ASSUME NEW n \in T PROVE n + 1 \in T
  <2>0. n \in Nat
    OBVIOUS
  <2>1. SUFFICES ASSUME NEW k \in 1 .. Len(h), k = n + 1 PROVE ~compare(h[k], h[1])
    BY <2>0, <1>1
  <2>2. CASE k = 1
    BY <1>1, <2>2, CompareOrders
  <2>3. CASE k > 1
    <3>1. Parent(k) \in 1 .. Len(h) /\ Parent(k) <= n /\ Child(Parent(k), k)
      BY <1>1, <2>0, <2>1, <2>3, Parents
    <3>2. ~compare(h[Parent(k)], h[1])
      BY <3>1
    <3>3. ~compare(h[k], h[Parent(k)])
      BY <3>1 DEF Fits
    <3>4. 1 \in 1 .. Len(h)
      BY <1>1
    <3> QED
      BY <1>1, <3>1, <3>2, <3>3, <3>4, CompareOrders
  <2> QED
    BY <2>2, <2>3
<1> HIDE DEF T
<1>4. j \in T
  BY <1>2, <1>3, Upwards
<1> QED
  BY <1>4 DEF T

-----------------------------------------------------------------------------
(* What the methods put in and take out *)

\* push
LEMMA AppendWithout ==
  ASSUME NEW h \in Heaps, NEW e \in QueuedTransaction
  PROVE  LET g == Append(h, e)
         IN  /\ g \in Heaps /\ Len(g) = Len(h) + 1 /\ g[Len(h) + 1] = e
             /\ \A j \in 1 .. Len(h) : g[j] = h[j]
             /\ Without(g, Len(h) + 1, h)
<1> DEFINE g == Append(h, e)
           m == [j \in 1 .. Len(h) |-> j]
<1>1. /\ Len(h) \in Nat /\ g \in Heaps /\ Len(g) = Len(h) + 1 /\ g[Len(h) + 1] = e
      /\ \A j \in 1 .. Len(h) : g[j] = h[j]
  BY DEF Heaps
<1> HIDE DEF g
<1>2. m \in Bijection(1 .. Len(h), (1 .. Len(g)) \ {Len(h) + 1})
  <2>1. (1 .. Len(g)) \ {Len(h) + 1} = 1 .. Len(h)
    BY <1>1
  <2> QED
    BY <2>1 DEF Bijection, Injection, Surjection, IsInjective
<1>3. \A j \in 1 .. Len(h) : h[j] = g[m[j]]
  BY <1>1
<1> HIDE DEF m
<1>4. Without(g, Len(h) + 1, h)
  BY <1>2, <1>3 DEF Without
<1> QED
  BY <1>1, <1>4 DEF g

\* What a part of the array holds.
LEMMA Piece ==
  ASSUME NEW h \in Heaps, NEW a \in Nat, NEW b \in Nat, a >= 1, b <= Len(h)
  PROVE  /\ SubSeq(h, a, b) \in Heaps
         /\ Len(SubSeq(h, a, b)) = IF a <= b THEN b - a + 1 ELSE 0
         /\ \A j \in 1 .. b - a + 1 : SubSeq(h, a, b)[j] = h[a + j - 1]
<1>1. h \in Seq(QueuedTransaction) /\ Len(h) \in Nat /\ a \in Int /\ b \in Int
  BY DEF Heaps
<1>2. \A j \in a .. b : j \in 1 .. Len(h)
  BY <1>1
<1>3. \A j \in a .. b : h[j] \in QueuedTransaction
  BY <1>1, <1>2
<1> QED
  BY <1>1, <1>3, SubSeqProperties DEF Heaps

\* splice
LEMMA RemoveWithout ==
  ASSUME NEW h \in Heaps, NEW k \in 1 .. Len(h)
  PROVE  LET r == RemoveAt(h, k)
         IN  /\ r \in Heaps /\ Len(r) = Len(h) - 1 /\ Len(r) \in Nat
             /\ Without(h, k, r)
<1> DEFINE r == RemoveAt(h, k)
           m == [j \in 1 .. Len(r) |-> IF j < k THEN j ELSE j + 1]
<1>1. /\ Len(h) \in Nat /\ r \in Heaps /\ Len(r) = Len(h) - 1
      /\ \A j \in 1 .. Len(r) : r[j] = IF j < k THEN h[j] ELSE h[j + 1]
  <2> DEFINE a == SubSeq(h, 1, k - 1)
             b == SubSeq(h, k + 1, Len(h))
  <2>0. Len(h) \in Nat
    BY DEF Heaps
  <2>1. k - 1 \in Nat /\ k + 1 \in Nat /\ k + 1 >= 1 /\ k - 1 <= Len(h)
    BY <2>0
  <2>2. /\ a \in Heaps /\ Len(a) = IF 1 <= k - 1 THEN k - 1 - 1 + 1 ELSE 0
        /\ \A j \in 1 .. k - 1 - 1 + 1 : a[j] = h[1 + j - 1]
    BY <2>0, <2>1, Piece
  <2>3. /\ b \in Heaps
        /\ Len(b) = IF k + 1 <= Len(h) THEN Len(h) - (k + 1) + 1 ELSE 0
        /\ \A j \in 1 .. Len(h) - (k + 1) + 1 : b[j] = h[k + 1 + j - 1]
    BY <2>0, <2>1, Piece
  <2>4. r = a \o b
    BY DEF RemoveAt
  <2> HIDE DEF a, b, r
  <2>5. Len(a) = k - 1 /\ \A j \in 1 .. k - 1 : a[j] = h[j]
    BY <2>0, <2>1, <2>2
  <2>6. Len(b) = Len(h) - k /\ \A j \in 1 .. Len(h) - k : b[j] = h[k + j]
    BY <2>0, <2>1, <2>3
  <2>7. /\ r \in Heaps /\ Len(r) = Len(a) + Len(b)
        /\ \A j \in 1 .. Len(a) + Len(b) : r[j] = IF j <= Len(a) THEN a[j] ELSE b[j - Len(a)]
    BY <2>2, <2>3, <2>4, ConcatProperties DEF Heaps
  <2>8. ASSUME NEW j \in 1 .. Len(r) PROVE r[j] = IF j < k THEN h[j] ELSE h[j + 1]
    <3>1. CASE j < k
      BY <2>0, <2>5, <2>6, <2>7, <3>1
    <3>2. CASE j >= k
      <4>1. j - (k - 1) \in 1 .. Len(h) - k /\ k + (j - (k - 1)) = j + 1
        BY <2>0, <2>5, <2>6, <2>7, <3>2
      <4>2. r[j] = b[j - (k - 1)]
        BY <2>0, <2>5, <2>6, <2>7, <3>2
      <4> QED
        BY <2>0, <2>6, <3>2, <4>1, <4>2
    <3> QED
      BY <2>0, <2>5, <2>6, <2>7, <3>1, <3>2
  <2> QED
    BY <2>0, <2>5, <2>6, <2>7, <2>8
<1> HIDE DEF r
<1>2. m \in Bijection(1 .. Len(r), (1 .. Len(h)) \ {k})
  <2>1. \A j \in 1 .. Len(r) : m[j] \in (1 .. Len(h)) \ {k}
    BY <1>1
  <2>2. \A i, j \in 1 .. Len(r) : m[i] = m[j] => i = j
    BY <1>1
  <2>3. \A i \in (1 .. Len(h)) \ {k} : \E j \in 1 .. Len(r) : m[j] = i
    <3> TAKE i \in (1 .. Len(h)) \ {k}
    <3> DEFINE j == IF i < k THEN i ELSE i - 1
    <3>1. j \in 1 .. Len(r) /\ m[j] = i
      BY <1>1
    <3> QED
      BY <3>1
  <2>4. m = [j \in 1 .. Len(r) |-> m[j]]
    OBVIOUS
  <2> HIDE DEF m
  <2> QED
    BY <2>1, <2>2, <2>3, <2>4 DEF Bijection, Injection, Surjection, IsInjective
<1>3. \A j \in 1 .. Len(r) : r[j] = h[m[j]]
  BY <1>1
<1> HIDE DEF m
<1>4. Without(h, k, r)
  BY <1>2, <1>3 DEF Without
<1> QED
  BY <1>1, <1>4 DEF r

\* dequeue puts the last entry in the place of the first.
LEMMA FrontWithout ==
  ASSUME NEW h \in Heaps, Len(h) > 1
  PROVE  LET r == [Front(h) EXCEPT ![1] = Last(h)]
         IN  /\ r \in Heaps /\ Len(r) = Len(h) - 1 /\ Len(r) \in Nat
             /\ \A j \in 1 .. Len(r) : j > 1 => r[j] = h[j]
             /\ Without(h, 1, r)
<1> DEFINE r == [Front(h) EXCEPT ![1] = Last(h)]
           m == [j \in 1 .. Len(r) |-> IF j = 1 THEN Len(h) ELSE j]
<1>1. /\ Len(h) \in Nat /\ r \in Heaps /\ Len(r) = Len(h) - 1 /\ Len(r) >= 1
      /\ \A j \in 1 .. Len(r) : r[j] = IF j = 1 THEN h[Len(h)] ELSE h[j]
  <2> DEFINE f == Front(h)
  <2>0. Len(h) \in Nat /\ Len(h) - 1 \in Nat /\ 1 <= Len(h) - 1 /\ Len(h) - 1 <= Len(h)
        /\ Len(h) - 1 - 1 + 1 = Len(h) - 1 /\ h[Len(h)] \in QueuedTransaction
    BY DEF Heaps
  <2>1. /\ f \in Heaps /\ Len(f) = Len(h) - 1
        /\ \A j \in 1 .. Len(h) - 1 : f[j] = h[1 + j - 1]
    BY <2>0, Piece DEF Front
  <2>2. \A j \in 1 .. Len(h) - 1 : f[j] = h[j]
    <3> TAKE j \in 1 .. Len(h) - 1
    <3>1. 1 + j - 1 = j
      OBVIOUS
    <3> QED
      BY <2>1, <3>1
  <2>3. r = [f EXCEPT ![1] = h[Len(h)]]
    BY DEF Last
  <2> HIDE DEF f, r
  <2>4. r \in Heaps /\ Len(r) = Len(f)
    <3>1. f \in Seq(QueuedTransaction) /\ 1 \in 1 .. Len(f)
      BY <2>0, <2>1 DEF Heaps
    <3> QED
      BY <2>0, <2>3, <3>1, ExceptSeq DEF Heaps
  <2>5. \A j \in 1 .. Len(f) : r[j] = IF j = 1 THEN h[Len(h)] ELSE f[j]
    BY <2>0, <2>1, <2>3 DEF Heaps
  <2> QED
    BY <2>0, <2>1, <2>2, <2>4, <2>5
<1> HIDE DEF r
<1>2. m \in Bijection(1 .. Len(r), (1 .. Len(h)) \ {1})
  <2>1. \A j \in 1 .. Len(r) : m[j] \in (1 .. Len(h)) \ {1}
    BY <1>1
  <2>2. \A i, j \in 1 .. Len(r) : m[i] = m[j] => i = j
    BY <1>1
  <2>3. \A i \in (1 .. Len(h)) \ {1} : \E j \in 1 .. Len(r) : m[j] = i
    <3> TAKE i \in (1 .. Len(h)) \ {1}
    <3> DEFINE j == IF i = Len(h) THEN 1 ELSE i
    <3>1. j \in 1 .. Len(r) /\ m[j] = i
      BY <1>1
    <3> QED
      BY <3>1
  <2>4. m = [j \in 1 .. Len(r) |-> m[j]]
    OBVIOUS
  <2> HIDE DEF m
  <2> QED
    BY <2>1, <2>2, <2>3, <2>4 DEF Bijection, Injection, Surjection, IsInjective
<1>3. \A j \in 1 .. Len(r) : r[j] = h[m[j]]
  BY <1>1
<1> HIDE DEF m
<1>4. Without(h, 1, r)
  BY <1>2, <1>3 DEF Without
<1> QED
  BY <1>1, <1>4 DEF r

\* findIndex finds a position of the array.
LEMMA FirstOfIs ==
  ASSUME heap \in Heaps, NEW id, FirstOf(id) # 0
  PROVE  FirstOf(id) \in 1 .. Len(heap)
<1> DEFINE I == {i \in 1 .. Len(heap) : heap[i].id = id}
<1>1. FirstOf(id) = IF I # {} THEN Min(I) ELSE 0
  BY DEF FirstOf, SelectInSeq
<1>2. I # {} /\ I \subseteq Nat /\ I \subseteq 1 .. Len(heap)
  BY <1>1
<1> HIDE DEF I
<1>3. \E x \in I : \A y \in I : x <= y
  BY <1>2, Least
<1>4. Min(I) \in I
  BY <1>3 DEF Min
<1> QED
  BY <1>1, <1>2, <1>4

\* A bag is how often each entry occurs.
LEMMA BagCounts ==
  ASSUME NEW h \in Heaps, NEW x
  PROVE  /\ x \in DOMAIN ToBag(h) <=> Count(h, x) # 0
         /\ x \in DOMAIN ToBag(h) => ToBag(h)[x] = Count(h, x)
<1>1. Len(h) \in Nat /\ DOMAIN h = 1 .. Len(h)
  BY DEF Heaps
<1>2. DOMAIN ToBag(h) = Range(h)
  BY DEF ToBag
<1>3. x \in Range(h) <=> Places(h, x) # {}
  BY <1>1 DEF Range, Places
<1>4. Places(h, x) = {} <=> Count(h, x) = 0
  BY <1>1, PlacesFinite, FS_EmptySet DEF Count
<1>5. x \in Range(h) => ToBag(h)[x] = Count(h, x)
  BY <1>1 DEF ToBag, Count, Places
<1> QED
  BY <1>2, <1>3, <1>4, <1>5

\* and how often each entry occurs is all there is to it.
LEMMA BagsEqual ==
  ASSUME NEW h \in Heaps, NEW B, B = [x \in DOMAIN B |-> B[x]],
         \A x : (x \in DOMAIN B <=> Count(h, x) # 0)
                /\ (x \in DOMAIN B => B[x] = Count(h, x))
  PROVE  ToBag(h) = B
<1>1. \A x : x \in DOMAIN ToBag(h) <=> x \in DOMAIN B
  BY BagCounts
<1>2. DOMAIN ToBag(h) = DOMAIN B
  BY <1>1
<1>3. \A x \in DOMAIN B : ToBag(h)[x] = B[x]
  BY <1>2, BagCounts
<1>4. ToBag(h) = [x \in DOMAIN ToBag(h) |-> ToBag(h)[x]]
  BY DEF ToBag
<1> QED
  BY <1>2, <1>3, <1>4

\* The bag with one entry more,
LEMMA BagGrows ==
  ASSUME NEW h \in Heaps, NEW g \in Heaps, NEW e,
         \A x : Count(g, x) = Count(h, x) + (IF e = x THEN 1 ELSE 0)
  PROVE  ToBag(g) = Bag!BagAdd(ToBag(h), e)
<1> DEFINE B == ToBag(h)
           C == Bag!BagAdd(B, e)
<1>1. \A x : Count(h, x) \in Nat
  BY PlacesFinite DEF Heaps
<1>2. \A x : /\ x \in DOMAIN B <=> Count(h, x) # 0
             /\ x \in DOMAIN B => B[x] = Count(h, x)
  BY BagCounts
<1> HIDE DEF B
<1>3. /\ DOMAIN C = DOMAIN B \cup {e} /\ C = [x \in DOMAIN C |-> C[x]]
      /\ C[e] = IF e \in DOMAIN B THEN B[e] + 1 ELSE 1
      /\ \A x \in DOMAIN B : x # e => C[x] = B[x]
  BY DEF Bag!BagAdd
<1> HIDE DEF C
<1>4. ASSUME NEW x
      PROVE  (x \in DOMAIN C <=> Count(g, x) # 0) /\ (x \in DOMAIN C => C[x] = Count(g, x))
  BY <1>1, <1>2, <1>3
<1>5. ToBag(g) = C
  BY <1>3, <1>4, BagsEqual
<1> QED
  BY <1>5 DEF C, B

\* and with one less.
LEMMA BagShrinks ==
  ASSUME NEW h \in Heaps, NEW r \in Heaps, NEW e,
         \A x : Count(h, x) = Count(r, x) + (IF e = x THEN 1 ELSE 0)
  PROVE  e \in DOMAIN ToBag(h) /\ ToBag(r) = Bag!BagRemove(ToBag(h), e)
<1> DEFINE B == ToBag(h)
           C == Bag!BagRemove(B, e)
<1>1. \A x : Count(r, x) \in Nat
  BY PlacesFinite DEF Heaps
<1>2. \A x : /\ x \in DOMAIN B <=> Count(h, x) # 0
             /\ x \in DOMAIN B => B[x] = Count(h, x)
  BY BagCounts
<1> HIDE DEF B
<1>3. e \in DOMAIN B
  BY <1>1, <1>2
<1>4. /\ DOMAIN C = IF B[e] = 1 THEN DOMAIN B \ {e} ELSE DOMAIN B
      /\ C = [x \in DOMAIN C |-> C[x]]
      /\ B[e] # 1 => C[e] = B[e] - 1
      /\ \A x \in DOMAIN B : x # e => C[x] = B[x]
  BY <1>3 DEF Bag!BagRemove
<1> HIDE DEF C
<1>5. ASSUME NEW x
      PROVE  (x \in DOMAIN C <=> Count(r, x) # 0) /\ (x \in DOMAIN C => C[x] = Count(r, x))
  BY <1>1, <1>2, <1>3, <1>4
<1>6. ToBag(r) = C
  BY <1>4, <1>5, BagsEqual
<1> QED
  BY <1>3, <1>6 DEF C, B
\* Taking an entry out and rearranging the rest takes it out of the bag;
LEMMA EntryTakenOut ==
  ASSUME NEW h \in Heaps, NEW k \in 1 .. Len(h), NEW r \in Heaps, Without(h, k, r),
         NEW g \in Heaps, Same(r, g)
  PROVE  h[k] \in DOMAIN ToBag(h) /\ ToBag(g) = Bag!BagRemove(ToBag(h), h[k])
<1>1. Len(h) \in Nat /\ Len(r) \in Nat
  BY DEF Heaps
<1>2. \A x : Count(h, x) = Count(g, x) + (IF h[k] = x THEN 1 ELSE 0)
  <2> TAKE x
  <2>1. Count(h, x) = Count(r, x) + (IF h[k] = x THEN 1 ELSE 0)
    BY <1>1, CountWithout
  <2> QED
    BY <2>1 DEF Same
<1> QED
  BY <1>2, BagShrinks

\* putting one in and rearranging puts it into the bag.
LEMMA EntryPutIn ==
  ASSUME NEW h \in Heaps, NEW k \in 1 .. Len(h), NEW r \in Heaps, Without(h, k, r),
         NEW g \in Heaps, Same(h, g)
  PROVE  ToBag(g) = Bag!BagAdd(ToBag(r), h[k])
<1>1. Len(h) \in Nat /\ Len(r) \in Nat
  BY DEF Heaps
<1>2. \A x : Count(g, x) = Count(r, x) + (IF h[k] = x THEN 1 ELSE 0)
  <2> TAKE x
  <2>1. Count(h, x) = Count(r, x) + (IF h[k] = x THEN 1 ELSE 0)
    BY <1>1, CountWithout
  <2> QED
    BY <2>1 DEF Same
<1> QED
  BY <1>2, BagGrows

-----------------------------------------------------------------------------
(* The methods keep the heap in order and do what the bag allows *)

QInv == QueueTypeOK /\ Fits(heap, 1) /\ AdmissionBoundsWork

\* What the invariant says of sorts.
LEMMA QFacts ==
  ASSUME QInv
  PROVE  /\ heap \in Heaps /\ Len(heap) \in Nat /\ inflight \in Nat
         /\ MaxQueueDepth \in Nat /\ MaxInflight \in Nat
         /\ MaxQueueDepth >= 1 /\ MaxInflight >= 1
         /\ \A j \in 1 .. Len(heap) : heap[j] \in QueuedTransaction
  BY LimitsAssumption DEF QInv, QueueTypeOK, Heaps

\* enqueue admits the new entry, which may be too low only at the end.
LEMMA EnqueueStep ==
  ASSUME QInv, NEW id \in TxId, NEW p \in Priorities, NEW time \in 0 .. MaxClock,
         enqueue(id, p, time)
  PROVE  QInv' /\ Bag!BNext
<1> DEFINE e == [id |-> id, priority |-> p, enqueuedAt |-> time]
           n == Len(heap)
           g == Append(heap, e)
<1>1. e \in QueuedTransaction
  BY DEF QueuedTransaction
<1>2. heap \in Heaps /\ n \in Nat /\ Fits(heap, 1)
  BY QFacts DEF QInv
<1>3. heap' = bubbleUp(g, n + 1)
  BY DEF enqueue
<1> HIDE DEF e
<1>4. /\ g \in Heaps /\ Len(g) = n + 1 /\ g[n + 1] = e
      /\ \A j \in 1 .. n : g[j] = heap[j]
      /\ Without(g, n + 1, heap)
  BY <1>1, <1>2, AppendWithout
<1> HIDE DEF g
<1>5. Lifting([heap |-> g, at |-> n + 1])
  <2>1. ASSUME NEW q \in 1 .. Len(g), NEW c \in 1 .. Len(g), c # n + 1, Child(q, c)
        PROVE  ~compare(g[c], g[q])
    <3>1. q \in 1 .. n /\ c \in 1 .. n /\ q >= 1
      BY <1>2, <1>4, <2>1 DEF Child
    <3> QED
      BY <1>2, <1>4, <2>1, <3>1 DEF Fits
  <2>2. ASSUME NEW c \in 1 .. Len(g) PROVE ~Child(n + 1, c)
    BY <1>2, <1>4 DEF Child
  <2>3. [heap |-> g, at |-> n + 1] \in Spots
    BY <1>2, <1>4 DEF Spots
  <2> QED
    BY <2>1, <2>2, <2>3 DEF Lifting
<1>6. heap' \in Heaps /\ Same(g, heap') /\ Fits(heap', 1)
  <2>1. n + 1 \in 1 .. Len(g)
    BY <1>2, <1>4
  <2> QED
    BY <1>3, <1>4, <1>5, <2>1, BubbleUpMends
<1>7. Len(heap') = n + 1
  BY <1>4, <1>6 DEF Same
<1>8. ToBag(heap') = Bag!BagAdd(ToBag(heap), e)
  <2>1. n + 1 \in 1 .. Len(g)
    BY <1>2, <1>4
  <2> QED
    BY <1>2, <1>4, <1>6, <2>1, EntryPutIn
<1>9. AdmissionBoundsWork'
  BY <1>2, <1>7, QFacts DEF enqueue, WithinBackpressureLimits, AdmissionBoundsWork
<1>10. QueueTypeOK'
  BY <1>6 DEF QInv, QueueTypeOK, enqueue, Heaps
<1>11. Bag!Admit(e)
  BY <1>8 DEF enqueue, Bag!Admit
<1> QED
  BY <1>1, <1>6, <1>9, <1>10, <1>11 DEF QInv, Bag!BNext

\* dequeue hands out the first, before which nothing goes.
LEMMA DequeueStep ==
  ASSUME QInv, dequeue
  PROVE  QInv' /\ Bag!BNext
<1>1. heap \in Heaps /\ Len(heap) \in Nat /\ Fits(heap, 1)
  BY QFacts DEF QInv
<1>2. 1 \in 1 .. Len(heap) /\ heap[1] \in QueuedTransaction
  BY <1>1 DEF dequeue, Heaps
<1>3. PICK r \in Heaps : /\ Without(heap, 1, r) /\ Len(r) = Len(heap) - 1
                         /\ heap' \in Heaps /\ Same(r, heap') /\ Fits(heap', 1)
  <2>1. CASE Len(heap) = 1
    <3> DEFINE r == RemoveAt(heap, 1)
    <3>1. r \in Heaps /\ Without(heap, 1, r) /\ Len(r) = Len(heap) - 1
      BY <1>1, <1>2, RemoveWithout
    <3> HIDE DEF r
    <3>2. r = <<>> /\ Len(r) = 0
      BY <2>1, <3>1 DEF Heaps
    <3>3. heap' = r
      BY <2>1, <3>2 DEF dequeue
    <3>4. Fits(r, 1)
      BY <3>2 DEF Fits
    <3>5. Same(r, r)
      BY DEF Same
    <3> QED
      BY <3>1, <3>3, <3>4, <3>5
  <2>2. CASE Len(heap) # 1
    <3>0. Len(heap) > 1
      <4>1. Len(heap) >= 1 /\ Len(heap) \in Int
        BY <1>1, <1>2
      <4> QED
        BY <2>2, <4>1
    <3> DEFINE r == [Front(heap) EXCEPT ![1] = Last(heap)]
    <3>1. heap' = sinkDown(r, 1)
      BY <2>2 DEF dequeue
    <3>2. /\ r \in Heaps /\ Without(heap, 1, r) /\ Len(r) = Len(heap) - 1
          /\ \A j \in 1 .. Len(r) : j > 1 => r[j] = heap[j]
      BY <1>1, <3>0, FrontWithout
    <3> HIDE DEF r
    <3>3. 1 \in 1 .. Len(r)
      BY <1>1, <1>2, <2>2, <3>2
    <3>4. Fits(r, 1 + 1)
      <4>1. ASSUME NEW p \in 1 .. Len(r), NEW c \in 1 .. Len(r), p >= 1 + 1, Child(p, c)
            PROVE  ~compare(r[c], r[p])
        <5>1. p > 1 /\ c > 1 /\ p \in 1 .. Len(heap) /\ c \in 1 .. Len(heap) /\ p >= 1
          BY <1>1, <3>2, <4>1 DEF Child
        <5>2. ~compare(heap[c], heap[p])
          BY <1>1, <4>1, <5>1 DEF Fits
        <5> QED
          BY <3>2, <5>1, <5>2
      <4> QED
        BY <4>1 DEF Fits
    <3>5. heap' \in Heaps /\ Same(r, heap') /\ Fits(heap', 1)
      BY <3>1, <3>2, <3>3, <3>4, SinkDownKeeps, SinkDownMends
    <3> QED
      BY <3>2, <3>5
  <2> QED
    BY <2>1, <2>2
<1>4. Len(heap') = Len(heap) - 1
  BY <1>3 DEF Same
<1>5. /\ heap[1] \in DOMAIN ToBag(heap)
      /\ ToBag(heap') = Bag!BagRemove(ToBag(heap), heap[1])
  BY <1>1, <1>2, <1>3, EntryTakenOut
<1>6. \A x \in DOMAIN ToBag(heap) : ~GoesBefore(x, heap[1])
  <2> TAKE x \in DOMAIN ToBag(heap)
  <2>1. PICK j \in 1 .. Len(heap) : heap[j] = x
    BY <1>1 DEF ToBag, Range, Heaps
  <2>2. ~compare(x, heap[1])
    BY <1>1, <2>1, FirstIsFirst
  <2> QED
    BY <1>2, <2>1, <2>2, QFacts, EntryNumbers DEF GoesBefore, compare
<1>7. AdmissionBoundsWork'
  BY <1>1, <1>4, QFacts DEF dequeue, QInv, AdmissionBoundsWork
<1>8. QueueTypeOK'
  BY <1>2, <1>3 DEF QInv, QueueTypeOK, dequeue, Heaps
<1>9. Bag!HandOut(heap[1])
  BY <1>5, <1>6 DEF dequeue, Bag!HandOut
<1> QED
  BY <1>2, <1>3, <1>7, <1>8, <1>9 DEF QInv, Bag!BNext

\* completeInflight reports.
LEMMA CompleteStep ==
  ASSUME QInv, completeInflight
  PROVE  QInv' /\ Bag!BNext
<1>1. Bag!Report
  BY DEF completeInflight, Bag!Report
<1>2. QueueTypeOK' /\ AdmissionBoundsWork'
  BY QFacts DEF QInv, QueueTypeOK, AdmissionBoundsWork, completeInflight
<1>3. Fits(heap, 1)'
  BY DEF QInv, completeInflight
<1> QED
  BY <1>1, <1>2, <1>3 DEF QInv, Bag!BNext

\* remove withdraws.
LEMMA RemoveStep ==
  ASSUME QInv, NEW id \in TxId, remove(id)
  PROVE  QInv' /\ Bag!BNext
<1> DEFINE k == FirstOf(id)
           r == RemoveAt(heap, k)
<1>1. heap \in Heaps /\ Len(heap) \in Nat
  BY QFacts
<1>2. k \in 1 .. Len(heap)
  BY <1>1, FirstOfIs DEF remove
<1>3. heap' = Rebuild(r)
  BY DEF remove
<1> HIDE DEF k
<1>4. r \in Heaps /\ Len(r) = Len(heap) - 1 /\ Without(heap, k, r)
  BY <1>1, <1>2, RemoveWithout
<1> HIDE DEF r
<1>5. heap' \in Heaps /\ Same(r, heap') /\ Fits(heap', 1)
  BY <1>3, <1>4, RebuildMends
<1>6. /\ heap[k] \in DOMAIN ToBag(heap)
      /\ ToBag(heap') = Bag!BagRemove(ToBag(heap), heap[k])
  BY <1>1, <1>2, <1>4, <1>5, EntryTakenOut
<1>7. Len(heap') = Len(heap) - 1
  BY <1>4, <1>5 DEF Same
<1>8. AdmissionBoundsWork'
  BY <1>1, <1>7, QFacts DEF remove, QInv, AdmissionBoundsWork
<1>9. QueueTypeOK'
  BY <1>5 DEF QInv, QueueTypeOK, remove, Heaps
<1>10. Bag!Withdraw(heap[k]) /\ heap[k] \in QueuedTransaction
  BY <1>2, <1>6, QFacts DEF remove, Bag!Withdraw
<1> QED
  BY <1>5, <1>8, <1>9, <1>10 DEF QInv, Bag!BNext

\* overridePriority puts the entry with its new priority in the old one's place.
LEMMA OverrideStep ==
  ASSUME QInv, NEW id \in TxId, NEW p \in Priorities, overridePriority(id, p)
  PROVE  QInv' /\ Bag!BNext
<1> DEFINE k == FirstOf(id)
           g == [heap EXCEPT ![k].priority = p]
           e == heap[k]
           f == [e EXCEPT !.priority = p]
           r == RemoveAt(heap, k)
<1>1. heap \in Heaps /\ Len(heap) \in Nat
  BY QFacts
<1>2. k \in 1 .. Len(heap)
  BY <1>1, FirstOfIs DEF overridePriority
<1>3. heap' = LiftAll(Rebuild(g))
  BY DEF overridePriority
<1> HIDE DEF k
<1>4. e \in QueuedTransaction /\ f \in QueuedTransaction
  BY <1>2, QFacts DEF QueuedTransaction
<1>5. g = [heap EXCEPT ![k] = f]
  OBVIOUS
<1>6. Renamed(e, f)
  BY <1>4 DEF Renamed, QueuedTransaction
<1> HIDE DEF g, e, f
<1>7. /\ g \in Heaps /\ Len(g) = Len(heap) /\ g[k] = f
      /\ \A j \in 1 .. Len(heap) : j # k => g[j] = heap[j]
  BY <1>1, <1>2, <1>4, <1>5, ExceptSeq DEF Heaps
<1>8. r \in Heaps /\ Without(heap, k, r) /\ Len(r) \in Nat
  BY <1>1, <1>2, RemoveWithout
<1> HIDE DEF r
<1>9. Without(g, k, r)
  <2>1. PICK m \in Bijection(1 .. Len(r), (1 .. Len(heap)) \ {k}) :
           \A j \in 1 .. Len(r) : r[j] = heap[m[j]]
    BY <1>8 DEF Without
  <2>2. \A j \in 1 .. Len(r) : m[j] \in (1 .. Len(heap)) \ {k}
    BY <2>1 DEF Bijection, Injection
  <2>3. \A j \in 1 .. Len(r) : r[j] = g[m[j]]
    BY <1>7, <2>1, <2>2
  <2> QED
    BY <1>7, <2>1, <2>3 DEF Without
<1>10. /\ Rebuild(g) \in Heaps /\ Same(g, Rebuild(g)) /\ Fits(Rebuild(g), 1)
       /\ heap' = Rebuild(g)
  BY <1>3, <1>7, RebuildMends, LiftAllIdle
<1>11. e \in DOMAIN ToBag(heap) /\ ToBag(r) = Bag!BagRemove(ToBag(heap), e)
  <2>1. Same(r, r)
    BY DEF Same
  <2> QED
    BY <1>1, <1>2, <1>8, <2>1, EntryTakenOut DEF e
<1>12. ToBag(heap') = Bag!BagAdd(ToBag(r), f)
  BY <1>2, <1>7, <1>8, <1>9, <1>10, EntryPutIn
<1>13. Len(heap') = Len(heap)
  BY <1>7, <1>10 DEF Same
<1>14. AdmissionBoundsWork'
  BY <1>13 DEF overridePriority, QInv, AdmissionBoundsWork
<1>15. QueueTypeOK'
  BY <1>10 DEF QInv, QueueTypeOK, overridePriority, Heaps
<1>16. Bag!Reprioritise(e, f)
  BY <1>6, <1>11, <1>12 DEF overridePriority, Bag!Reprioritise
<1> QED
  BY <1>4, <1>10, <1>14, <1>15, <1>16 DEF QInv, Bag!BNext

\* The empty queue is in order.
LEMMA QueueStarts ==
  ASSUME QueueInit
  PROVE  QInv /\ Bag!BInit
<1>1. heap \in Heaps /\ Len(heap) = 0
  BY DEF QueueInit, Heaps
<1>2. Fits(heap, 1)
  BY <1>1 DEF Fits
<1>3. ToBag(heap) = [e \in {} |-> 0]
  <2>1. \A x : Count(heap, x) = 0
    BY <1>1, FS_EmptySet DEF Count, Places
  <2> DEFINE B == [e \in {} |-> 0]
  <2>2. B = [x \in DOMAIN B |-> B[x]] /\ DOMAIN B = {}
    OBVIOUS
  <2> HIDE DEF B
  <2>3. ToBag(heap) = B
    BY <1>1, <2>1, <2>2, BagsEqual
  <2> QED
    BY <2>3 DEF B
<1>4. QueueTypeOK /\ AdmissionBoundsWork
  BY <1>1, LimitsAssumption DEF QueueInit, QueueTypeOK, AdmissionBoundsWork, Heaps
<1> QED
  BY <1>2, <1>3, <1>4 DEF QInv, QueueInit, Bag!BInit

\* Every step keeps the invariant and is one of the bag, or none.
LEMMA QueueStep ==
  ASSUME QInv, [QueueNext]_queueVars
  PROVE  QInv' /\ [Bag!BNext]_(Bag!bvars)
<1>1. CASE QueueNext
  BY <1>1, EnqueueStep, DequeueStep, CompleteStep, RemoveStep, OverrideStep DEF QueueNext
<1>2. CASE UNCHANGED queueVars
  <2>1. QInv'
    BY <1>2 DEF QInv, QueueTypeOK, AdmissionBoundsWork, queueVars
  <2>2. UNCHANGED Bag!bvars
    BY <1>2 DEF queueVars, Bag!bvars
  <2> QED
    BY <2>1, <2>2
<1> QED
  BY <1>1, <1>2

\* The heap array holds queue entries, whatever is done to it.
THEOREM QueueIsTyped == QueueSpec => []QueueTypeOK
<1>1. QInv => QueueTypeOK
  BY DEF QInv
<1> QED
  BY <1>1, QueueStarts, QueueStep, PTL DEF QueueSpec

\* The waiting and the running work together stay below the sum of the limits,
\* although enqueue looks at each limit alone and dequeue at neither.
THEOREM WorkIsBounded == QueueSpec => []AdmissionBoundsWork
<1>1. QInv => AdmissionBoundsWork
  BY DEF QInv
<1> QED
  BY <1>1, QueueStarts, QueueStep, PTL DEF QueueSpec

\* The heap with its sifting, rebuilding and lifting implements the bag:
\* dequeue hands out an entry that no waiting one goes before, and no method
\* loses an entry or repeats one.
THEOREM QueueServesByPriority == QueueSpec => ServesByPriority
<1> QED
  BY QueueStarts, QueueStep, PTL DEF QueueSpec, ServesByPriority, Bag!BSpec
=============================================================================
