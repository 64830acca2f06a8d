----------------------------- MODULE OfframpTx -----------------------------
(***************************************************************************)
(* The row of one off-ramp transaction and the requests that move it       *)
(* through timeout, refund and re-queueing while Paycrest's webhooks and   *)
(* the client's own writes arrive (transaction-timeout.ts,                 *)
(* refund-service.ts, paycrest-provider.ts, db/dal.ts).                    *)
(*                                                                         *)
(* A request reads the row in one step and writes it in another, as the    *)
(* code awaits the database between them; nothing locks the row.  What is  *)
(* written never depends on what was read, so a request is its next step.  *)
(***************************************************************************)
EXTENDS Integers, FiniteSets

CONSTANTS
    Request,          \* requests that may be in flight together
    Bodies,           \* what clients send to POST transactions
    Edits,            \* what clients send to PATCH transactions/[id]
    StandardTimeout,  \* TRANSACTION_TIMEOUT_MS
    PaycrestTimeout,  \* PAYCREST_TIMEOUT_MS
    BridgeTimeout,    \* BRIDGE_TIMEOUT_MS
    MaxTime,          \* bound of the clock
    Nil               \* no date

Statuses == {"pending", "completed", "failed"}
PayoutStatuses == {"none", "pending", "settled", "refunded", "expired", "failed"}

\* The texts of error, as far as the code tells them apart.
Errors == {"none", "timed out", "other"}

Row == [status : Statuses, payoutStatus : PayoutStatuses, error : Errors,
        bridge : BOOLEAN,          \* bridgeStatus is set
        order : BOOLEAN,           \* payoutOrderId is set
        timestamp : Int,
        finalizedAt : Int \cup {Nil}]

Columns == {"status", "payoutStatus", "error", "bridge", "order", "timestamp", "finalizedAt"}

\* The types are those the two routes check: a client may write any status, of
\* which the table keeps the listed ones, any text and any number, and cannot
\* clear a column.

ASSUME OfframpTxAssumption ==
    /\ StandardTimeout \in Nat
    /\ PaycrestTimeout \in Nat
    /\ BridgeTimeout \in Nat
    /\ MaxTime \in Nat
    /\ Nil \notin Int
    /\ Bodies \subseteq Row
    /\ \A edit \in Edits :
          /\ DOMAIN edit \subseteq Columns
          /\ "payoutStatus" \in DOMAIN edit => edit.payoutStatus \in PayoutStatuses
          /\ "error" \in DOMAIN edit => edit.error \in Errors
          /\ "bridge" \in DOMAIN edit => edit.bridge = TRUE
          /\ "order" \in DOMAIN edit => edit.order = TRUE
          /\ "timestamp" \in DOMAIN edit => edit.timestamp \in Int
          /\ "finalizedAt" \in DOMAIN edit => edit.finalizedAt \in Int

VARIABLES
    row,       \* the transaction's row
    step,      \* the write each request is about to make, or "idle"
    now,       \* the clock, 0 when the row is created
    refunds,   \* history: refund notifications emitted, counted up to 2
    failed,    \* history: a timeout, Paycrest or a client has failed it
    timedOut,  \* history: a timeout has ended it, or a client marked it so
    raced      \* history: requests that had read the row when it last completed

history == <<refunds, failed, timedOut>>
vars == <<row, step, now, history, raced>>

-----------------------------------------------------------------------------

Steps == {"idle", "cancel", "refund", "issue", "emit", "requeue"}

\* Requests whose next step is a write decided on what they have read.
Deciding == {r \in Request : step[r] \in {"cancel", "issue", "requeue"}}

Finalizes(updates) ==
    "status" \in DOMAIN updates /\ updates.status \in {"completed", "failed"}

\* Fault: the latest end is kept, not the first.
Updated_LastEnd(updates) ==
    [field \in DOMAIN row |->
        IF field \in DOMAIN updates THEN updates[field]
        ELSE IF field = "finalizedAt" /\ Finalizes(updates) THEN now
        ELSE row[field]]

\* The row after UPDATE: COALESCE(finalized_at, now) keeps the first end.
Updated(updates) ==
    [field \in DOMAIN row |->
        IF field \in DOMAIN updates THEN updates[field]
        ELSE IF field = "finalizedAt" /\ Finalizes(updates) /\ row.finalizedAt = Nil
             THEN now
        ELSE row[field]]

\* dal.update: the table's CHECK refuses a status it does not list.
update(updates) ==
    /\ "status" \in DOMAIN updates => updates.status \in Statuses
    /\ row' = Updated(updates)
    /\ raced' = IF row.status # "completed" /\ row'.status = "completed"
                THEN Deciding ELSE raced

mapEventToUpdates ==
    [settled   |-> [status |-> "completed", payoutStatus |-> "settled"],
     pending   |-> [payoutStatus |-> "pending"],
     refunded  |-> [status |-> "failed", payoutStatus |-> "refunded", error |-> "other"],
     expired   |-> [status |-> "failed", payoutStatus |-> "expired", error |-> "other"],
     failed    |-> [status |-> "failed", payoutStatus |-> "failed", error |-> "other"],
     cancelled |-> [status |-> "cancelled", payoutStatus |-> "cancelled",
                    error |-> "other"]]

\* What the row says of a failure.
Failing(tx) == tx.status = "failed" \/ tx.payoutStatus \in {"refunded", "expired"}

\* dal.save: a transaction created as ended is dated now, unless it brings a date.
save(transaction) ==
    [transaction EXCEPT !.finalizedAt =
        IF @ = Nil /\ Finalizes(transaction) THEN now ELSE @]

\* POST transactions
Init ==
    /\ step = [r \in Request |-> "idle"]
    /\ now = 0
    /\ \E body \in Bodies : row = save(body)
    /\ refunds = 0
    /\ failed = Failing(row)
    /\ timedOut = (row.error = "timed out")
    /\ raced = {}

-----------------------------------------------------------------------------

\* A webhook finds the transaction by its order.  Paycrest may send any event,
\* late, again or out of order; the event's updates are written at once.
Webhook(event) ==
    /\ row.order
    /\ update(mapEventToUpdates[event])
    /\ failed' = (failed \/ Failing(row'))
    /\ UNCHANGED <<step, now, refunds, timedOut>>

\* PATCH transactions/[id]: whatever the body names is written.
Edit(body) ==
    /\ update(body)
    /\ failed' = (failed \/ Failing(row'))
    /\ timedOut' = (timedOut \/ row'.error = "timed out")
    /\ UNCHANGED <<step, now, refunds>>

TimeoutOf(tx) ==
    IF tx.bridge THEN BridgeTimeout
    ELSE IF tx.order THEN PaycrestTimeout ELSE StandardTimeout

\* Fault: an old transaction is timed out whatever became of it.
isTransactionTimedOut_AnyStatus(tx) == now - tx.timestamp > TimeoutOf(tx)

isTransactionTimedOut(tx) ==
    /\ tx.status = "pending"
    /\ now - tx.timestamp > TimeoutOf(tx)

\* Fault: whatever is not completed may be refunded.
isRefundEligible_NotCompleted(tx) == tx.status # "completed"

isRefundEligible(tx) ==
    /\ tx.status # "completed"
    /\ tx.status = "failed" \/ tx.payoutStatus \in {"expired", "refunded"}

\* Fault: any failed bridge transfer is queued again.
Requeueable_AnyFailure(tx) == tx.status = "failed" /\ tx.bridge

Requeueable(tx) ==
    /\ tx.status = "failed"
    /\ tx.error = "timed out"
    /\ tx.bridge

Go(r, next) == step' = [step EXCEPT ![r] = next]

\* cancelTimedOutTransaction reads the row and finds it overdue.
BeginCancel(r) ==
    /\ step[r] = "idle"
    /\ isTransactionTimedOut(row)
    /\ Go(r, "cancel")
    /\ UNCHANGED <<row, now, history, raced>>

\* It marks the row and goes on to processRefund.
Cancel(r) ==
    /\ step[r] = "cancel"
    /\ update([status |-> "failed", error |-> "timed out"])
    /\ Go(r, "refund")
    /\ failed' = TRUE
    /\ timedOut' = TRUE
    /\ UNCHANGED <<now, refunds>>

\* processRefund, requested or after a timeout, reads the row.
BeginRefund(r) ==
    /\ step[r] \in {"idle", "refund"}
    /\ Go(r, IF isRefundEligible(row) THEN "issue" ELSE "idle")
    /\ UNCHANGED <<row, now, history, raced>>

\* It marks the row as refunded,
Refund(r) ==
    /\ step[r] = "issue"
    /\ update([status |-> "failed", payoutStatus |-> "refunded", error |-> "other"])
    /\ Go(r, "emit")
    /\ UNCHANGED <<now, history>>

\* and emitRefundNotification announces the amount.
EmitRefund(r) ==
    /\ step[r] = "emit"
    /\ refunds' = IF refunds = 2 THEN 2 ELSE refunds + 1
    /\ Go(r, "idle")
    /\ UNCHANGED <<row, now, failed, timedOut, raced>>

\* attemptTimeoutRecovery reads the row,
BeginRequeue(r) ==
    /\ step[r] = "idle"
    /\ Requeueable(row)
    /\ Go(r, "requeue")
    /\ UNCHANGED <<row, now, history, raced>>

\* and makes it pending again.
Requeue(r) ==
    /\ step[r] = "requeue"
    /\ update([status |-> "pending", error |-> "none"])
    /\ Go(r, "idle")
    /\ UNCHANGED <<now, history>>

\* A database error, or the platform's limit on a request, ends it.
Abort(r) ==
    /\ step[r] # "idle"
    /\ Go(r, "idle")
    /\ UNCHANGED <<row, now, history, raced>>

Tick ==
    /\ now < MaxTime
    /\ now' = now + 1
    /\ UNCHANGED <<row, step, history, raced>>

Next ==
    \/ \E event \in DOMAIN mapEventToUpdates : Webhook(event)
    \/ \E body \in Edits : Edit(body)
    \/ \E r \in Request :
          \/ BeginCancel(r) \/ Cancel(r)
          \/ BeginRefund(r) \/ Refund(r) \/ EmitRefund(r)
          \/ BeginRequeue(r) \/ Requeue(r)
          \/ Abort(r)
    \/ Tick

Spec == Init /\ [][Next]_vars

-----------------------------------------------------------------------------

\* Types of the fields, and that a transaction that has ended has a date.
TypeOK ==
    /\ row \in Row
    /\ row.status # "pending" => row.finalizedAt # Nil
    /\ step \in [Request -> Steps]
    /\ now \in 0 .. MaxTime
    /\ refunds \in 0 .. 2
    /\ failed \in BOOLEAN
    /\ timedOut \in BOOLEAN
    /\ raced \subseteq Request

\* A client writes this column itself.
ClientWrites(column) == \E body \in Edits : column \in DOMAIN body /\ Edit(body)

\* The first end of a transaction is the one that is dated, through refunds,
\* re-queueing, late webhooks and writes that race (dal.update's COALESCE), until
\* a client writes another date itself.
FinalizedForGood ==
    [][row.finalizedAt # Nil /\ row'.finalizedAt # row.finalizedAt =>
          ClientWrites("finalizedAt")]_vars

\* No refund is marked or announced unless a timeout, Paycrest or a client had
\* failed the transaction before, whichever requests overlap.
RefundFollowsFailure ==
    row.payoutStatus = "refunded" \/ refunds > 0 => failed

\* The server makes a transaction that had ended pending again only after a
\* timeout, or after a client has marked it as timed out (attemptTimeoutRecovery);
\* otherwise a client has written the status itself.
RequeueFollowsTimeout ==
    [][row.status # "pending" /\ row'.status = "pending" =>
          timedOut \/ ClientWrites("status")]_vars

\* What the missing lock can cost: a completed transaction is undone only by a
\* request that had read it before it completed, by a later webhook or by a client
\* who writes the status.
CompletionUndoneByRaceOnly ==
    [][row.status = "completed" /\ row'.status # "completed" =>
          \/ \E r \in raced : step[r] \in {"cancel", "issue", "requeue"} /\ step'[r] # step[r]
          \/ \E event \in DOMAIN mapEventToUpdates : Webhook(event)
          \/ ClientWrites("status")]_vars

=============================================================================
