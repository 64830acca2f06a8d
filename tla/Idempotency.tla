---------------------------- MODULE Idempotency ----------------------------
(***************************************************************************)
(* withIdempotency (src/src/lib/idempotency.ts): the requests that carry   *)
(* one Idempotency-Key to one route share one row of idempotency_keys.     *)
(* Each request is a process: the transaction beginIdempotency, the        *)
(* handler, and the statement that stores or erases the answer.            *)
(*                                                                         *)
(* The transaction runs at READ COMMITTED.  Once it has locked an existing *)
(* row nothing else reads or writes that row until it ends, so its outcome *)
(* is one step; where there was no row to lock, the insert is a step of    *)
(* its own that the primary key may refuse.  "now" is read before a        *)
(* connection is free, so it is the time of arrival, not of the step.      *)
(***************************************************************************)
EXTENDS Integers, FiniteSets

CONSTANTS
    Request,       \* attempts that carry the key
    HashOf,        \* their request hash
    LockTtl,       \* lockTtlMs
    Ttl,           \* ttlMs
    RequestLimit,  \* longest life of a request the platform allows
    LostAcks,      \* whether a statement may commit and still be reported failed
    MaxTime,       \* bound of the model: the clock stops here
    Nil            \* an absent row or column

ASSUME IdempotencyAssumption ==
    /\ LockTtl \in Nat \ {0}
    /\ Ttl \in Nat /\ LockTtl <= Ttl
    /\ RequestLimit \in Nat
    /\ LostAcks \in BOOLEAN
    /\ MaxTime \in Nat
    /\ Nil \notin Request
    /\ Nil \notin Nat

Hash == {HashOf[r] : r \in Request}

\* body stands for status_code, response_body and response_headers: the
\* request whose handler produced them.
Record == [request_hash : Hash, status : {"processing", "completed"},
           body : Request \cup {Nil}, locked_until : Nat \cup {Nil},
           expires_at : Nat]

ASSUME NoRecordAssumption == Nil \notin Record

VARIABLES
    clock,
    row,      \* the row of the key, or Nil
    pc,       \* where a request is
    now,      \* the time a request read on arrival
    status,   \* the handler's answer: below 500 ("ok") or not ("error")
    answer,   \* whose response the client got
    effects   \* history: requests whose handler took effect

vars == <<clock, row, pc, now, status, answer, effects>>

-----------------------------------------------------------------------------

Working == {"running", "persist", "clear"}
Live == Working \cup {"begin", "insert"}

\* What beginIdempotency sees after it has deleted the expired rows.
Seen(r) == IF row # Nil /\ row.expires_at <= now[r] THEN Nil ELSE row

Processing(r) ==
    [request_hash |-> HashOf[r], status |-> "processing", body |-> Nil,
     locked_until |-> now[r] + LockTtl, expires_at |-> now[r] + Ttl]

Completed(r) ==
    [row EXCEPT !.status = "completed", !.body = r, !.locked_until = Nil,
                !.expires_at = clock + Ttl]

Goto(r, label) == pc' = [pc EXCEPT ![r] = label]

\* The handler may or may not have taken effect when it ends.
MayTakeEffect(r) == effects' \in {effects, effects \cup {r}}

-----------------------------------------------------------------------------

Init ==
    /\ clock = 0
    /\ row = Nil
    /\ pc = [r \in Request |-> "idle"]
    /\ now = [r \in Request |-> 0]
    /\ status = [r \in Request |-> Nil]
    /\ answer = [r \in Request |-> Nil]
    /\ effects = {}

Arrive(r) ==
    /\ pc[r] = "idle"
    /\ now' = [now EXCEPT ![r] = clock]
    /\ Goto(r, "begin")
    /\ UNCHANGED <<clock, row, status, answer, effects>>

\* No row: the DELETE may have removed one, the insert follows.
BeginFresh(r) ==
    /\ pc[r] = "begin"
    /\ Seen(r) = Nil
    /\ row' = Nil
    /\ Goto(r, "insert")
    /\ UNCHANGED <<clock, now, status, answer, effects>>

\* The key was used with another payload.
BeginConflict(r) ==
    /\ pc[r] = "begin"
    /\ Seen(r) # Nil
    /\ row.request_hash # HashOf[r]
    /\ Goto(r, "refused")
    /\ UNCHANGED <<clock, row, now, status, answer, effects>>

\* Fault: any stored answer will do.
BeginReplay_AnyPayload(r) ==
    /\ pc[r] = "begin"
    /\ Seen(r) # Nil
    /\ row.status = "completed"
    /\ answer' = [answer EXCEPT ![r] = row.body]
    /\ Goto(r, "replayed")
    /\ UNCHANGED <<clock, row, now, status, effects>>

\* Fault: the stored answer does not keep the handler from running.
BeginReplay_RunsAnyway(r) ==
    /\ pc[r] = "begin"
    /\ Seen(r) # Nil
    /\ row.request_hash = HashOf[r]
    /\ row.status = "completed"
    /\ Goto(r, "running")
    /\ UNCHANGED <<clock, row, now, status, answer, effects>>

BeginReplay(r) ==
    /\ pc[r] = "begin"
    /\ Seen(r) # Nil
    /\ row.request_hash = HashOf[r]
    /\ row.status = "completed"
    /\ answer' = [answer EXCEPT ![r] = row.body]
    /\ Goto(r, "replayed")
    /\ UNCHANGED <<clock, row, now, status, effects>>

BeginInProgress(r) ==
    /\ pc[r] = "begin"
    /\ Seen(r) # Nil
    /\ row.request_hash = HashOf[r]
    /\ row.status = "processing"
    /\ row.locked_until > now[r]
    /\ Goto(r, "refused")
    /\ UNCHANGED <<clock, row, now, status, answer, effects>>

\* Fault: a lock is taken over before it has run out.
BeginTakeOver_AnyLock(r) ==
    /\ pc[r] = "begin"
    /\ Seen(r) # Nil
    /\ row.request_hash = HashOf[r]
    /\ row.status = "processing"
    /\ row' = Processing(r)
    /\ Goto(r, "running")
    /\ UNCHANGED <<clock, now, status, answer, effects>>

\* The lock of an earlier attempt has run out.
BeginTakeOver(r) ==
    /\ pc[r] = "begin"
    /\ Seen(r) # Nil
    /\ row.request_hash = HashOf[r]
    /\ row.status = "processing"
    /\ row.locked_until <= now[r]
    /\ row' = Processing(r)
    /\ Goto(r, "running")
    /\ UNCHANGED <<clock, now, status, answer, effects>>

\* The primary key refuses the second of two inserts, and the request throws.
Insert(r) ==
    /\ pc[r] = "insert"
    /\ IF row = Nil
         THEN row' = Processing(r) /\ Goto(r, "running")
         ELSE UNCHANGED row /\ Goto(r, "failed")
    /\ UNCHANGED <<clock, now, status, answer, effects>>

HandlerReturns(r, result) ==
    /\ pc[r] = "running"
    /\ status' = [status EXCEPT ![r] = result]
    /\ MayTakeEffect(r)
    /\ Goto(r, "persist")
    /\ UNCHANGED <<clock, row, now, answer>>

\* Nothing catches an exception of the handler: the row stays as it is.
HandlerThrows(r) ==
    /\ pc[r] = "running"
    /\ MayTakeEffect(r)
    /\ Goto(r, "failed")
    /\ UNCHANGED <<clock, row, now, status, answer>>

\* The statement of persistCompletedResponse; it names the key, not its owner.
Stored(r) == IF row = Nil \/ status[r] = "error" THEN Nil ELSE Completed(r)

Answer(r) ==
    /\ answer' = [answer EXCEPT ![r] = r]
    /\ Goto(r, "answered")

PersistCompletedResponse(r) ==
    /\ pc[r] = "persist"
    /\ row' = Stored(r)
    /\ Answer(r)
    /\ UNCHANGED <<clock, now, status, effects>>

\* The statement failed, or only its acknowledgement was lost.
PersistFails(r) ==
    /\ pc[r] = "persist"
    /\ row' = row \/ (LostAcks /\ row' = Stored(r))
    /\ Goto(r, "clear")
    /\ UNCHANGED <<clock, now, status, answer, effects>>

\* clearIdempotencyRecord, which may fail too: that is only logged.
ClearIdempotencyRecord(r) ==
    /\ pc[r] = "clear"
    /\ row' \in {row, Nil}
    /\ Answer(r)
    /\ UNCHANGED <<clock, now, status, effects>>

\* The process of a request dies.
Crash(r) ==
    /\ pc[r] \in Live
    /\ IF pc[r] = "running" THEN MayTakeEffect(r) ELSE UNCHANGED effects
    /\ Goto(r, "failed")
    /\ UNCHANGED <<clock, row, now, status, answer>>

\* A request with another key deletes the rows that have expired.
Sweep ==
    /\ row # Nil
    /\ row.expires_at <= clock
    /\ row' = Nil
    /\ UNCHANGED <<clock, pc, now, status, answer, effects>>

\* Time passes as far as the platform lets the live requests grow old.
Tick ==
    /\ clock < MaxTime
    /\ \A r \in Request : pc[r] \in Live => clock - now[r] < RequestLimit
    /\ clock' = clock + 1
    /\ UNCHANGED <<row, pc, now, status, answer, effects>>

Begin(r) ==
    \/ BeginFresh(r) \/ BeginConflict(r) \/ BeginReplay(r)
    \/ BeginInProgress(r) \/ BeginTakeOver(r)

Next ==
    \/ \E r \in Request :
          \/ Arrive(r) \/ Begin(r) \/ Insert(r)
          \/ \E result \in {"ok", "error"} : HandlerReturns(r, result)
          \/ HandlerThrows(r)
          \/ PersistCompletedResponse(r) \/ PersistFails(r)
          \/ ClearIdempotencyRecord(r)
          \/ Crash(r)
    \/ Sweep
    \/ Tick

Spec == Init /\ [][Next]_vars

-----------------------------------------------------------------------------

\* Types of the row and of the requests, and that a row is locked exactly
\* while it is being processed.
TypeOK ==
    /\ clock \in 0 .. MaxTime
    /\ row \in Record \cup {Nil}
    /\ row # Nil => \/ /\ row.status = "processing"
                       /\ row.locked_until \in Nat /\ row.body = Nil
                    \/ /\ row.status = "completed"
                       /\ row.locked_until = Nil /\ row.body \in Request
    /\ pc \in [Request -> Live \cup {"idle", "answered", "replayed", "refused", "failed"}]
    /\ now \in [Request -> 0 .. clock]
    /\ status \in [Request -> {"ok", "error", Nil}]
    /\ answer \in [Request -> Request \cup {Nil}]
    /\ effects \subseteq Request

\* "In-flight lock prevents concurrent duplicate requests from racing"
\* (ADR-006): never two requests between the start of the handler and the
\* storing of its answer.
OneHandler ==
    \A r, s \in Request : pc[r] \in Working /\ pc[s] \in Working => r = s

\* A client is only ever given the answer to the payload it sent.
AnswersOwnPayload ==
    \A r \in Request : answer[r] # Nil => HashOf[answer[r]] = HashOf[r]

\* "return the stored response body [...] no operation is re-executed"
\* (ADR-006): no handler takes effect while an unexpired answer is stored.
NoEffectBesideAnswer ==
    [][effects' # effects =>
          ~(row # Nil /\ row.status = "completed" /\ row.expires_at > clock)]_vars
=============================================================================
