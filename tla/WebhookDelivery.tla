-------------------------- MODULE WebhookDelivery --------------------------
(***************************************************************************)
(* Delivery of outgoing webhooks (src/lib/webhook): the event subscriber,  *)
(* the retry runner, the dashboard's buttons and the two replay routes     *)
(* work on the table of delivery records without a lock, each from the     *)
(* row it read before it awaited the receiver's answer.                    *)
(*                                                                         *)
(* Time is the flag "due": a scheduled attempt becomes due some day.  A    *)
(* failed statement may or may not have changed the row.                   *)
(***************************************************************************)
EXTENDS Integers, FiniteSets

CONSTANTS
    Event,            \* delivery records that events create
    Replay,           \* delivery records that replays create
    Worker,           \* requests that may be in flight together
    MaxAttempts,      \* WEBHOOK_RETRY_MAX_ATTEMPTS
    DefaultAttempts,  \* createRecord's default, which the dead-letter replay gets
    MaxDisturbances,  \* bound: failed statements, crashes, requests by hand
    None              \* no record

ASSUME WebhookAssumption ==
    /\ MaxAttempts \in Nat \ {0}
    /\ DefaultAttempts \in Nat \ {0}
    /\ Event \cap Replay = {}
    /\ None \notin Event \cup Replay

Delivery == Event \cup Replay

Statuses == {"absent", "pending", "delivered", "failed"}
Schedule == {"none", "later", "now"}
Record == [status : Statuses, count : Nat, max : Nat, next : Schedule]

Jobs == {"runner", "attempt", "subscriber", "replay", "retry"}
Pcs == {"idle", "post", "log", "relog", "note", "mark", "letter",
        "secondLetter", "reset"}
Answers == {"ok", "retry", "final", "down"}

\* What a request remembers: the record it is at, that record's count as it was
\* read, the receiver's answer, and the runner's list of records and counts.
Request == [job : Jobs, pc : Pcs, on : Delivery \cup {None}, seen : Nat,
            answer : Answers, left : SUBSET (Delivery \X Nat)]

VARIABLES
    rec,         \* the table delivery_records
    lettered,    \* deliveries with a row in dlq_entries
    logged,      \* a delivery log exists
    worker,      \* the requests in flight
    disturbed,   \* failed statements, crashes and requests by hand so far
    posts,       \* history: POSTs sent for each delivery
    accepted,    \* history: deliveries answered with 2xx
    refused,     \* history: deliveries answered with a final 4xx
    unlettered,  \* history: deliveries whose dead letter a fault swallowed
    overlapped   \* history: deliveries two requests have held at once

history == <<posts, accepted, refused>>
vars == <<rec, lettered, logged, worker, disturbed, history, unlettered, overlapped>>

-----------------------------------------------------------------------------

Idle == [job |-> "runner", pc |-> "idle", on |-> None, seen |-> 0,
         answer |-> "ok", left |-> {}]

Init ==
    /\ rec = [d \in Delivery |-> [status |-> "absent", count |-> 0, max |-> 0,
                                  next |-> "none"]]
    /\ lettered = {}
    /\ logged = FALSE
    /\ worker = [w \in Worker |-> Idle]
    /\ disturbed = 0
    /\ posts = [d \in Delivery |-> 0]
    /\ accepted = {} /\ refused = {} /\ unlettered = {} /\ overlapped = {}

Holders(d) ==
    {w \in Worker : worker[w].on = d \/ \E x \in worker[w].left : x[1] = d}

\* A bound, not a guard of the code: mishaps and calls of the dashboard and the
\* replay routes.
Disturbance == disturbed < MaxDisturbances /\ disturbed' = disturbed + 1

\* A request starts on a record it has read.
Started(job, pc, d, count) ==
    [Idle EXCEPT !.job = job, !.pc = pc, !.on = d, !.seen = count]

\* The runner goes through the list it has read; a record's place in the list is
\* left open.
RunnerAt(list) ==
    {[Started("runner", "post", x[1], x[2]) EXCEPT !.left = list \ {x}] : x \in list}

\* The request is done with its record: the runner takes the next of its list.
After(w) == IF worker[w].left = {} THEN {Idle} ELSE RunnerAt(worker[w].left)

\* The request goes on to one of the given states.
Goto(w, states) == \E s \in states : worker' = [worker EXCEPT ![w] = s]

At(w, pc) == {[worker[w] EXCEPT !.pc = pc]}

\* updateRecord: on success the request goes on to "then"; a failure throws.
updateRecord(w, row, then, thrown) ==
    LET d == worker[w].on IN
    \/ /\ rec' = [rec EXCEPT ![d] = row]
       /\ Goto(w, then)
       /\ UNCHANGED disturbed
    \/ /\ Disturbance
       /\ rec' \in {rec, [rec EXCEPT ![d] = row]}
       /\ Goto(w, thrown)

createRecord(d, max) ==
    /\ rec[d].status = "absent"
    /\ rec' = [rec EXCEPT ![d] = [status |-> "pending", count |-> 0, max |-> max,
                                  next |-> "now"]]

-----------------------------------------------------------------------------
\* The requests.

\* subscribeEventBus: a record is enqueued, already due, and attempted.
Subscribe(w, d) ==
    /\ worker[w].pc = "idle"
    /\ createRecord(d, MaxAttempts)
    /\ Goto(w, {Started("subscriber", "post", d, 0)})
    /\ UNCHANGED <<lettered, logged, disturbed, history, unlettered>>

\* runRetries: the list of due records is read once.
ReadDue(w) ==
    /\ worker[w].pc = "idle"
    /\ Goto(w, RunnerAt({<<d, rec[d].count>> :
                d \in {e \in Delivery : rec[e].status = "pending" /\ rec[e].next = "now"}}))
    /\ UNCHANGED <<rec, lettered, logged, disturbed, history, unlettered>>

\* The dashboard's "attempt" takes any pending record, due or not.
PickPending(w, d) ==
    /\ worker[w].pc = "idle"
    /\ Disturbance
    /\ rec[d].status = "pending"
    /\ Goto(w, {Started("attempt", "post", d, rec[d].count)})
    /\ UNCHANGED <<rec, lettered, logged, history, unlettered>>

\* The dead-letter route replays into a new record and attempts it; it never
\* marks the outcome.
ReplayLetter(w, d) ==
    /\ worker[w].pc = "idle"
    /\ Disturbance
    /\ lettered # {}
    /\ createRecord(d, DefaultAttempts)
    /\ Goto(w, {Started("replay", "post", d, 0)})
    /\ UNCHANGED <<lettered, logged, history, unlettered>>

\* The dashboard's "replay" and the subscription's replay only enqueue.
EnqueueReplay(d) ==
    /\ Disturbance
    /\ \/ lettered # {} /\ createRecord(d, DefaultAttempts)
       \/ logged /\ createRecord(d, MaxAttempts)
    /\ UNCHANGED <<lettered, logged, worker, history, unlettered>>

\* Fault: the record is looked up by its id alone.
PickFailed_AnyStatus(w, d) ==
    /\ worker[w].pc = "idle"
    /\ Disturbance
    /\ rec[d].status # "absent"
    /\ Goto(w, {Started("retry", "reset", d, 0)})
    /\ UNCHANGED <<rec, lettered, logged, history, unlettered>>

\* The dashboard's "retry" reads the failed record, then resets it.
PickFailed(w, d) ==
    /\ worker[w].pc = "idle"
    /\ Disturbance
    /\ rec[d].status = "failed"
    /\ Goto(w, {Started("retry", "reset", d, 0)})
    /\ UNCHANGED <<rec, lettered, logged, history, unlettered>>

Reset(w) ==
    LET d == worker[w].on IN
    /\ worker[w].pc = "reset"
    /\ updateRecord(w, [rec[d] EXCEPT !.status = "pending", !.next = "now"], {Idle}, {Idle})
    /\ UNCHANGED <<lettered, logged, history, unlettered>>

-----------------------------------------------------------------------------
\* attempt: the POST, and the count written from the row that was read.

Post(w) ==
    LET d == worker[w].on IN
    /\ worker[w].pc = "post"
    /\ \E answer \in Answers :
          /\ worker' = [worker EXCEPT ![w].answer = answer,
                            ![w].pc = IF answer = "down" THEN "relog" ELSE "log"]
          /\ accepted' = IF answer = "ok" THEN accepted \cup {d} ELSE accepted
          /\ refused' = IF answer = "final" THEN refused \cup {d} ELSE refused
    /\ posts' = [posts EXCEPT ![d] = @ + 1]
    /\ UNCHANGED <<rec, lettered, logged, disturbed, unlettered>>

\* Fault: the attempt is counted a second time.
Counted_Twice(w) ==
    [rec[worker[w].on] EXCEPT !.count = worker[w].seen + 2]

Counted(w) ==
    [rec[worker[w].on] EXCEPT !.count = worker[w].seen + 1]

\* The attempt returns: the replay route only reports it.
Returned(w) ==
    CASE worker[w].job = "replay"     -> {Idle}
      [] worker[w].job = "subscriber" -> At(w, "note")
      [] OTHER                        -> At(w, "mark")

\* The write inside the try block: when it fails the answer is forgotten and
\* the attempt counts as a network error.
LogAttempt(w) ==
    /\ worker[w].pc = "log"
    /\ updateRecord(w, Counted(w), Returned(w),
                    {[worker[w] EXCEPT !.pc = "relog", !.answer = "down"]})
    /\ UNCHANGED <<lettered, logged, history, unlettered>>

\* The write in the catch block: when it fails the attempt throws.
LogFailure(w) ==
    /\ worker[w].pc = "relog"
    /\ updateRecord(w, Counted(w), Returned(w), After(w))
    /\ UNCHANGED <<lettered, logged, history, unlettered>>

\* The subscriber's logDelivery; a failure ends the handler.
LogDelivery(w) ==
    /\ worker[w].pc = "note"
    /\ \/ Goto(w, At(w, "mark")) /\ logged' = TRUE /\ UNCHANGED disturbed
       \/ /\ Disturbance
          /\ Goto(w, After(w))
          /\ UNCHANGED logged
    /\ UNCHANGED <<rec, lettered, history, unlettered>>

-----------------------------------------------------------------------------
\* What becomes of the record.

\* max_attempts never changes once the record is created.
LimitOf(w) == rec[worker[w].on].max

Retryable(w) == worker[w].answer \in {"retry", "down"}

\* Fault: the runner counts this attempt twice.
TriesAgain_EarlyEnd(w) ==
    /\ Retryable(w)
    /\ CASE worker[w].job = "runner"     -> worker[w].seen + 2 < LimitOf(w)
         [] worker[w].job = "attempt"    -> worker[w].seen < LimitOf(w)
         [] worker[w].job = "subscriber" -> TRUE

\* hasRemainingAttempts: the runner asks for the record after this attempt,
\* the dashboard for the record before it, the subscriber not at all.
TriesAgain(w) ==
    /\ Retryable(w)
    /\ CASE worker[w].job = "runner"     -> worker[w].seen + 1 < LimitOf(w)
         [] worker[w].job = "attempt"    -> worker[w].seen < LimitOf(w)
         [] worker[w].job = "subscriber" -> TRUE

markDelivered(w) ==
    /\ worker[w].pc = "mark"
    /\ worker[w].answer = "ok"
    /\ updateRecord(w, [Counted(w) EXCEPT !.status = "delivered", !.next = "none"],
                    After(w), After(w))
    /\ UNCHANGED <<lettered, logged, history, unlettered>>

\* Fault: the record is left without a date.
scheduleNext_Undated(w) ==
    /\ worker[w].pc = "mark"
    /\ worker[w].answer # "ok"
    /\ TriesAgain(w)
    /\ updateRecord(w, [Counted(w) EXCEPT !.next = "none"], After(w), After(w))
    /\ UNCHANGED <<lettered, logged, history, unlettered>>

\* Only the runner writes the count again when it schedules the next attempt.
scheduleNext(w) ==
    /\ worker[w].pc = "mark"
    /\ worker[w].answer # "ok"
    /\ TriesAgain(w)
    /\ updateRecord(w, [IF worker[w].job = "runner" THEN Counted(w)
                        ELSE rec[worker[w].on] EXCEPT !.next = "later"],
                    After(w), After(w))
    /\ UNCHANGED <<lettered, logged, history, unlettered>>

\* A dead letter is made of the record alone.
Lettering(w, pc) == {[worker[w] EXCEPT !.pc = pc, !.seen = 0, !.answer = "ok"]}

\* Fault: the dead letter is left to the runner.
markFailed_NoLetter(w) ==
    LET d == worker[w].on IN
    /\ worker[w].pc = "mark"
    /\ worker[w].answer # "ok"
    /\ ~ TriesAgain(w)
    /\ updateRecord(w, [rec[d] EXCEPT !.status = "failed", !.next = "none"],
                    IF worker[w].job = "runner"
                    THEN Lettering(w, "secondLetter") ELSE After(w),
                    After(w))
    /\ unlettered' = IF disturbed' # disturbed /\ rec' # rec THEN unlettered \cup {d}
                     ELSE unlettered
    /\ UNCHANGED <<lettered, logged, history>>

\* The runner, the dashboard and the subscriber give a delivery up.
markFailed(w) ==
    LET d == worker[w].on IN
    /\ worker[w].pc = "mark"
    /\ worker[w].answer # "ok"
    /\ ~ TriesAgain(w)
    /\ updateRecord(w, [rec[d] EXCEPT !.status = "failed", !.next = "none"],
                    Lettering(w, "letter"), After(w))
    /\ unlettered' = IF disturbed' # disturbed /\ rec' # rec THEN unlettered \cup {d}
                     ELSE unlettered
    /\ UNCHANGED <<lettered, logged, history>>

\* markFailed's own letter; its failure is swallowed.  The runner then writes
\* a letter of its own.
WriteLetter(w) ==
    LET d == worker[w].on IN
    /\ worker[w].pc \in {"letter", "secondLetter"}
    /\ Goto(w, IF worker[w].pc = "letter" /\ worker[w].job = "runner"
               THEN At(w, "secondLetter") ELSE After(w))
    /\ \/ /\ lettered' = lettered \cup {d}
          /\ UNCHANGED <<disturbed, unlettered>>
       \/ /\ Disturbance
          /\ unlettered' = unlettered \cup {d}
          /\ UNCHANGED lettered
    /\ UNCHANGED <<rec, logged, history>>

\* The process of a request dies.
Crash(w) ==
    /\ worker[w].pc # "idle"
    /\ Disturbance
    /\ Goto(w, {Idle})
    /\ unlettered' = IF worker[w].pc \in {"letter", "secondLetter"}
                     THEN unlettered \cup {worker[w].on} ELSE unlettered
    /\ UNCHANGED <<rec, lettered, logged, history>>

\* The back-off of a record runs out.
ComesDue(d) ==
    /\ rec[d].next = "later"
    /\ rec' = [rec EXCEPT ![d].next = "now"]
    /\ UNCHANGED <<lettered, logged, worker, disturbed, history, unlettered>>

-----------------------------------------------------------------------------

\* The steps a request takes by itself once it has started.
Proceed(w) ==
    \/ Reset(w)
    \/ Post(w)
    \/ LogAttempt(w)
    \/ LogFailure(w)
    \/ LogDelivery(w)
    \/ markDelivered(w)
    \/ scheduleNext(w)
    \/ markFailed(w)
    \/ WriteLetter(w)

Step ==
    \/ \E w \in Worker :
          \/ Proceed(w)
          \/ ReadDue(w)
          \/ Crash(w)
          \/ \E d \in Event : Subscribe(w, d)
          \/ \E d \in Replay : ReplayLetter(w, d)
          \/ \E d \in Delivery : PickPending(w, d) \/ PickFailed(w, d)
    \/ \E d \in Replay : EnqueueReplay(d)
    \/ \E d \in Delivery : ComesDue(d)

Next ==
    /\ Step
    /\ overlapped' = overlapped \cup {d \in Delivery : Cardinality(Holders(d)') > 1}

\* A request that has started goes on, a back-off runs out, and somebody calls
\* the runner again and again.
Fairness ==
    /\ WF_vars((\E w \in Worker : Proceed(w)) /\ Next)
    /\ WF_vars((\E d \in Delivery : ComesDue(d)) /\ Next)
    /\ WF_vars((\E w \in Worker : ReadDue(w)) /\ Next)

Spec == Init /\ [][Next]_vars /\ Fairness

-----------------------------------------------------------------------------

TypeOK ==
    /\ rec \in [Delivery -> Record]
    /\ logged \in BOOLEAN
    /\ worker \in [Worker -> Request]
    /\ disturbed \in Nat
    /\ posts \in [Delivery -> Nat]
    /\ {lettered, accepted, refused, unlettered, overlapped} \subseteq SUBSET Delivery

\* attempt_count never claims an attempt that was not made, however many
\* requests write it from rows they read before (dispatcher.ts, attempt).
AttemptsWereMade == \A d \in Delivery : rec[d].count <= posts[d]

\* A delivery is given up only after as many POSTs as its limit, or after an
\* answer that is final; a delivery marked delivered was accepted once.
EndedForCause ==
    \A d \in Delivery :
        /\ rec[d].status = "failed" => posts[d] >= rec[d].max \/ d \in refused
        /\ rec[d].status = "delivered" => d \in accepted

\* A failed delivery has its dead letter, or the request that failed it is about
\* to write it, or a fault came between the two.
FailureIsLettered ==
    \A d \in Delivery : rec[d].status = "failed" =>
        \/ d \in lettered
        \/ d \in unlettered
        \/ \E w \in Worker : worker[w].on = d /\ worker[w].pc = "letter"

\* What was delivered stays delivered unless two requests had the record in
\* hand together: no list of due or failed records offers it again.
DeliveredForGood ==
    [][\A d \in Delivery :
          rec[d].status = "delivered" /\ rec'[d].status # "delivered"
              => d \in overlapped]_vars

\* When the runner keeps being called, every delivery ends: attempts run out
\* even though several requests count them over each other.
Drains == \A d \in Delivery : <>[](rec[d].status # "pending")

=============================================================================
