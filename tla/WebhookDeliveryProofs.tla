----------------------- MODULE WebhookDeliveryProofs -----------------------
(***************************************************************************)
(* What WebhookDelivery keeps for any number of records, requests, faults  *)
(* and calls of the dashboard: attempts are never invented, a record ends  *)
(* for a cause, a failed one has its dead letter unless a fault came       *)
(* between, and a delivered one stays so unless two requests held it.      *)
(***************************************************************************)
EXTENDS WebhookDelivery, FiniteSetTheorems, TLAPS

\* What a request may remember: no count higher than the POSTs made, and after
\* its own POST one less than that, with the answer it then got.
Attempting == {"log", "relog", "note", "mark"}

RequestOK(s) ==
    /\ s \in Request
    /\ s.pc # "idle" => s.on \in Delivery /\ s.seen <= posts[s.on]
    /\ s.pc \in Attempting =>
          /\ s.seen + 1 <= posts[s.on]
          /\ s.answer = "ok" => s.on \in accepted
          /\ s.answer = "final" => s.on \in refused
    /\ s.pc \in {"post", "log", "relog"} => s.job # "retry"
    /\ s.pc \in {"note", "mark"} => s.job \in {"runner", "attempt", "subscriber"}
    /\ \A x \in s.left : x[2] <= posts[x[1]]

RowOK(d, row) ==
    /\ row \in Record
    /\ row.count <= posts[d]
    /\ row.status = "failed" => posts[d] >= row.max \/ d \in refused
    /\ row.status = "delivered" => d \in accepted

HistoryOK ==
    /\ posts \in [Delivery -> Nat]
    /\ {lettered, accepted, refused, unlettered, overlapped} \subseteq SUBSET Delivery
    /\ logged \in BOOLEAN
    /\ disturbed \in Nat

Tables ==
    /\ rec \in [Delivery -> Record]
    /\ worker \in [Worker -> Request]

Inv ==
    /\ Tables
    /\ HistoryOK
    /\ \A d \in Delivery : RowOK(d, rec[d])
    /\ \A w \in Worker : RequestOK(worker[w])

\* The inductive invariant is at least as strong as what the runs check.
LEMMA InvImplies == Inv => TypeOK /\ AttemptsWereMade /\ EndedForCause
  BY DEF Inv, Tables, HistoryOK, RowOK, TypeOK, AttemptsWereMade, EndedForCause

LEMMA IdleOK == ASSUME HistoryOK PROVE RequestOK(Idle)
  BY DEF HistoryOK, RequestOK, Idle, Request, Jobs, Pcs, Answers, Attempting

\* A request that has just read a row of Delivery.
LEMMA StartedOK ==
  ASSUME HistoryOK, NEW job \in Jobs, NEW d \in Delivery, NEW n \in Nat, n <= posts[d],
         NEW pc \in {"post", "reset"}, job = "retry" => pc = "reset"
  PROVE  RequestOK(Started(job, pc, d, n))
  BY DEF HistoryOK, RequestOK, Started, Idle, Request, Jobs, Pcs, Answers, Attempting

LEMMA RunnerAtOK ==
  ASSUME HistoryOK, NEW list \in SUBSET (Delivery \X Nat),
         \A x \in list : x[2] <= posts[x[1]],
         NEW s \in RunnerAt(list)
  PROVE  RequestOK(s)
<1>1. PICK x \in list :
         s = [Started("runner", "post", x[1], x[2]) EXCEPT !.left = list \ {x}]
  BY DEF RunnerAt
<1>2. x[1] \in Delivery /\ x[2] \in Nat /\ x[2] <= posts[x[1]]
  OBVIOUS
<1>3. s = [job |-> "runner", pc |-> "post", on |-> x[1], seen |-> x[2],
           answer |-> "ok", left |-> list \ {x}]
  BY <1>1 DEF Started, Idle
<1>4. s \in Request
  BY <1>2, <1>3 DEF Request, Jobs, Pcs, Answers
<1> QED
  BY <1>2, <1>3, <1>4 DEF RequestOK, Attempting

LEMMA AfterOK ==
  ASSUME Inv, NEW w \in Worker, NEW s \in After(w)
  PROVE  RequestOK(s)
<1>1. HistoryOK /\ RequestOK(worker[w])
  BY DEF Inv
<1>2. CASE worker[w].left = {}
  BY <1>1, <1>2, IdleOK DEF After
<1>3. CASE worker[w].left # {}
  <2>1. worker[w].left \in SUBSET (Delivery \X Nat)
    BY <1>1 DEF RequestOK, Request
  <2>2. \A x \in worker[w].left : x[2] <= posts[x[1]]
    BY <1>1 DEF RequestOK
  <2> QED
    BY <1>1, <1>3, <2>1, <2>2, RunnerAtOK DEF After
<1> QED
  BY <1>2, <1>3

\* A request may go on to any state that is sound, as long as the history stays.
LEMMA GotoOK ==
  ASSUME Inv, NEW w \in Worker, NEW S, \A s \in S : RequestOK(s),
         Goto(w, S), UNCHANGED history
  PROVE  worker' \in [Worker -> Request] /\ \A v \in Worker : RequestOK(worker[v])'
<1>1. PICK s \in S : worker' = [worker EXCEPT ![w] = s]
  BY DEF Goto
<1>2. worker \in [Worker -> Request] /\ s \in Request
  BY DEF Inv, Tables, RequestOK
<1>3. worker' \in [Worker -> Request]
  BY <1>1, <1>2
<1>4. ASSUME NEW v \in Worker PROVE RequestOK(worker[v])'
  <2>1. RequestOK(worker'[v])
    BY <1>1, <1>2 DEF Inv
  <2> QED
    BY <2>1 DEF RequestOK, history, Attempting
<1> QED
  BY <1>3, <1>4

\* An updateRecord keeps the tables sound when the row it writes is, whether or
\* not the statement fails.
LEMMA UpdateOK ==
  ASSUME Inv, NEW w \in Worker, NEW d \in Delivery, d = worker[w].on,
         NEW row, RowOK(d, row), NEW S, NEW T,
         \A s \in S : RequestOK(s), \A s \in T : RequestOK(s),
         updateRecord(w, row, S, T), UNCHANGED history
  PROVE  /\ Tables'
         /\ disturbed' \in Nat
         /\ \A e \in Delivery : RowOK(e, rec[e])'
         /\ \A v \in Worker : RequestOK(worker[v])'
<1>1. rec' \in {rec, [rec EXCEPT ![d] = row]}
  BY DEF updateRecord
<1>2. Goto(w, S) \/ Goto(w, T)
  BY DEF updateRecord
<1>3. worker' \in [Worker -> Request] /\ \A v \in Worker : RequestOK(worker[v])'
  BY <1>2, GotoOK
<1>4. disturbed' \in Nat
  BY DEF updateRecord, Disturbance, Inv, HistoryOK
<1>5. rec \in [Delivery -> Record] /\ row \in Record
  BY DEF Inv, Tables, RowOK
<1>6. rec' \in [Delivery -> Record]
  BY <1>1, <1>5
<1>7. ASSUME NEW e \in Delivery PROVE RowOK(e, rec[e])'
  <2>1. RowOK(e, rec'[e])
    BY <1>1, <1>5 DEF Inv
  <2> QED
    BY <2>1 DEF RowOK, history
<1> QED
  BY <1>3, <1>4, <1>6, <1>7 DEF Tables

LEMMA CreateOK ==
  ASSUME Inv, NEW d \in Delivery, NEW max \in Nat, createRecord(d, max), UNCHANGED history
  PROVE  rec' \in [Delivery -> Record] /\ \A e \in Delivery : RowOK(e, rec[e])'
<1> DEFINE row == [status |-> "pending", count |-> 0, max |-> max, next |-> "now"]
<1>1. rec' = [rec EXCEPT ![d] = row] /\ rec \in [Delivery -> Record]
  BY DEF createRecord, Inv, Tables
<1>2. row \in Record
  BY DEF Record, Statuses, Schedule
<1>3. RowOK(d, row)
  BY <1>2 DEF RowOK, Inv, HistoryOK
<1> HIDE DEF row
<1>4. ASSUME NEW e \in Delivery PROVE RowOK(e, rec[e])'
  <2>1. RowOK(e, rec'[e])
    BY <1>1, <1>3 DEF Inv
  <2> QED
    BY <2>1 DEF RowOK, history
<1> QED
  BY <1>1, <1>2, <1>4

\* Counting the attempt a request has made is sound.
LEMMA CountedOK ==
  ASSUME Inv, NEW w \in Worker, worker[w].pc \in Attempting
  PROVE  worker[w].on \in Delivery /\ RowOK(worker[w].on, Counted(w))
<1> DEFINE d == worker[w].on
<1>1. RequestOK(worker[w]) /\ worker[w] \in Request
  BY DEF Inv, RequestOK
<1>2. d \in Delivery /\ worker[w].seen + 1 <= posts[d] /\ worker[w].seen \in Nat
  BY <1>1 DEF RequestOK, Request, Attempting
<1>3. RowOK(d, rec[d]) /\ rec[d] \in Record
  BY <1>2 DEF Inv, RowOK
<1> QED
  BY <1>2, <1>3 DEF Counted, RowOK, Record

-----------------------------------------------------------------------------

LEMMA InitOK == Init => Inv
<1> SUFFICES ASSUME Init PROVE Inv
  OBVIOUS
<1>1. HistoryOK
  BY DEF Init, HistoryOK
<1>2. RequestOK(Idle)
  BY <1>1, IdleOK
<1>3. \A w \in Worker : RequestOK(worker[w])
  BY <1>2 DEF Init
<1>4. \A d \in Delivery : RowOK(d, rec[d])
  BY DEF Init, RowOK, Record, Statuses, Schedule
<1>5. Tables
  <2>1. Idle \in Request
    BY <1>2 DEF RequestOK
  <2>2. worker \in [Worker -> Request]
    BY <2>1 DEF Init
  <2>3. rec \in [Delivery -> Record]
    BY DEF Init, Record, Statuses, Schedule
  <2> QED
    BY <2>2, <2>3 DEF Tables
<1> QED
  BY <1>1, <1>3, <1>4, <1>5 DEF Inv

\* Everything of Inv but the two tables' contents, after a step.
Rest ==
    /\ \A d \in Delivery : RowOK(d, rec[d])
    /\ \A w \in Worker : RequestOK(worker[w])

LEMMA StartStep ==
  ASSUME Inv, NEW w \in Worker,
         \/ ReadDue(w)
         \/ \E d \in Event : Subscribe(w, d)
         \/ \E d \in Replay : ReplayLetter(w, d)
         \/ \E d \in Delivery : PickPending(w, d) \/ PickFailed(w, d)
  PROVE  Tables' /\ Rest' /\ disturbed' \in Nat
<1>0. /\ HistoryOK /\ Tables /\ Rest /\ Delivery = Event \cup Replay
      /\ MaxAttempts \in Nat /\ DefaultAttempts \in Nat /\ disturbed \in Nat
  BY WebhookAssumption DEF Inv, Rest, HistoryOK, Delivery
<1>1. CASE ReadDue(w)
  <2> DEFINE due == {e \in Delivery : rec[e].status = "pending" /\ rec[e].next = "now"}
             list == {<<d, rec[d].count>> : d \in due}
  <2>1. list \in SUBSET (Delivery \X Nat)
    BY <1>0 DEF Tables, Record
  <2>2. \A x \in list : x[2] <= posts[x[1]]
    BY <1>0 DEF Rest, RowOK
  <2>3. Goto(w, RunnerAt(list)) /\ UNCHANGED <<rec, disturbed, history>>
    BY <1>1 DEF ReadDue
  <2> HIDE DEF list
  <2>4. \A s \in RunnerAt(list) : RequestOK(s)
    BY <1>0, <2>1, <2>2, RunnerAtOK
  <2>5. worker' \in [Worker -> Request] /\ \A v \in Worker : RequestOK(worker[v])'
    BY <2>3, <2>4, GotoOK
  <2> QED
    BY <1>0, <2>3, <2>5 DEF Rest, Tables, RowOK, history
<1>2. ASSUME NEW d \in Event, Subscribe(w, d) PROVE Tables' /\ Rest' /\ disturbed' \in Nat
  <2>1. RequestOK(Started("subscriber", "post", d, 0))
    BY <1>0, StartedOK DEF Jobs, HistoryOK
  <2>2. worker' \in [Worker -> Request] /\ \A v \in Worker : RequestOK(worker[v])'
    BY <1>2, <2>1, GotoOK DEF Subscribe
  <2>3. rec' \in [Delivery -> Record] /\ \A e \in Delivery : RowOK(e, rec[e])'
    BY <1>0, <1>2, CreateOK DEF Subscribe
  <2> QED
    BY <1>0, <1>2, <2>2, <2>3 DEF Subscribe, Tables, Rest
<1>3. ASSUME NEW d \in Replay, ReplayLetter(w, d) PROVE Tables' /\ Rest' /\ disturbed' \in Nat
  <2>1. RequestOK(Started("replay", "post", d, 0))
    BY <1>0, StartedOK DEF Jobs, HistoryOK
  <2>2. worker' \in [Worker -> Request] /\ \A v \in Worker : RequestOK(worker[v])'
    BY <1>3, <2>1, GotoOK DEF ReplayLetter
  <2>3. rec' \in [Delivery -> Record] /\ \A e \in Delivery : RowOK(e, rec[e])'
    BY <1>0, <1>3, CreateOK DEF ReplayLetter
  <2> QED
    BY <1>0, <1>3, <2>2, <2>3 DEF ReplayLetter, Disturbance, Tables, Rest
<1>4. ASSUME NEW d \in Delivery, PickPending(w, d) PROVE Tables' /\ Rest' /\ disturbed' \in Nat
  <2>1. rec[d].count \in Nat /\ rec[d].count <= posts[d]
    BY <1>0 DEF Rest, RowOK, Record
  <2>2. RequestOK(Started("attempt", "post", d, rec[d].count))
    BY <1>0, <2>1, StartedOK DEF Jobs
  <2>3. worker' \in [Worker -> Request] /\ \A v \in Worker : RequestOK(worker[v])'
    BY <1>4, <2>2, GotoOK DEF PickPending
  <2> QED
    BY <1>0, <1>4, <2>3 DEF PickPending, Disturbance, Tables, Rest, RowOK, history
<1>5. ASSUME NEW d \in Delivery, PickFailed(w, d) PROVE Tables' /\ Rest' /\ disturbed' \in Nat
  <2>1. RequestOK(Started("retry", "reset", d, 0))
    BY <1>0, StartedOK DEF Jobs, HistoryOK
  <2>2. worker' \in [Worker -> Request] /\ \A v \in Worker : RequestOK(worker[v])'
    BY <1>5, <2>1, GotoOK DEF PickFailed
  <2> QED
    BY <1>0, <1>5, <2>2 DEF PickFailed, Disturbance, Tables, Rest, RowOK, history
<1> QED
  BY <1>1, <1>2, <1>3, <1>4, <1>5

\* The POST itself: the history grows, and the requests stay sound for it.
LEMMA PostStep ==
  ASSUME Inv, NEW w \in Worker, Post(w), overlapped' \subseteq Delivery
  PROVE  Tables' /\ Rest' /\ HistoryOK'
<1> DEFINE d == worker[w].on
<1>0. /\ HistoryOK /\ Tables /\ Rest /\ RequestOK(worker[w])
      /\ worker[w].pc = "post" /\ d \in Delivery /\ worker[w] \in Request
      /\ worker[w].job # "retry"
  BY DEF Inv, Rest, Post, RequestOK
<1>1. PICK answer \in Answers :
        /\ worker' = [worker EXCEPT ![w].answer = answer,
                          ![w].pc = IF answer = "down" THEN "relog" ELSE "log"]
        /\ accepted' = IF answer = "ok" THEN accepted \cup {d} ELSE accepted
        /\ refused' = IF answer = "final" THEN refused \cup {d} ELSE refused
  BY DEF Post
<1>2. posts' = [posts EXCEPT ![d] = @ + 1] /\ UNCHANGED <<rec, lettered, logged, disturbed, unlettered>>
  BY DEF Post
<1>3. /\ posts' \in [Delivery -> Nat]
      /\ \A e \in Delivery : posts[e] \in Nat /\ posts[e] <= posts'[e]
      /\ posts'[d] = posts[d] + 1
  BY <1>0, <1>2 DEF HistoryOK
<1>4. accepted \subseteq accepted' /\ refused \subseteq refused'
      /\ accepted' \subseteq Delivery /\ refused' \subseteq Delivery
  BY <1>0, <1>1 DEF HistoryOK
<1>5. ASSUME NEW e \in Delivery PROVE RowOK(e, rec[e])'
  <2>1. RowOK(e, rec[e]) /\ rec'[e] = rec[e]
    BY <1>0, <1>2 DEF Rest
  <2>2. rec[e].count \in Nat /\ rec[e].max \in Nat
    BY <2>1 DEF RowOK, Record
  <2> QED
    BY <1>3, <1>4, <2>1, <2>2 DEF RowOK
<1>6. ASSUME NEW v \in Worker, v # w PROVE RequestOK(worker[v])'
  <2>1. RequestOK(worker[v]) /\ worker'[v] = worker[v] /\ worker[v] \in Request
    BY <1>0, <1>1, <1>6 DEF Rest, Tables, RequestOK
  <2>2. /\ worker[v].seen \in Nat
        /\ \A x \in worker[v].left : x[1] \in Delivery /\ x[2] \in Nat
        /\ worker[v].pc \in Attempting => worker[v].pc # "idle"
    BY <2>1 DEF Request, Attempting
  <2> QED
    BY <1>3, <1>4, <2>1, <2>2 DEF RequestOK, Attempting
<1>7. RequestOK(worker[w])'
  <2> DEFINE s == worker[w]
             t == [s EXCEPT !.answer = answer,
                            !.pc = IF answer = "down" THEN "relog" ELSE "log"]
  <2>1. worker'[w] = t
    BY <1>0, <1>1 DEF Tables
  <2>2. t \in Request /\ t.on = d /\ t.seen = s.seen /\ t.answer = answer
        /\ t.job = s.job /\ t.left = s.left /\ t.pc \in {"relog", "log"}
    BY <1>0 DEF Request, Answers, Pcs
  <2>3. s.seen \in Nat /\ s.seen <= posts[d]
        /\ \A x \in s.left : x[1] \in Delivery /\ x[2] \in Nat /\ x[2] <= posts[x[1]]
    BY <1>0 DEF RequestOK, Request
  <2> HIDE DEF t
  <2>4. \A x \in t.left : x[2] <= posts'[x[1]]
    BY <1>3, <2>2, <2>3
  <2>5. t.seen <= posts'[d] /\ t.seen + 1 <= posts'[d]
    BY <1>0, <1>3, <2>2, <2>3
  <2>6. (t.answer = "ok" => d \in accepted') /\ (t.answer = "final" => d \in refused')
    BY <1>1, <2>2
  <2> QED
    BY <1>0, <2>1, <2>2, <2>4, <2>5, <2>6 DEF RequestOK
<1>8. Rest'
  BY <1>5, <1>6, <1>7 DEF Rest
<1>9. Tables'
  BY <1>0, <1>2, <1>8 DEF Tables, Rest, RequestOK, Post
<1>10. HistoryOK'
  BY <1>0, <1>2, <1>3, <1>4 DEF HistoryOK
<1> QED
  BY <1>8, <1>9, <1>10

\* Every other step of a request leaves the history of its answers alone.
LEMMA ProceedStep ==
  ASSUME Inv, NEW w \in Worker, Proceed(w), ~ Post(w)
  PROVE  Tables' /\ Rest' /\ disturbed' \in Nat
<1> DEFINE d == worker[w].on
<1>0. /\ HistoryOK /\ Tables /\ Rest /\ RequestOK(worker[w]) /\ worker[w] \in Request
      /\ disturbed \in Nat
  BY DEF Inv, Rest, RequestOK, HistoryOK
<1>1. \A s \in After(w) : RequestOK(s)
  BY AfterOK
<1>2. RequestOK(Idle)
  BY <1>0, IdleOK
<1>3. CASE Reset(w)
  <2>1. d \in Delivery /\ worker[w].pc = "reset"
    BY <1>0, <1>3 DEF Reset, RequestOK
  <2>2. RowOK(d, rec[d]) /\ rec[d] \in Record
    BY <1>0, <2>1 DEF Rest, RowOK
  <2> DEFINE row == [rec[d] EXCEPT !.status = "pending", !.next = "now"]
  <2>3. RowOK(d, row)
    BY <2>2 DEF RowOK, Record, Statuses, Schedule
  <2>4. updateRecord(w, row, {Idle}, {Idle}) /\ UNCHANGED history
    BY <1>3 DEF Reset
  <2>5. \A s \in {Idle} : RequestOK(s)
    BY <1>2
  <2> HIDE DEF row
  <2> QED
    BY <2>1, <2>3, <2>4, <2>5, UpdateOK DEF Rest
<1>4. CASE LogAttempt(w) \/ LogFailure(w)
  <2>1. worker[w].pc \in {"log", "relog"} /\ worker[w].pc \in Attempting
    BY <1>4 DEF LogAttempt, LogFailure, Attempting
  <2>2. d \in Delivery /\ RowOK(d, Counted(w))
    BY <2>1, CountedOK
  <2>3. \A s \in Returned(w) : RequestOK(s)
    <3>1. CASE worker[w].job = "replay"
      BY <1>2, <3>1 DEF Returned
    <3>2. CASE worker[w].job = "subscriber"
      BY <1>0, <2>1, <3>2 DEF Returned, At, RequestOK, Attempting, Request, Pcs
    <3>3. CASE worker[w].job \in {"runner", "attempt"}
      BY <1>0, <2>1, <3>3 DEF Returned, At, RequestOK, Attempting, Request, Pcs
    <3> QED
      BY <1>0, <2>1, <3>1, <3>2, <3>3 DEF RequestOK, Request, Jobs
  <2> DEFINE again == [worker[w] EXCEPT !.pc = "relog", !.answer = "down"]
  <2>4. \A s \in {again} : RequestOK(s)
    BY <1>0, <2>1 DEF RequestOK, Attempting, Request, Pcs, Answers
  <2>5. \/ updateRecord(w, Counted(w), Returned(w), {again})
        \/ updateRecord(w, Counted(w), Returned(w), After(w))
    BY <1>4 DEF LogAttempt, LogFailure
  <2>6. UNCHANGED history
    BY <1>4 DEF LogAttempt, LogFailure
  <2> HIDE DEF again
  <2> QED
    BY <1>1, <2>2, <2>3, <2>4, <2>5, <2>6, UpdateOK DEF Rest
<1>5. CASE LogDelivery(w)
  <2>1. worker[w].pc = "note"
    BY <1>5 DEF LogDelivery
  <2>2. CASE Goto(w, After(w))
    <3>1. worker' \in [Worker -> Request] /\ \A v \in Worker : RequestOK(worker[v])'
      BY <1>1, <1>5, <2>2, GotoOK DEF LogDelivery
    <3> QED
      BY <1>0, <1>5, <3>1 DEF LogDelivery, Disturbance, Tables, Rest, RowOK, history
  <2>3. CASE Goto(w, At(w, "mark"))
    <3>1. \A s \in At(w, "mark") : RequestOK(s)
      BY <1>0, <2>1 DEF At, RequestOK, Attempting, Request, Pcs
    <3>2. worker' \in [Worker -> Request] /\ \A v \in Worker : RequestOK(worker[v])'
      BY <1>5, <2>3, <3>1, GotoOK DEF LogDelivery
    <3> QED
      BY <1>0, <1>5, <3>2 DEF LogDelivery, Disturbance, Tables, Rest, RowOK, history
  <2> QED
    BY <1>5, <2>2, <2>3 DEF LogDelivery
<1>6. CASE markDelivered(w)
  <2>1. worker[w].pc = "mark" /\ worker[w].pc \in Attempting /\ worker[w].answer = "ok"
    BY <1>6 DEF markDelivered, Attempting
  <2>2. d \in Delivery /\ RowOK(d, Counted(w)) /\ d \in accepted
    BY <1>0, <2>1, CountedOK DEF RequestOK
  <2> DEFINE row == [Counted(w) EXCEPT !.status = "delivered", !.next = "none"]
  <2>3. RowOK(d, row)
    BY <2>2 DEF RowOK, Record, Statuses, Schedule
  <2>4. updateRecord(w, row, After(w), After(w)) /\ UNCHANGED history
    BY <1>6 DEF markDelivered
  <2> HIDE DEF row
  <2> QED
    BY <1>1, <2>2, <2>3, <2>4, UpdateOK DEF Rest
<1>7. CASE scheduleNext(w)
  <2>1. worker[w].pc = "mark" /\ worker[w].pc \in Attempting
    BY <1>7 DEF scheduleNext, Attempting
  <2>2. d \in Delivery /\ RowOK(d, Counted(w)) /\ RowOK(d, rec[d])
    BY <1>0, <2>1, CountedOK DEF Rest
  <2> DEFINE row == [IF worker[w].job = "runner" THEN Counted(w) ELSE rec[worker[w].on]
                         EXCEPT !.next = "later"]
  <2>3. RowOK(d, row)
    BY <2>2 DEF RowOK, Record, Statuses, Schedule
  <2>4. updateRecord(w, row, After(w), After(w)) /\ UNCHANGED history
    BY <1>7 DEF scheduleNext
  <2> HIDE DEF row
  <2> QED
    BY <1>1, <2>2, <2>3, <2>4, UpdateOK DEF Rest
<1>8. CASE markFailed(w)
  <2>1. worker[w].pc = "mark" /\ worker[w].pc \in Attempting /\ worker[w].answer # "ok"
        /\ ~ TriesAgain(w)
    BY <1>8 DEF markFailed, Attempting
  <2>2. /\ d \in Delivery /\ RowOK(d, rec[d]) /\ rec[d] \in Record
        /\ worker[w].seen \in Nat /\ worker[w].seen + 1 <= posts[d] /\ posts[d] \in Nat
        /\ worker[w].job \in {"runner", "attempt", "subscriber"}
        /\ worker[w].answer = "final" => d \in refused
    BY <1>0, <2>1, CountedOK DEF Rest, RequestOK, RowOK, Request, HistoryOK
  <2>3. posts[d] >= rec[d].max \/ d \in refused
    <3>1. CASE worker[w].answer = "final"
      BY <2>2, <3>1
    <3>2. CASE worker[w].answer # "final"
      <4>1. Retryable(w)
        BY <1>0, <2>1, <3>2 DEF Retryable, Request, Answers
      <4>2. rec[d].max \in Nat
        BY <2>2 DEF Record
      <4>3. \/ worker[w].job = "runner" /\ ~ (worker[w].seen + 1 < rec[d].max)
            \/ worker[w].job = "attempt" /\ ~ (worker[w].seen < rec[d].max)
        BY <2>1, <2>2, <4>1 DEF TriesAgain, LimitOf
      <4> QED
        BY <2>2, <4>2, <4>3
    <3> QED
      BY <3>1, <3>2
  <2> DEFINE row == [rec[d] EXCEPT !.status = "failed", !.next = "none"]
  <2>4. RowOK(d, row)
    BY <2>2, <2>3 DEF RowOK, Record, Statuses, Schedule
  <2>5. \A s \in Lettering(w, "letter") : RequestOK(s)
    <3> DEFINE t == [worker[w] EXCEPT !.pc = "letter", !.seen = 0, !.answer = "ok"]
    <3>1. /\ t \in Request /\ t.pc = "letter" /\ t.on = d /\ t.seen = 0
          /\ t.left = worker[w].left
      BY <1>0 DEF Request, Pcs, Answers
    <3>2. t.seen <= posts[t.on]
      BY <2>2, <3>1
    <3> HIDE DEF t
    <3>3. RequestOK(t)
      BY <1>0, <2>2, <3>1, <3>2 DEF RequestOK, Attempting
    <3> QED
      BY <3>3 DEF Lettering, t
  <2>6. updateRecord(w, row, Lettering(w, "letter"), After(w)) /\ UNCHANGED history
    BY <1>8 DEF markFailed
  <2> HIDE DEF row
  <2> QED
    BY <1>1, <2>2, <2>4, <2>5, <2>6, UpdateOK DEF Rest
<1>9. CASE WriteLetter(w)
  <2>1. worker[w].pc \in {"letter", "secondLetter"}
    BY <1>9 DEF WriteLetter
  <2>2. \A s \in At(w, "secondLetter") : RequestOK(s)
    BY <1>0, <2>1 DEF At, RequestOK, Attempting, Request, Pcs
  <2>3. Goto(w, At(w, "secondLetter")) \/ Goto(w, After(w))
    BY <1>9 DEF WriteLetter
  <2>4. worker' \in [Worker -> Request] /\ \A v \in Worker : RequestOK(worker[v])'
    BY <1>1, <1>9, <2>2, <2>3, GotoOK DEF WriteLetter
  <2> QED
    BY <1>0, <1>9, <2>4 DEF WriteLetter, Disturbance, Tables, Rest, RowOK, history
<1> QED
  BY <1>3, <1>4, <1>5, <1>6, <1>7, <1>8, <1>9 DEF Proceed

\* The bookkeeping sets stay within the deliveries.
LEMMA SetsOK ==
  ASSUME Inv, Next, ~ \E w \in Worker : Post(w), disturbed' \in Nat
  PROVE  HistoryOK'
<1>1. overlapped' \subseteq Delivery
  BY DEF Next, Inv, HistoryOK
<1>2. UNCHANGED history
  BY DEF Next, Step, Proceed, ReadDue, Crash, Subscribe, ReplayLetter, PickPending,
         PickFailed, EnqueueReplay, ComesDue, Reset, LogAttempt, LogFailure, LogDelivery,
         markDelivered, scheduleNext, markFailed, WriteLetter
<1>3. logged' \in BOOLEAN
  BY DEF Inv, HistoryOK, Next, Step, Proceed, ReadDue, Crash, Subscribe, ReplayLetter,
         PickPending, PickFailed, EnqueueReplay, ComesDue, Reset, LogAttempt, LogFailure,
         LogDelivery, markDelivered, scheduleNext, markFailed, WriteLetter
<1>4. lettered' \subseteq Delivery /\ unlettered' \subseteq Delivery
  <2>1. lettered \subseteq Delivery /\ unlettered \subseteq Delivery
    BY DEF Inv, HistoryOK
  <2>2. \A w \in Worker : worker[w].pc # "idle" => worker[w].on \in Delivery
    BY DEF Inv, RequestOK
  <2>3. ASSUME NEW w \in Worker,
               markFailed(w) \/ WriteLetter(w) \/ Crash(w)
        PROVE  lettered' \subseteq Delivery /\ unlettered' \subseteq Delivery
    BY <2>1, <2>2, <2>3 DEF markFailed, WriteLetter, Crash
  <2> QED
    BY <2>1, <2>3 DEF Next, Step, Proceed, ReadDue, Subscribe, ReplayLetter, PickPending,
         PickFailed, EnqueueReplay, ComesDue, Reset, LogAttempt, LogFailure, LogDelivery,
         markDelivered, scheduleNext
<1> QED
  BY <1>1, <1>2, <1>3, <1>4 DEF HistoryOK, Inv, history

LEMMA StepOK == Inv /\ [Next]_vars => Inv'
<1> SUFFICES ASSUME Inv, [Next]_vars PROVE Inv'
  OBVIOUS
<1>1. CASE UNCHANGED vars
  BY <1>1 DEF vars, Inv, Tables, HistoryOK, RowOK, RequestOK, history
<1>2. CASE Next
  <2>0. overlapped' \subseteq Delivery
    BY <1>2 DEF Next, Inv, HistoryOK
  <2>1. CASE \E w \in Worker : Post(w)
    BY <2>0, <2>1, PostStep DEF Inv, Rest
  <2>2. CASE ~ \E w \in Worker : Post(w)
    <3>1. ASSUME NEW w \in Worker, Crash(w) PROVE Tables' /\ Rest' /\ disturbed' \in Nat
      <4>1. \A s \in {Idle} : RequestOK(s)
        BY IdleOK DEF Inv
      <4>2. worker' \in [Worker -> Request] /\ \A v \in Worker : RequestOK(worker[v])'
        BY <3>1, <4>1, GotoOK DEF Crash
      <4> QED
        BY <3>1, <4>2 DEF Crash, Disturbance, Inv, HistoryOK, Tables, Rest, RowOK, history
    <3>2. ASSUME NEW d \in Replay, EnqueueReplay(d)
          PROVE  Tables' /\ Rest' /\ disturbed' \in Nat
      <4>1. createRecord(d, DefaultAttempts) \/ createRecord(d, MaxAttempts)
        BY <3>2 DEF EnqueueReplay
      <4>2. rec' \in [Delivery -> Record] /\ \A e \in Delivery : RowOK(e, rec[e])'
        BY <3>2, <4>1, CreateOK, WebhookAssumption DEF EnqueueReplay, Delivery
      <4> QED
        BY <3>2, <4>2
           DEF EnqueueReplay, Disturbance, Inv, HistoryOK, Tables, Rest, RequestOK, history
    <3>3. ASSUME NEW d \in Delivery, ComesDue(d)
          PROVE  Tables' /\ Rest' /\ disturbed' \in Nat
      <4>1. rec \in [Delivery -> Record] /\ rec' = [rec EXCEPT ![d].next = "now"]
        BY <3>3 DEF ComesDue, Inv, Tables
      <4>2. rec' \in [Delivery -> Record]
        BY <4>1 DEF Record, Schedule
      <4>3. ASSUME NEW e \in Delivery PROVE RowOK(e, rec[e])'
        <5>1. /\ rec'[e].count = rec[e].count /\ rec'[e].max = rec[e].max
              /\ rec'[e].status = rec[e].status
          BY <4>1 DEF Record
        <5> QED
          BY <3>3, <4>2, <5>1 DEF Inv, RowOK, ComesDue, history
      <4> QED
        BY <3>3, <4>2, <4>3 DEF ComesDue, Inv, HistoryOK, Tables, Rest, RequestOK, history
    <3>4. Tables' /\ Rest' /\ disturbed' \in Nat
      BY <1>2, <2>2, <3>1, <3>2, <3>3, StartStep, ProceedStep DEF Next, Step
    <3>5. HistoryOK'
      BY <1>2, <2>2, <3>4, SetsOK
    <3> QED
      BY <3>4, <3>5 DEF Inv, Rest
  <2> QED
    BY <2>1, <2>2
<1> QED
  BY <1>1, <1>2 DEF vars

-----------------------------------------------------------------------------
(* How one step changes the rows and the requests.                         *)

\* Only three kinds of statement change the status of a row, besides its creation.
Writes(w, d, status) ==
    /\ worker[w].on = d
    /\ \/ Reset(w) /\ status = "pending"
       \/ markDelivered(w) /\ status = "delivered"
       \/ markFailed(w) /\ status = "failed"

LEMMA UpdatedStatus ==
  ASSUME Inv, NEW w \in Worker, worker[w].on \in Delivery, NEW row, NEW S, NEW T,
         updateRecord(w, row, S, T), NEW d \in Delivery, rec'[d].status # rec[d].status
  PROVE  d = worker[w].on /\ rec'[d] = row
  BY DEF updateRecord, Inv, Tables

LEMMA CountKeepsStatus ==
  ASSUME Inv, NEW w \in Worker, worker[w].on \in Delivery
  PROVE  /\ Counted(w).status = rec[worker[w].on].status
         /\ [Counted(w) EXCEPT !.next = "later"].status = rec[worker[w].on].status
         /\ [rec[worker[w].on] EXCEPT !.next = "later"].status = rec[worker[w].on].status
  BY DEF Counted, Inv, Tables, Record

LEMMA StatusWritten ==
  ASSUME Inv, NEW w \in Worker, Proceed(w), NEW d \in Delivery,
         rec'[d].status # rec[d].status
  PROVE  Writes(w, d, rec'[d].status)
<1>1. worker[w].pc # "idle" => worker[w].on \in Delivery /\ rec[worker[w].on] \in Record
  BY DEF Inv, RequestOK, Tables
<1>2. CASE Post(w) \/ LogDelivery(w) \/ WriteLetter(w)
  BY <1>2 DEF Post, LogDelivery, WriteLetter
<1>3. CASE LogAttempt(w) \/ LogFailure(w)
  <2>1. worker[w].on \in Delivery
    BY <1>1, <1>3 DEF LogAttempt, LogFailure
  <2>2. d = worker[w].on /\ rec'[d] = Counted(w)
    BY <1>3, <2>1, UpdatedStatus DEF LogAttempt, LogFailure
  <2> QED
    BY <2>1, <2>2, CountKeepsStatus
<1>4. CASE scheduleNext(w)
  <2>1. worker[w].on \in Delivery
    BY <1>1, <1>4 DEF scheduleNext
  <2>2. /\ d = worker[w].on
        /\ rec'[d] = [IF worker[w].job = "runner" THEN Counted(w)
                      ELSE rec[worker[w].on] EXCEPT !.next = "later"]
    BY <1>4, <2>1, UpdatedStatus DEF scheduleNext
  <2> QED
    BY <2>1, <2>2, CountKeepsStatus
<1>5. CASE Reset(w)
  <2>1. worker[w].on \in Delivery
    BY <1>1, <1>5 DEF Reset
  <2>2. /\ d = worker[w].on
        /\ rec'[d] = [rec[worker[w].on] EXCEPT !.status = "pending", !.next = "now"]
    BY <1>5, <2>1, UpdatedStatus DEF Reset
  <2> QED
    BY <1>1, <1>5, <2>1, <2>2 DEF Writes, Record, Reset
<1>6. CASE markDelivered(w)
  <2>1. worker[w].on \in Delivery
    BY <1>1, <1>6 DEF markDelivered
  <2>2. /\ d = worker[w].on
        /\ rec'[d] = [Counted(w) EXCEPT !.status = "delivered", !.next = "none"]
    BY <1>6, <2>1, UpdatedStatus DEF markDelivered
  <2> QED
    BY <1>1, <1>6, <2>1, <2>2 DEF Writes, Record, Counted, markDelivered
<1>7. CASE markFailed(w)
  <2>1. worker[w].on \in Delivery
    BY <1>1, <1>7 DEF markFailed
  <2>2. /\ d = worker[w].on
        /\ rec'[d] = [rec[worker[w].on] EXCEPT !.status = "failed", !.next = "none"]
    BY <1>7, <2>1, UpdatedStatus DEF markFailed
  <2> QED
    BY <1>1, <1>7, <2>1, <2>2 DEF Writes, Record, markFailed
<1> QED
  BY <1>2, <1>3, <1>4, <1>5, <1>6, <1>7 DEF Proceed

LEMMA StatusChanges ==
  ASSUME Inv, Next, NEW d \in Delivery, rec'[d].status # rec[d].status
  PROVE  \/ rec[d].status = "absent" /\ rec'[d].status = "pending"
         \/ \E w \in Worker : Writes(w, d, rec'[d].status)
<1>0. rec \in [Delivery -> Record] /\ Event \subseteq Delivery /\ Replay \subseteq Delivery
  BY DEF Inv, Tables, Delivery
<1>1. CASE \E w \in Worker : Proceed(w)
  BY <1>1, StatusWritten
<1>2. CASE UNCHANGED rec
  BY <1>2
<1>3. ASSUME NEW e \in Delivery, NEW max, createRecord(e, max)
      PROVE  rec[d].status = "absent" /\ rec'[d].status = "pending"
  BY <1>0, <1>3 DEF createRecord
<1>4. ASSUME NEW e \in Delivery, ComesDue(e)
      PROVE  FALSE
  BY <1>0, <1>4 DEF ComesDue, Record
<1> QED
  BY <1>0, <1>1, <1>2, <1>3, <1>4
     DEF Next, Step, ReadDue, Crash, Subscribe, ReplayLetter, PickPending, PickFailed,
         EnqueueReplay

\* A step is the step of one request, which goes on to one state, or of none.
Acts(w) ==
    \/ Proceed(w) \/ ReadDue(w) \/ Crash(w)
    \/ \E d \in Event : Subscribe(w, d)
    \/ \E d \in Replay : ReplayLetter(w, d)
    \/ \E d \in Delivery : PickPending(w, d) \/ PickFailed(w, d)

LEMMA OneActs ==
  ASSUME Inv, Next
  PROVE  \/ UNCHANGED worker
         \/ \E w \in Worker : Acts(w) /\ \A v \in Worker \ {w} : worker'[v] = worker[v]
<1>1. ASSUME NEW w \in Worker, Acts(w)
      PROVE  \A v \in Worker \ {w} : worker'[v] = worker[v]
  <2>1. worker \in [Worker -> Request]
    BY DEF Inv, Tables
  <2>2. CASE Post(w)
    BY <2>1, <2>2 DEF Post
  <2>3. CASE \E S : Goto(w, S)
    BY <2>1, <2>3 DEF Goto
  <2> QED
    BY <1>1, <2>2, <2>3
       DEF Acts, Proceed, ReadDue, Crash, Subscribe, ReplayLetter, PickPending, PickFailed,
           Reset, LogAttempt, LogFailure, LogDelivery, markDelivered, scheduleNext,
           markFailed, WriteLetter, updateRecord
<1> QED
  BY <1>1 DEF Next, Step, Acts, EnqueueReplay, ComesDue

-----------------------------------------------------------------------------
(* FailureIsLettered                                                       *)

LEMMA LettersStay ==
  ASSUME Next
  PROVE  lettered \subseteq lettered' /\ unlettered \subseteq unlettered'
  BY DEF Next, Step, Proceed, ReadDue, Crash, Subscribe, ReplayLetter, PickPending,
         PickFailed, EnqueueReplay, ComesDue, Reset, Post, LogAttempt, LogFailure,
         LogDelivery, markDelivered, scheduleNext, markFailed, WriteLetter

\* A request that is to write a letter writes it, or the fault is on record.
LEMMA LetterPending ==
  ASSUME Inv, Next, NEW w \in Worker, worker[w].pc = "letter"
  PROVE  \/ worker'[w] = worker[w]
         \/ worker[w].on \in lettered' \cup unlettered'
<1>1. CASE Acts(w)
  <2>1. WriteLetter(w) \/ Crash(w)
    BY <1>1 DEF Acts, Proceed, ReadDue, Subscribe, ReplayLetter, PickPending, PickFailed,
                Reset, Post, LogAttempt, LogFailure, LogDelivery, markDelivered,
                scheduleNext, markFailed
  <2> QED
    BY <2>1 DEF WriteLetter, Crash
<1>2. CASE ~ Acts(w)
  BY <1>2, OneActs
<1> QED
  BY <1>1, <1>2

\* The request that fails a delivery goes on to write the letter.
LEMMA FailedGoesOn ==
  ASSUME Inv, NEW w \in Worker, NEW d \in Delivery, markFailed(w), worker[w].on = d,
         rec' # rec
  PROVE  \/ worker'[w].on = d /\ worker'[w].pc = "letter"
         \/ d \in unlettered'
<1>1. worker \in [Worker -> Request] /\ disturbed \in Nat
  BY DEF Inv, Tables, HistoryOK
<1>2. Goto(w, Lettering(w, "letter")) \/ Disturbance
  BY DEF markFailed, updateRecord
<1>3. CASE Goto(w, Lettering(w, "letter"))
  <2>1. worker'[w] = [worker[w] EXCEPT !.pc = "letter", !.seen = 0, !.answer = "ok"]
    BY <1>1, <1>3 DEF Goto, Lettering
  <2> QED
    BY <1>1, <2>1 DEF Request
<1>4. CASE Disturbance
  BY <1>1, <1>4 DEF Disturbance, markFailed
<1> QED
  BY <1>2, <1>3, <1>4

LEMMA LettersStep ==
  ASSUME Inv, FailureIsLettered, [Next]_vars
  PROVE  FailureIsLettered'
<1>1. CASE UNCHANGED vars
  BY <1>1 DEF vars, FailureIsLettered
<1>2. CASE Next
  <2> SUFFICES ASSUME NEW d \in Delivery, rec'[d].status = "failed"
               PROVE  \/ d \in lettered' \cup unlettered'
                      \/ \E w \in Worker : worker'[w].on = d /\ worker'[w].pc = "letter"
    BY DEF FailureIsLettered
  <2>1. CASE rec[d].status = "failed"
    <3>1. \/ d \in lettered \cup unlettered
          \/ \E w \in Worker : worker[w].on = d /\ worker[w].pc = "letter"
      BY <2>1 DEF FailureIsLettered
    <3> QED
      BY <1>2, <3>1, LettersStay, LetterPending
  <2>2. CASE rec[d].status # "failed"
    <3>1. PICK w \in Worker : Writes(w, d, "failed")
      BY <1>2, <2>2, StatusChanges
    <3>2. markFailed(w) /\ worker[w].on = d
      BY <3>1 DEF Writes
    <3>3. rec' # rec
      BY <2>2
    <3> QED
      BY <3>2, <3>3, FailedGoesOn
  <2> QED
    BY <2>1, <2>2
<1> QED
  BY <1>1, <1>2

-----------------------------------------------------------------------------
(* DeliveredForGood: a request that works on a record took it when it was  *)
(* pending (or failed, to reset it), and only another request that held it *)
(* at the same time can have changed that.                                 *)

Holds(s, d) == s.on = d \/ \E x \in s.left : x[1] = d

HoldOK(s, rows, shared) ==
    LET Still(status, d) == rows[d].status = status \/ d \in shared
    IN  /\ s.pc = "idle" => s.on = None /\ s.left = {}
        /\ \A x \in s.left : x[1] # s.on
        /\ \A x, y \in s.left : x[1] = y[1] => x = y
        /\ s.pc \in {"post", "log", "relog", "note", "mark"} => Still("pending", s.on)
        /\ \A x \in s.left : Still("pending", x[1])
        /\ s.pc \in {"reset", "letter", "secondLetter"} => Still("failed", s.on)

OverlapSeen ==
    \A v, w \in Worker : \A d \in Delivery :
       v # w /\ Holds(worker[v], d) /\ Holds(worker[w], d) => d \in overlapped

HoldInv == OverlapSeen /\ \A w \in Worker : HoldOK(worker[w], rec, overlapped)

\* Two holders are counted.
LEMMA OverlapStep ==
  ASSUME IsFiniteSet(Worker), Next
  PROVE  OverlapSeen'
<1> SUFFICES ASSUME NEW v \in Worker, NEW w \in Worker, NEW d \in Delivery, v # w,
                    Holds(worker'[v], d), Holds(worker'[w], d)
             PROVE  d \in overlapped'
  BY DEF OverlapSeen
<1> DEFINE H == Holders(d)'
<1>1. H = {u \in Worker : worker'[u].on = d \/ \E x \in worker'[u].left : x[1] = d}
  BY DEF Holders
<1>2. {v, w} \subseteq H /\ H \subseteq Worker
  BY <1>1 DEF Holds
<1>3. IsFiniteSet(H) /\ Cardinality(H) \in Nat
  BY <1>2, FS_Subset, FS_CardinalityType
<1>4. Cardinality({v, w}) = 2
  <2>1. IsFiniteSet({v}) /\ Cardinality({v}) = 1
    BY FS_Singleton
  <2>2. Cardinality({v} \cup {w}) = 2
    BY <2>1, w \notin {v}, FS_AddElement
  <2>3. {v, w} = {v} \cup {w}
    OBVIOUS
  <2> QED
    BY <2>2, <2>3
<1>5. Cardinality(H) > 1
  <2>1. Cardinality({v, w}) <= Cardinality(H)
    BY <1>2, <1>3, FS_Subset
  <2> QED
    BY <1>3, <1>4, <2>1
<1>6. overlapped' = overlapped \cup {e \in Delivery : Cardinality(Holders(e)') > 1}
  BY DEF Next
<1> QED
  BY <1>5, <1>6

LEMMA OverlapGrows == ASSUME Next PROVE overlapped \subseteq overlapped'
  BY DEF Next

\* A request that takes the first or the next record of a list.
LEMMA RunnerHolds ==
  ASSUME NEW list, NEW s \in RunnerAt(list), NEW rows, NEW shared,
         \A x, y \in list : x[1] = y[1] => x = y,
         \A x \in list : rows[x[1]].status = "pending" \/ x[1] \in shared
  PROVE  HoldOK(s, rows, shared)
<1>1. PICK x \in list :
         s = [Started("runner", "post", x[1], x[2]) EXCEPT !.left = list \ {x}]
  BY DEF RunnerAt
<1>2. s.on = x[1] /\ s.pc = "post" /\ s.left = list \ {x}
  BY <1>1 DEF Started, Idle
<1> QED
  BY <1>2 DEF HoldOK

LEMMA IdleHolds ==
  ASSUME NEW rows, NEW shared
  PROVE  HoldOK(Idle, rows, shared)
  BY DEF HoldOK, Idle

\* A request remains sound while the records it holds keep their status.
LEMMA HoldKept ==
  ASSUME Next, NEW s \in Request, HoldOK(s, rec, overlapped),
         s.pc # "idle" => s.on \in Delivery,
         \A d \in Delivery : Holds(s, d) =>
            rec'[d].status = rec[d].status \/ d \in overlapped'
  PROVE  HoldOK(s, rec', overlapped')
<1>1. overlapped \subseteq overlapped'
  BY OverlapGrows
<1>2. \A x \in s.left : x[1] \in Delivery
  BY DEF Request
<1> QED
  BY <1>1, <1>2 DEF HoldOK, Holds

\* The status of a record a request holds is changed by another one only where
\* the two overlap.
LEMMA OthersHold ==
  ASSUME Inv, HoldInv, Next, NEW v \in Worker, NEW d \in Delivery, Holds(worker[v], d),
         rec'[d].status # rec[d].status, ~ Writes(v, d, rec'[d].status)
  PROVE  d \in overlapped'
<1>1. HoldOK(worker[v], rec, overlapped) /\ worker[v] \in Request
  BY DEF HoldInv, Inv, RequestOK
<1>2. CASE rec[d].status = "absent"
  <2>1. worker[v].pc # "idle"
    BY <1>1, WebhookAssumption DEF HoldOK, Holds, Delivery
  <2>2. d \in overlapped
    BY <1>1, <1>2, <2>1 DEF HoldOK, Holds, Request, Pcs
  <2> QED
    BY <2>2, OverlapGrows
<1>3. CASE rec[d].status # "absent"
  <2>1. PICK w \in Worker : Writes(w, d, rec'[d].status)
    BY <1>3, StatusChanges
  <2>2. w # v /\ worker[w].on = d
    BY <2>1 DEF Writes
  <2>3. d \in overlapped
    BY <2>2 DEF HoldInv, OverlapSeen, Holds
  <2> QED
    BY <2>3, OverlapGrows
<1> QED
  BY <1>2, <1>3

\* A request that does nothing in a step.
LEMMA RestingHolds ==
  ASSUME Inv, HoldInv, Next, NEW v \in Worker, ~ Acts(v)
  PROVE  HoldOK(worker'[v], rec', overlapped')
<1>1. worker'[v] = worker[v]
  BY OneActs
<1>2. \A d : ~ Writes(v, d, rec'[d].status)
  BY DEF Writes, Acts, Proceed
<1>3. /\ worker[v] \in Request /\ HoldOK(worker[v], rec, overlapped)
      /\ worker[v].pc # "idle" => worker[v].on \in Delivery
  BY DEF Inv, RequestOK, HoldInv
<1> QED
  BY <1>1, <1>2, <1>3, OthersHold, HoldKept

\* What a request has left keeps its status while it works on its record.
LEMMA AfterHolds ==
  ASSUME Inv, HoldInv, Next, NEW v \in Worker, Proceed(v) \/ UNCHANGED rec,
         NEW s \in After(v)
  PROVE  HoldOK(s, rec', overlapped')
<1>1. HoldOK(worker[v], rec, overlapped) /\ worker[v] \in Request
  BY DEF HoldInv, Inv, RequestOK
<1>2. CASE worker[v].left = {}
  BY <1>2, IdleHolds DEF After
<1>3. CASE worker[v].left # {}
  <2> DEFINE list == worker[v].left
  <2>1. s \in RunnerAt(list)
    BY <1>3 DEF After
  <2>2. \A x, y \in list : x[1] = y[1] => x = y
    BY <1>1 DEF HoldOK
  <2>3. ASSUME NEW x \in list
        PROVE  rec'[x[1]].status = "pending" \/ x[1] \in overlapped'
    <3>1. rec[x[1]].status = "pending" \/ x[1] \in overlapped
      BY <1>1 DEF HoldOK
    <3>2. x[1] \in Delivery /\ x[1] # worker[v].on
      BY <1>1 DEF HoldOK, Request
    <3>3. rec'[x[1]].status = rec[x[1]].status
      BY <3>2, StatusWritten DEF Writes
    <3> QED
      BY <3>1, <3>3, OverlapGrows
  <2> HIDE DEF list
  <2> QED
    BY <2>1, <2>2, <2>3, RunnerHolds
<1> QED
  BY <1>2, <1>3

LEMMA FreshHolds ==
  ASSUME Inv, Next, NEW w \in Worker,
         \/ ReadDue(w) \/ Crash(w)
         \/ \E d \in Event : Subscribe(w, d)
         \/ \E d \in Replay : ReplayLetter(w, d)
         \/ \E d \in Delivery : PickPending(w, d) \/ PickFailed(w, d)
  PROVE  HoldOK(worker'[w], rec', overlapped')
<1>0. worker \in [Worker -> Request] /\ rec \in [Delivery -> Record]
  BY DEF Inv, Tables
<1>1. ASSUME NEW S, Goto(w, S), \A s \in S : HoldOK(s, rec', overlapped')
      PROVE  HoldOK(worker'[w], rec', overlapped')
  BY <1>0, <1>1 DEF Goto
<1>2. CASE ReadDue(w)
  <2> DEFINE due == {e \in Delivery : rec[e].status = "pending" /\ rec[e].next = "now"}
             list == {<<d, rec[d].count>> : d \in due}
  <2>1. \A x, y \in list : x[1] = y[1] => x = y
    OBVIOUS
  <2>2. \A x \in list : rec'[x[1]].status = "pending"
    BY <1>2 DEF ReadDue
  <2>3. Goto(w, RunnerAt(list))
    BY <1>2 DEF ReadDue
  <2> HIDE DEF list
  <2> QED
    BY <1>1, <2>1, <2>2, <2>3, RunnerHolds
<1>3. CASE Crash(w)
  BY <1>1, <1>3, IdleHolds DEF Crash
<1>4. ASSUME NEW job, NEW pc, NEW d \in Delivery, NEW n,
             Goto(w, {Started(job, pc, d, n)}),
             \/ pc = "post" /\ rec'[d].status = "pending"
             \/ pc = "reset" /\ rec'[d].status = "failed"
      PROVE  HoldOK(worker'[w], rec', overlapped')
  <2>1. HoldOK(Started(job, pc, d, n), rec', overlapped')
    BY <1>4 DEF HoldOK, Started, Idle
  <2> QED
    BY <1>1, <1>4, <2>1
<1>5. ASSUME NEW d \in Delivery, NEW max, createRecord(d, max)
      PROVE  rec'[d].status = "pending"
  BY <1>0, <1>5 DEF createRecord
<1>6. ASSUME NEW d \in Event, Subscribe(w, d) PROVE HoldOK(worker'[w], rec', overlapped')
  BY <1>4, <1>5, <1>6 DEF Subscribe, Delivery
<1>7. ASSUME NEW d \in Replay, ReplayLetter(w, d) PROVE HoldOK(worker'[w], rec', overlapped')
  BY <1>4, <1>5, <1>7 DEF ReplayLetter, Delivery
<1>8. ASSUME NEW d \in Delivery, PickPending(w, d) \/ PickFailed(w, d)
      PROVE  HoldOK(worker'[w], rec', overlapped')
  BY <1>4, <1>8 DEF PickPending, PickFailed
<1> QED
  BY <1>2, <1>3, <1>6, <1>7, <1>8

\* A request that goes on with the record it has in hand.
LEMMA ProceedHolds ==
  ASSUME Inv, HoldInv, Next, NEW w \in Worker, Proceed(w)
  PROVE  HoldOK(worker'[w], rec', overlapped')
<1> DEFINE s == worker[w]
           d == s.on
<1>0. /\ worker \in [Worker -> Request] /\ rec \in [Delivery -> Record] /\ s \in Request
      /\ HoldOK(s, rec, overlapped) /\ (s.pc # "idle" => d \in Delivery)
  BY DEF Inv, Tables, RequestOK, HoldInv
<1>1. ASSUME NEW S, Goto(w, S), \A t \in S : HoldOK(t, rec', overlapped')
      PROVE  HoldOK(worker'[w], rec', overlapped')
  BY <1>0, <1>1 DEF Goto
<1>2. \A t \in After(w) : HoldOK(t, rec', overlapped')
  BY AfterHolds
<1>3. \A e \in Delivery : rec'[e].status = rec[e].status \/ Writes(w, e, rec'[e].status)
  BY StatusWritten
\* On with the same record, in a state that asks the same of it.
<1>4. ASSUME NEW t, t.on = d, t.left = s.left, ~ (Reset(w) \/ markDelivered(w) \/ markFailed(w)),
             s.pc \in {"post", "log", "relog", "note", "mark", "letter", "secondLetter"},
             t.pc \in IF s.pc \in {"letter", "secondLetter"} THEN {"secondLetter"}
                      ELSE {"log", "relog", "note", "mark"}
      PROVE  HoldOK(t, rec', overlapped')
  <2>1. HoldOK(s, rec', overlapped')
    BY <1>0, <1>3, <1>4, HoldKept DEF Writes
  <2> QED
    BY <1>4, <2>1 DEF HoldOK
<1>5. CASE Reset(w)
  BY <1>1, <1>5, IdleHolds DEF Reset, updateRecord
<1>6. CASE Post(w)
  <2>1. worker'[w].on = d /\ worker'[w].left = s.left /\ worker'[w].pc \in {"log", "relog"}
    BY <1>0, <1>6 DEF Post, Request
  <2> QED
    BY <1>4, <1>6, <2>1 DEF Post, Reset, markDelivered, markFailed
<1>7. CASE LogAttempt(w) \/ LogFailure(w)
  <2>1. s.pc \in {"log", "relog"}
    BY <1>7 DEF LogAttempt, LogFailure
  <2> DEFINE again == [s EXCEPT !.pc = "relog", !.answer = "down"]
  <2>2. \A t \in At(w, "note") \cup At(w, "mark") \cup {again} : HoldOK(t, rec', overlapped')
    BY <1>0, <1>4, <2>1 DEF At, Request, Reset, markDelivered, markFailed
  <2>3. \A t \in Returned(w) \cup {again} : HoldOK(t, rec', overlapped')
    BY <2>2, IdleHolds DEF Returned
  <2>4. Goto(w, Returned(w)) \/ Goto(w, {again}) \/ Goto(w, After(w))
    BY <1>7 DEF LogAttempt, LogFailure, updateRecord
  <2> HIDE DEF again
  <2> QED
    BY <1>1, <1>2, <2>3, <2>4
<1>8. CASE LogDelivery(w)
  <2>1. \A t \in At(w, "mark") : HoldOK(t, rec', overlapped')
    BY <1>0, <1>4, <1>8 DEF At, LogDelivery, Request, Reset, markDelivered, markFailed
  <2> QED
    BY <1>1, <1>2, <1>8, <2>1 DEF LogDelivery
<1>9. CASE markDelivered(w) \/ scheduleNext(w)
  BY <1>1, <1>2, <1>9 DEF markDelivered, scheduleNext, updateRecord
<1>10. CASE markFailed(w)
  <2>1. CASE Goto(w, After(w))
    BY <1>1, <1>2, <2>1
  <2>2. CASE ~ Goto(w, After(w))
    <3>1. /\ rec' = [rec EXCEPT ![d] = [rec[d] EXCEPT !.status = "failed", !.next = "none"]]
          /\ Goto(w, Lettering(w, "letter"))
      BY <1>10, <2>2 DEF markFailed, updateRecord
    <3>2. d \in Delivery
      BY <1>0, <1>10 DEF markFailed
    <3>3. rec'[d].status = "failed"
      BY <1>0, <3>1, <3>2 DEF Record
    <3> DEFINE t == [s EXCEPT !.pc = "letter", !.seen = 0, !.answer = "ok"]
    <3>4. t.on = d /\ t.left = s.left /\ t.pc = "letter"
      BY <1>0 DEF Request
    <3>5. \A x \in s.left : rec'[x[1]].status = rec[x[1]].status
      <4>1. \A x \in s.left : x[1] \in Delivery /\ x[1] # d
        BY <1>0 DEF HoldOK, Request
      <4> QED
        BY <1>3, <4>1 DEF Writes
    <3>7. Lettering(w, "letter") = {t}
      BY DEF Lettering
    <3> HIDE DEF t
    <3>6. HoldOK(t, rec', overlapped')
      BY <1>0, <3>3, <3>4, <3>5, OverlapGrows DEF HoldOK
    <3> QED
      BY <1>1, <3>1, <3>6, <3>7
  <2> QED
    BY <2>1, <2>2
<1>11. CASE WriteLetter(w)
  <2>1. \A t \in At(w, "secondLetter") : HoldOK(t, rec', overlapped')
    BY <1>0, <1>4, <1>11 DEF At, WriteLetter, Request, Reset, markDelivered, markFailed
  <2>2. Goto(w, At(w, "secondLetter")) \/ Goto(w, After(w))
    BY <1>11 DEF WriteLetter
  <2> QED
    BY <1>1, <1>2, <2>1, <2>2
<1> QED
  BY <1>5, <1>6, <1>7, <1>8, <1>9, <1>10, <1>11 DEF Proceed

LEMMA HoldStep ==
  ASSUME IsFiniteSet(Worker), Inv, HoldInv, [Next]_vars
  PROVE  HoldInv'
<1>1. CASE UNCHANGED vars
  BY <1>1 DEF vars, HoldInv, OverlapSeen
<1>2. CASE Next
  <2>1. ASSUME NEW w \in Worker PROVE HoldOK(worker'[w], rec', overlapped')
    BY <1>2, RestingHolds, FreshHolds, ProceedHolds DEF Acts
  <2> QED
    BY <1>2, <2>1, OverlapStep DEF HoldInv
<1> QED
  BY <1>1, <1>2

LEMMA HoldInit == Init => HoldInv
<1> SUFFICES ASSUME Init PROVE HoldInv
  OBVIOUS
<1>1. \A w \in Worker : worker[w] = Idle
  BY DEF Init
<1>2. \A w \in Worker : HoldOK(worker[w], rec, overlapped)
  BY <1>1, IdleHolds
<1>3. \A w \in Worker : worker[w].on = None /\ worker[w].left = {}
  BY <1>1 DEF Idle
<1> QED
  BY <1>2, <1>3, WebhookAssumption DEF HoldInv, OverlapSeen, Holds, Delivery

\* Who ends a delivery that was delivered took it before it was.
LEMMA DeliveredStep ==
  ASSUME Inv, HoldInv, Next, NEW d \in Delivery,
         rec[d].status = "delivered", rec'[d].status # "delivered"
  PROVE  d \in overlapped
<1>1. PICK w \in Worker : Writes(w, d, rec'[d].status)
  BY StatusChanges
<1>2. HoldOK(worker[w], rec, overlapped) /\ worker[w].on = d
  BY <1>1 DEF HoldInv, Writes
<1>3. worker[w].pc \in {"reset", "mark"}
  BY <1>1 DEF Writes, Reset, markDelivered, markFailed
<1> QED
  BY <1>2, <1>3 DEF HoldOK

-----------------------------------------------------------------------------

LEMMA Invariant == Spec => []Inv
  BY InitOK, StepOK, PTL DEF Spec

\* Every row, request and history keeps its type (delivery-store.ts, rowToRecord).
THEOREM TypeCorrect == Spec => []TypeOK
  BY Invariant, InvImplies, PTL

\* attempt_count claims no attempt that was not made, for any number of runners,
\* subscribers and dashboards over any number of records (dispatcher.ts, attempt).
THEOREM CountsAreTrue == Spec => []AttemptsWereMade
  BY Invariant, InvImplies, PTL

\* A delivery is given up only for its limit or a final answer, and marked
\* delivered only once it was accepted (retry-runner, dashboard, subscriber).
THEOREM EndsHaveCauses == Spec => []EndedForCause
  BY Invariant, InvImplies, PTL

\* A failed delivery has its dead letter, or the request that failed it is about
\* to write it, or a fault came between the two (dispatcher.ts, markFailed).
THEOREM FailuresAreLettered == Spec => []FailureIsLettered
<1>1. Init => FailureIsLettered
  BY DEF Init, FailureIsLettered
<1>2. Inv /\ FailureIsLettered /\ [Next]_vars => FailureIsLettered'
  BY LettersStep
<1> QED
  BY <1>1, <1>2, Invariant, PTL DEF Spec

\* A delivery that was delivered stays so, or two requests had its record in hand
\* together, for any number of records and of requests, once these are finitely
\* many (dispatcher.ts and retry-runner.ts work from the row they read).
THEOREM DeliveredStays ==
  ASSUME IsFiniteSet(Worker)
  PROVE  Spec => DeliveredForGood
<1>1. Inv /\ HoldInv /\ [Next]_vars => HoldInv'
  BY HoldStep
<1>2. Inv /\ HoldInv /\ [Next]_vars =>
        [\A d \in Delivery : rec[d].status = "delivered" /\ rec'[d].status # "delivered"
            => d \in overlapped]_vars
  BY DeliveredStep
<1> QED
  BY <1>1, <1>2, HoldInit, Invariant, PTL DEF Spec, DeliveredForGood

=============================================================================
