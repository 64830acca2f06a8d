# Stellar-Spend: a TLA+ model of its settlement core

Stellar-Spend moves stablecoins from Stellar to bank accounts. A client pays
into Soroban contracts, a Next.js server bridges the amount and asks Paycrest
to pay out, and webhooks report how it ended. This directory holds TLA+ modules
for the parts of that path where ordering, failure or concurrency decide about
money, TLC configurations that check them on small instances, and proofs, checked
by TLAPS, that hold for every value of the constants. `PROJECT.json` lists
components, runs, mutants (a plausible bug for every checked property), the
source lines behind every definition, hazards, findings and theorems.

Run `tlc -config MCEscrow.cfg MCEscrow` (and likewise the other MC modules), and
`tlapm EscrowProofs.tla` (and likewise the other proof modules).

## Inventory

| component | state | operations | what is hard | what makes it correct |
|---|---|---|---|---|
| Escrow contract, `contracts/escrow` | instance storage: schema, admin, timeout, deposits, next id | init, deposit, release, refund, set_timeout, upgrade, migrate | release and refund overlap after the deadline; the code is swapped under stored v1 records; u32 and u64 limits; the instance entry expires | a deposit is settled at most once, on the terms fixed at creation; a refund waits for the deadline |
| Multisig authority, `contracts/multisig-authority` | signer set, threshold, limit, proposals | init, propose, sign, execute, signer and threshold administration, upgrade, migrate | signatures collected under one signer set are counted under another; windows across migration | one execution, inside the window, by a quorum of that moment; the quorum stays reachable |
| Treasury contract, `contracts/treasury` | fee schedule, a ledger of three balances, running total | initialize, deposit, withdraw, reserve, release, collect, batch, route, schedule, upgrade, migrate | three counters in one record, which fees and routing touch in part; narrowing of i128 tiers; entrypoints between upgrade and migrate | deposits are accounted for; every fee counted; the right tier applies |
| Idempotency keys, `src/lib/idempotency.ts` | one database row per key and route | withIdempotency around a handler | retries race, locks run out, acknowledgements are lost, processes die | one handler at a time; a client gets its own payload's answer |
| Circuit breaker, `src/lib/circuit-breaker.ts` | state, counters, openedAt | execute, onSuccess, onFailure, withTimeout, reset | calls settle in another state than the one that admitted them | opens at the threshold or on a failed probe, and recovers |
| Off-ramp transaction, `transaction-timeout.ts`, `refund/refund-service.ts`, `webhook/providers/paycrest-provider.ts`, `db/dal.ts` | one row of `transactions` | creation by a client, timeout, refund, re-queue, webhook events, client edits of any column | each request reads, awaits and writes without a lock; webhooks come late, twice, out of order | but for what clients write themselves, refunds and re-queues have a cause and the first end stays dated |
| Outgoing webhooks, `src/lib/webhook`, `api/webhooks` | delivery records, dead letters, delivery log | subscriber, retry runner, dashboard retry and attempt, two replay routes | requests overlap on one record and write back what they read long ago; statements fail, processes die | attempts are counted truly; a record ends for a cause, with a dead letter, and every delivery ends |
| Priority queue, `src/lib/priority-queue.ts` | an array kept as a heap, work in flight | enqueue, dequeue, completeInflight, remove, overridePriority | arbitrary removal from a heap, ties, repeated ids, two limits looked at in one place | hands out what goes before all others, loses nothing, bounds the work |
| Status polling, `src/lib/polling` | refs of each hook, locals of each call, the inFlight map | start, stop, socket and tab events, timers | calls share refs and abort each other; wake-ups and close events come late | one request per id; nothing left behind; every promise settles |
| Off-chain multisig mirror, `multisig-settlement.ts` | proposals and signatures in PostgreSQL, one copy of the signers | sync, propose, sign, execute | late answers from the chain, check-then-act over four awaits | a value is handed out on a live quorum; late calls change nothing |
| Rate limiting, `src/lib/rateLimiter.ts`, `cache/client.ts` | the times of a client's requests, one cached value | check | read and write are two awaits apart; the cache answers late or not at all | no denial without cause; excess is forgotten; waiting as told is enough |
| Batches, schedules, merchant payouts, on-ramp orders, ledger entries, indexer, fee manager | see `PROJECT.json` | | unconditional status writes, half-done inserts | not modelled; reason given with each |
| Quotes, rates, KYC, sessions, UI, caches, notifications, infrastructure | see `PROJECT.json` | | | not modelled; reason given with each |

How they interact. The contracts never call each other: the server and wallets
invoke them, so each contract is closed under arbitrary callers, and their
models share only the host's rules (`SorobanHost`). On the server, API routes
run inside `withIdempotency`; calls to upstream services run inside a breaker;
timeouts, refunds and incoming webhooks meet only in the transaction's row;
the client polls that row. Outgoing webhooks, the queue, the mirror and the rate
limiter keep state of their own. These parts share no variable. What one part
leaves to another appears in its model as nondeterminism (a handler may take
effect or not, a webhook may say anything at any time), so no composed module is
needed for the properties stated here.

## Modules

### `SorobanHost`, `Escrow`, `CustodyLedger`, `EscrowProofs`, `MCEscrow`

`SorobanHost` is what the contracts rely on: ledger numbers as u32, the life of
the instance entry and its extension. It is external code, modelled from the
calls the contracts make. An invocation is atomic and one that fails is rolled
back, so an action is one successful call; its guards are the early returns of
the entrypoint. A call is only possible while the entry is alive and the
installed build is the one in the repository (`Invokable`). After `Upgrade` to a
foreign build nothing else of this code runs.

`Escrow` starts from a fresh instance or from the storage of a v1 build, with
every combination of open and settled records; `Migrate` converts them. The
history variables count published events. `CustodyLedger` is the promise: a
deposit is held, then released or refunded, once, and never before its
deadline. `Escrow` implements it under a refinement mapping (`ImplementsCustody`).

### `QuorumDecision`, `Multisig`, `MultisigProofs`, `MCMultisig`

The v1 layout follows the tests' seed (`SignersConfig` under
`DataKey::Signers`). The signer list is a set: both writers of the list refuse
duplicates (the comment at `lib.rs:156` fears that a duplicate would count
twice; counting the entries of a proposal, as the code does, it would make the
threshold unreachable instead). `QuorumDecision` says what an execution is: the
value is handed out once, and at that moment enough distinct current signers
have signed. `Multisig` implements it (`ImplementsQuorum`).

### `Treasury`, `TreasuryProofs`, `MCTreasury`

i128 and u64 are scaled down; additions are checked and a failing call is rolled
back, only the cast of a tier to u64 wraps. The histories are `net`, what was deposited
and not withdrawn, and `charged`, the sum of the fees. `DepositsAccounted`
relates the three balances to them: available and reserved together are `net`,
and the total holds no more than deposits and fees. That available and reserved
make up the total, as a test header demands, is false (see Findings). The seeds of v1 and v2 instances include the zeroed ledger entry.
`_collect_fee_with_schedule` (lib.rs:217-247) has no caller and is left out, as
is the extension of the instance's life, which `Escrow` models.

### `Idempotency`, `RequestGuardProofs`, `MCIdempotency`

The attempts that share one key. The begin transaction runs at READ COMMITTED:
once it holds the row its outcome is one step; without a row, the insert is a
second step that the primary key may refuse. `now` is read before a connection
is free and is therefore older than the step. Every other key's traffic appears
as `Sweep`. `LostAcks` lets a statement commit although the client of the
database sees an error.

### `CircuitBreaker`, `RequestGuardProofs`, `MCCircuitBreaker`

`execute` is two steps, admission and settlement, so any number of calls is in
flight while the state changes. Times are kept as ages up to the limit they are
compared with, which makes the state space finite without a bound on time. A
timer fires at `Timeout` or up to `TimerLag` later. A call remembers the state that
admitted it (`admitted`): `OpensForCause` says that a half-open breaker opens only on
the failure of a call it admitted as a probe. The code does not ask for that
(`onFailure` looks at the present state only); it holds because a call times out
before the waiting time is over, after 15 of 30 and 20 of 60 seconds in the
shared instances. A breaker constructed without a timeout, or with a longer one,
would be opened again by a failure from before it opened. Its definitions, and
those of `RateLimiter`, carry a prefix (`BreakerInit`, `LimiterInit`) because
`RequestGuardProofs` extends both beside `Idempotency`: the three guards a request
passes are proved about in one module.

### `OfframpTx`, `TransactionProofs`, `MCOfframpTx`

One row of `transactions` and the requests that work on it. What a request
writes never depends on what it read beyond the decision to write, so a
request is just its next step; the read and the write are separate steps
because the code awaits the database between them. The row starts as whatever
a client has posted (`Bodies`, stored by `save`), and a client may write any column
at any time (`Edits`), since the schemas of both routes only check types. `Updated` is
`dal.update`, with the CHECK on status and the COALESCE that keeps the first end;
a date that a client sends is written without it. The properties therefore name
what a client's own write excuses (`ClientWrites`): the date, for
`FinalizedForGood`; the status, for `RequeueFollowsTimeout` and
`CompletionUndoneByRaceOnly`. In `RefundFollowsFailure` a client who writes `failed`
is a cause like the others. `raced`
remembers which requests had read the row when it last became completed. Rows
are independent, so one is enough; the bulk variants run the same steps per row. The
clock is read a little before the row in the code; judging the timeout at the
read of the row includes that. Refund reasons are those of `RefundReason`.
`handleStall` is unreachable (`dal.getByUser('*')` matches no row) and is left out.
The failures of a step (a database error, the platform's limit) are `Abort`.

### `WebhookDelivery`, `WebhookDeliveryProofs`, `MCWebhookDelivery`

A record is created by an event (the subscriber then attempts it at once) or by
a replay. Every request (subscriber, runner, dashboard, replays) works from the
row it read before it awaited the receiver: `seen` and `left` are those stale
counts. One action is one statement or one POST. A failed statement may or may
not have changed the row, and a process may die between any two; both count
against `MaxDisturbances`, as do the calls made by hand. Time is the flag `next`:
a scheduled attempt becomes due some day. `overlapped` and `unlettered` record
which deliveries two requests held at once and whose dead letter a fault
swallowed; `FailureIsLettered` and `DeliveredForGood` say what holds otherwise.
Nothing in the repository calls `subscribeEventBus` or emits events yet; the routes
are live. No cron entry calls the runner either (docs/webhook-integration.md:202
says it "can be triggered manually"), so `Drains` assumes somebody keeps calling
it. The alert window, the subscription store and its rate limiter are left out.

### `PriorityQueue`, `PriorityBag`, `TransactionProofs`, `MCPriorityQueue`

The methods are synchronous, so an action is a method. The array is modelled
with its sifting (`bubbleUp`, `sinkDown`), because the hazard lies there: `remove`
cuts an entry out of the middle and `overridePriority` changes one in place, and
both repair the whole array. `PriorityBag` promises what a caller may rely on: a
bag from which only an entry that nothing goes before is handed out. Mapping the
array to the bag of its elements, `PriorityQueue` implements it
(`ServesByPriority`). A `while` or `for` of the code is a `Loop`: a pass (`Lift`,
`Sink`, one call of `sinkDown`) applied a given number of times, as a recursive
function. A pass of `bubbleUp` or `sinkDown` that finds nothing to move changes
nothing, so taking as many passes as the array is long is the same as leaving the
loop there. `QueueInit`, `QueueNext` and `QueueSpec` carry a prefix because
`TransactionProofs` extends this module beside `OfframpTx`.

### `Polling`, `PollingProofs`, `MCPolling`

JavaScript's run-to-completion is kept: a piece of code between two awaits is
one action, what an event wakes goes on before the next event (`Quiet`), and the
owner's `start` and `stop` may come several in one task. The refs of a hook are
shared by all its calls, and `disturbed` marks calls that did not have their hook
to themselves: cleaning up and settling are promised only to the others, see the
divergences.

### `MultisigSettlement`, `MultisigSettlementProofs`, `MCMultisigSettlement`

One action per statement or call of the contract. `config` is the service's one
copy, `since` what the contract has shown since a request began. The reader of
the contract is an argument of the constructor that no code in the repository
implements, so the model has the three kinds there can be: none (nothing is fetched and
the configured signers decide), one that answers as of one moment, and one that
asks for signers and threshold in two calls, between which the contract may
change; the latter can put together an invalid answer, which leaves the old copy in
place. `outdated` marks a request that saw the copy with an answer from before it
began: another request's answer came late, or its own was invalid. `LiveQuorum`
holds for the others, and only for them. A
proposal's value is above the limit or not (`HighValue`). No code outside the tests
constructs the service.

### `RateLimiter`, `RequestGuardProofs`, `MCRateLimiter`

A check takes the time, reads the list, and writes it back with its own time: three
actions, so that checks of one client overlap. The cache value expires after
the window; an expired value holds no time that still counts. A command of the
cache that fails makes `check` throw; if it was done all the same, that is `LetIn`.
`recorded` counts what was let in at each time, and `Recorded` makes these counts a
set that `Cardinality` measures. `spoilt` is when a write last undid one it had not
seen.

## Runs

| run | question | bounds | result |
|---|---|---|---|
| `escrow` | is every deposit settled at most once and on its own terms, whatever the order of calls, upgrades and migration? | two addresses that may each administer and deposit, two ids (the u64 limit is 2), u32 limit 5, timeouts 1-3 with values outside on both sides | passes |
| `multisig` | is a proposal executed once, in its window, by a quorum of that moment? | three addresses, one proposal, lists with duplicates and too long ones | passes |
| `multisig_lapsed` | does a signature die with its signer's removal? | as above, one list | violated |
| `treasury` | are deposits and fees accounted for, does the right tier apply, does migration keep rates? | i128 limit 9, u64 of 8 values, two tiers, rates in quarters | passes |
| `idempotency` | one handler at a time, own answers only? | four attempts, one with another payload; lock 2, answers 3, requests live 1, clock 3 | passes |
| `breaker` | does the breaker open exactly when it should, and recover? | three callers, three failures, two probes, a wait of 3, timeout 1 and timers late by 1 | passes |
| `offramp_tx` | who may end, refund, re-queue and undo a transaction? | three requests, three ways of creating the row, seven edits, timeouts 0, 1, 2, clock to 3 | passes |
| `webhooks` | are attempts counted truly, do records end for a cause and with a dead letter, and does every delivery end? | an event and its replay, two overlapping requests, limits 2 and 1, one fault or call by hand | passes |
| `queue` | does the array serve by priority whatever is removed or changed, and is the work bounded? | five waiting, two ids (so ids repeat), two readings of the clock (so ties occur) | passes |
| `polling` | one live request per id, nothing left behind, does every promise settle? | two calls for one id in one or two hooks, two errors | passes |
| `settlement` | is a value handed out on a live quorum, and are late calls harmless? | two signers of whom one is dropped and taken back, one proposal that needs both, two requests, three kinds of reader | passes |
| `ratelimit` | is nobody denied without cause, and does an excess heal? | three overlapping checks of one client, two requests per window of two ticks, five ticks | passes |

Why the bounds are enough. Deposits, proposals and rows do not influence each
other except through counters and configuration, so two deposits (for the id
counter) and one proposal or row show every interaction; three requests or
callers allow one to read, a second to decide and a third to overtake. Numeric
limits lie a few steps above zero so that both sides of every comparison are
reached. A heap of five
entries has three levels, so sifting goes up and down more than one of them and
a removal may hit an inner position. In `webhooks` one fault or one call by hand
is allowed beside two requests: each hazard listed there needs one. In `ratelimit`
five ticks let a lost time leave the window again. The proofs lift these bounds for
the properties they cover.

In `offramp_tx` a client creates a pending transaction, one that was completed
elsewhere with a date of its own, or one that a timeout failed; its edits mark
progress (bridge started, order placed), write any status, one that the table
refuses, the mark of a timeout, or another date and timestamp. The theorems take
any bodies and edits of the right types. Deadlock is not checked where the system may really
stop: instances can be archived or upgraded for good, the counters of the
models are bounded, and all attempts with a key may have ended.

Fairness. Three runs check liveness.

- `breaker` (`FairSpec`): time passes, timers fire once they are due (the event loop
  does both), and the application keeps calling; the breaker has no timer of its
  own and leaves OPEN only when somebody calls. `Recovers` says that once no call
  fails any more the breaker closes for good, whatever late answers arrive.
- `webhooks`: a request that has started goes on, a back-off runs out, and somebody
  calls the runner again and again. `Drains` says that every delivery ends,
  through overlaps, faults and calls by hand. The receiver is not assumed to answer well.
- `polling`: timers fire, awaiting code goes on, an aborted request rejects, and a
  socket that is being closed closes. The server need not answer, push or hang up,
  so `Settles` speaks of calls that have turned to requests: nothing ends the socket
  phase.

In the contracts and in the other request handlers nothing is retried by the code
itself, so no progress can be promised there.

`idempotency` assumes that a request lives shorter than its lock
(`RequestLimit` < `LockTtl`). `vercel.json` ends requests after 30 or 60 seconds,
and the default lock is five minutes. On a host without such a limit a slow
handler and its retry would run side by side.

## Findings

One violated run is kept; `PROJECT.json` quotes the line it contradicts.

- *multisig_lapsed*: a signature of a removed signer counts again when the address
  is added back, and `execute` succeeds on it; a test's comment calls it dead.

Other divergences between code and documents met while modelling, without a run:

- escrow: a call extends the instance's life by at most 518,400 ledgers (none at all
  while more than 103,680 remain), while the default deadline lies 604,800 ledgers
  ahead, so without a later call the entry is archived before a refund becomes
  possible; lib.rs:67-69 says so only of a timeout near the ceiling.
- treasury: collect_fee adds the fee to `total_balance` alone, and
  route_to_treasury takes the amount out of it alone, so `available + reserved`
  and `total_balance` part, which tests/balance_properties.rs:12 excludes (the
  property tests never collect a fee). Checked as an invariant of the run
  `treasury`, `available + reserved = total_balance` is violated by one
  collect_fee that charges anything; `DepositsAccounted` says what holds instead.
- treasury: deposit, withdraw, reserve and release_reserved never call
  require_current_schema and run on a stale schema, which contracts/README.md:26
  excludes; tier keys of 2^64 and more are narrowed lossily
  (lib.rs:65-68); the default schedule is not monotonic (lib.rs:40-41 and 150-152).
- idempotency: the statements that store or erase an answer do not name the attempt
  that holds the row (idempotency.ts:249): with `LostAcks = TRUE` TLC shows an
  attempt whose acknowledgement was lost erasing another one's row, and a client
  getting another payload's answer (ADR-006:67 and :38). An operation
  whose answer could not be stored is executed again (ADR-006:65).
- breaker: a half-open breaker lets every call through until the first one settles
  (circuit-breaker.ts:83-91), while the header speaks of one probe call
  (circuit-breaker.ts:9); TLC finds two probes under way at once.
- breaker: late failures restart the waiting time of an open breaker
  (circuit-breaker.ts:8).
- off-ramp: a refund, or `cancelTimedOutTransaction`, overwrites a completion that
  arrives between its read and its write, while ADR-014:126 says that completed is
  not eligible; TLC refutes "no refund is written over a completed row" with one
  request and one webhook. `CompletionUndoneByRaceOnly` bounds the harm to such
  races.
- off-ramp: POST and PATCH of transactions take any status, payout status and
  date from a client, over any row; a refunded transaction
  stays `failed` and is refunded again under
  another idempotency key; `payment_order.cancelled` writes a status that the
  table's CHECK refuses (migrations/001:21), so the event is lost; a re-queued
  pending row keeps its `finalized_at`; a transaction refunded during a recovery
  is queued again; the request that dies between timeout and refund leaves a
  failed transaction that nothing refunds.
- webhooks: the runner writes a second dead letter after `markFailed` has written one, and
  neither has the last attempt; runner and dashboard send their retries unsigned;
  the dashboard asks for remaining attempts one attempt late; the dead-letter
  replay ignores the configured limit and never marks its record; one failing
  subscription ends the subscriber's loop for the ones after it.
- queue: the in-flight limit is looked at only by `enqueue`, so `dequeue` passes it; only
  tests release work in flight; `remove` and `override` act on the first of several
  entries with one id.
- polling: a close event of an earlier call's socket empties the ref to the next
  call's, which then nothing closes; `stop` and `start` in one task revive the old
  loop; the one `sleepResolve` ref loses the wake-up of a paused call when calls of a
  hook overlap; the socket phase has no deadline, although usePollPayoutStatus speaks of ten
  minutes at most; a hidden tab ignores the deadline, and one that is hidden before
  `start` is not paused; two calls for one id abort each other and count that as
  failures. No component uses the hooks yet.
- mirror: an answer that left the contract before an execute began may arrive between
  that execute's own synchronisation and its check, and a removed signer's
  signature then counts, which multisig-settlement.ts:207-208 and
  docs/multisig-offchain-onchain-parity.md exclude (TLC shows it when `LiveQuorum`
  drops its exemption), and so does an old copy that is kept because the answer was invalid; `ready` as returned by `sign` counts removed signers; two
  overlapping executes both get the value; a failed UPDATE may leave a proposal
  executed whose value nobody got; `propose` does not synchronise.
- rate limiter: overlapping checks lose each other's times and let more in than
  maxRequests; a cache that fails makes `check` throw, while the class comment says
  it "Falls back gracefully to in-process storage when cache is unavailable", which
  happens only when none is configured; the two tables of limits disagree (build-tx
  10 and 20).
- escrow `dispute.rs` has no caller.

## Proofs

For every value of the constants (under each module's named assumptions):

| module | theorems | inductive invariant |
|---|---|---|
| `EscrowProofs` | TypeCorrect, SettledAtMostOnce, EventsAgree, IdsStayDense, TermsFixed, RefundsWait, EscrowRefinesCustody | types, and agreement of records with published events: "at most one settlement" is not inductive alone, because the code consults the record and not the events |
| `MultisigProofs` | TypeCorrect, QuorumStaysReachable, AuditTrail, HandedOutOnce, WindowStaysClosed, MultisigRefinesQuorum | adds that the signer set is finite, so that sizes can be compared; that the signatures of a record are distinct, so that counting entries counts people; that the stored window is the one creation implies |
| `TreasuryProofs` | TypeCorrect, DepositsAreAccounted, TotalIsComplete, HighestTierIsCharged, RatesSurviveMigration | adds that the schedule is finite, that the ledger exists exactly since initialize, and that the running total is what was charged under every schema |
| `RequestGuardProofs`, idempotency | KeysAreTyped, HandlersAreSingle, AnswersFitPayloads, EffectsPrecedeAnswers | adds that a request is no older than `RequestLimit`, that the row of a running request is the very row it wrote, still locked for everyone (`Owns`), and that a stored answer belongs to the hash beside it |
| `RequestGuardProofs`, breaker | BreakerIsTyped, CountsExactly, OpensWithCause | adds that a half-open breaker has counted fewer successes than close it; for OpensWithCause, that a call admitted before the breaker opened is at least as old as the opening, so that none is left when it turns half open (`ProbeInv`) |
| `RequestGuardProofs`, rate limiter | LimiterIsTyped, DenialsHaveCause, LimitRecovers, WaitsAreEnough | adds that every list, stored or about to be written, maps one to one into the recorded requests; that what was recorded since the last lost write and is still in the window maps one to one into the stored list; and that after a denial, while nobody has written, a time of the stored list leaves the window by `resetAt` |
| `TransactionProofs`, off-ramp transaction | TypeCorrect, RefundsFollowFailures, FirstEndStands, RequeuesFollowTimeouts, CompletionUndoneByRace | adds that a request about to refund or re-queue has a failure or a timeout on record, that whoever may undo a completion had read the row before, and that an end is dated |
| `TransactionProofs`, queue | QueueIsTyped, WorkIsBounded, QueueServesByPriority | adds that the array is in heap order (`Fits`): no child goes before its parent |
| `WebhookDeliveryProofs` | TypeCorrect, CountsAreTrue, EndsHaveCauses, FailuresAreLettered, DeliveredStays | adds what a request in flight knows: the count it read is no more than the POSTs sent, the answer it holds was really given, and its list is no newer than that; for `DeliveredStays`, that a record two requests hold is marked `overlapped`, and that a record which only one holds still is what that request took it for, pending or failed |
| `PollingProofs` | TypeCorrect, RequestsAreSingle, CallsCleanUp | adds that a live request is the one on record for its id, and that a running call is below its limit of failures; for `CallsCleanUp`, that the open socket of a running, undisturbed call is the one in its hook's ref, and that calls which are busy on one hook together are marked disturbed |
| `MultisigSettlementProofs` | TypeCorrect, LateCallsAreHarmless, QuorumIsLive | adds that a settled proposal is marked executed; that a late request past its first read has seen so; that the copy, seen by a request past its synchronisation and not outdated, is something its reader can have made of what the contract has shown since the call |

The argument is the same everywhere: the initial states satisfy the invariant,
one lemma per action (or per group of actions with the same effect) shows that
it is preserved, and the theorems follow from it. The refinements show in
addition that each step is a step of the abstract specification or a stutter.
Every safety property that a passing run checks is stated by a theorem.

Four arguments go beyond that.

- `HighestTierIsCharged`: the scan is a fold over a set, in an order nobody fixes.
  `TreasuryProofs` shows that a finite set of integers has a largest element
  (`MaxExists`, from the well-founded order of finite subsets), that the best tier
  found so far does not depend on the order, and that this closed form solves the
  fold's equation, hence is what the fold computes.
- The idempotency theorems are about time: a request that still runs is younger than
  `RequestLimit`, so its lock has not run out, so nobody takes its row over.
- The limiter's theorems compare a list with a history by counting: an injection from
  list positions to recorded requests gives "no denial without cause", one in the
  other direction gives "the limit holds again". What the filter keeps is shown by
  the least length at which it would fail (`LeastNat`), because the library's induction
  theorems cannot be used here.
- `QueueServesByPriority` is the correctness of a binary heap of any size. Induction
  over the passes of a loop uses a set of numbers in place of a predicate (`Upwards`:
  a set with 0 and the successors of its members has every number, from the
  well-founded order of finite subsets). While an entry sinks, or rises, the array
  is in order but for that entry, whose children do not go before its parent
  (`Sinking`, `Lifting`); a pass moves the exception one level or ends, so enough
  passes leave none. That nothing is lost is a matter of counting: swapping, and
  taking an entry out of the middle or moving the last one to the front, pair the positions of the
  old array with those of the new (`CountMapped`). The proof shows in passing that the second
  loop of `overridePriority` (priority-queue.ts:103-105) never moves anything (`LiftAllIdle`).

What the theorems assume, beyond the assumptions on configuration in each module
(limits are natural numbers and so is the bound of the queue's clock, priorities are
numbers, `Nil` is none of the values it stands apart from):

- HandlersAreSingle, AnswersFitPayloads, EffectsPrecedeAnswers: `RequestLimit < LockTtl` and
  `~LostAcks`. The first is what `vercel.json` and the default lock give (60 seconds and
  five minutes). The second is what the code takes for granted: a statement that is
  reported failed has failed. Without it they are false, see the findings; `KeysAreTyped`
  needs neither.
- OpensWithCause: calls time out (`Timeout > 0`), and with the lag of their timers
  sooner than the waiting time ends (`Timeout + TimerLag < ResetTimeout`). The four
  shared instances wait twice or three times as long as they let a call last. `BreakerIsTyped` and
  `CountsExactly` need neither.
- DeliveredStays: finitely many requests, because whether two hold one record is
  decided by counting them.

Only model-checked: liveness under fairness (`Recovers`, `Drains`, `Settles`,
`StopSettles`), since the prover has no support for ENABLED.

## Plan

What would come next, the most valuable first:

1. `FeeManager`: the pause flag and the cap on rates.
2. Batches, schedules and on-ramp orders, once their statements match the schema
   and the bridge calls are more than stubs.

## Not modelled

Each component left out has its reason in `PROJECT.json`. In short: user
interface and client storage read what the server decides; quotes, rates and
providers are outside services behind the breaker; KYC limits use localStorage,
which does not exist on the server; sessions and keys decide who
may call, and the models let everyone call; the statements of batches and scheduled
transactions contradict the schema and the bridge calls of on-ramp orders are
stubs, so a model would describe states the program cannot be in; a merchant
payout is two rows that nothing works on; caches, monitoring and notifications
are never read back by the settlement path; the compensation state machine and the
dispute handler have no callers.
