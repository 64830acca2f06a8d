------------------------------- MODULE Escrow -------------------------------
(***************************************************************************)
(* The escrow contract (contracts/escrow).  One action is one successful   *)
(* invocation: the host runs an invocation atomically and rolls back every *)
(* write of one that returns Err or traps, so a rejected call is a step    *)
(* that changes nothing and needs no action.  For the same reason the      *)
(* re-entrancy flag is always clear between steps and is not a variable.   *)
(* Entrypoints may be called by anyone, in any order, at any ledger; what  *)
(* require_auth checks is the parameter signer of an action.               *)
(*                                                                         *)
(* bridge_address and the recipient of a release are opaque values that no *)
(* decision reads and are left out.                                        *)
(***************************************************************************)
EXTENDS SorobanHost

CONSTANTS
    Address,         \* accounts and contracts that may sign a call
    Amounts,         \* i128 values a caller may pass
    FeeRates,        \* u32 basis points a caller may pass
    Timeouts,        \* u32 values the authority may pass to set_timeout
    DefaultTimeout,  \* DEFAULT_TIMEOUT_LEDGERS
    MinTimeout,      \* MIN_TIMEOUT_LEDGERS
    MaxTimeout,      \* MAX_TIMEOUT_LEDGERS
    MaxBasisPoints,  \* MAX_BASIS_POINTS
    U64Max,          \* bound of the u64 deposit counter
    Wasm,            \* hashes of uploaded builds
    ThisBuild,       \* the build in the repository
    Nil              \* an absent storage entry

SchemaVersion == 2

DepositId == 0 .. U64Max - 1

EscrowStatus == {"Pending", "Active", "Disputed", "Resolved", "Cancelled"}

\* The record of a schema v1 build.
EscrowDepositV1 ==
    [depositor : Address, amount : Amounts, timestamp : Ledger,
     timeout_ledger : Ledger, released : BOOLEAN, refunded : BOOLEAN]

EscrowDeposit ==
    [depositor : Address, amount : Amounts, timestamp : Ledger,
     timeout_ledger : Ledger, status : EscrowStatus, fee_bps : FeeRates]

ASSUME EscrowAssumption ==
    /\ Amounts \subseteq Int
    /\ FeeRates \subseteq Nat
    /\ 0 \in FeeRates
    /\ Timeouts \subseteq Nat
    /\ DefaultTimeout \in Nat /\ MinTimeout \in Nat /\ MaxTimeout \in Nat
    /\ MinTimeout > 0
    /\ MinTimeout <= DefaultTimeout /\ DefaultTimeout <= MaxTimeout
    /\ MaxBasisPoints \in Nat
    /\ U64Max \in Nat
    /\ ThisBuild \in Wasm
    /\ Nil \notin Address
    /\ Nil \notin EscrowDepositV1
    /\ Nil \notin EscrowDeposit

VARIABLES
    ledger,     \* env.ledger().sequence()
    liveUntil,  \* last ledger of the instance entry's life
    wasm,       \* the installed build
    schema,     \* DataKey::Schema, 0 before init
    admin,      \* DataKey::Admin
    timeout,    \* DataKey::Timeout
    deposits,   \* DataKey::Deposits
    nextId,     \* DataKey::NextId
    released,   \* number of release events published for each deposit
    refunded    \* number of refund events published for each deposit

storage == <<schema, admin, timeout, deposits, nextId>>
published == <<released, refunded>>
vars == <<ledger, liveUntil, wasm, storage, published>>

-----------------------------------------------------------------------------

\* An invocation reaches the code of this repository.
Invokable == wasm = ThisBuild /\ Alive(liveUntil, ledger)

require_current_schema == schema = SchemaVersion

require_admin(signer) == admin # Nil /\ signer = admin

\* Fault: a refunded deposit is not recognised as settled.
Settled_ReleasedOnly(d) == d.status = "Resolved"

Settled(d) == d.status \in {"Resolved", "Cancelled"}

\* Fault: the refund opens one ledger early.
PastDeadline_Early(d) == ledger + 1 >= d.timeout_ledger

PastDeadline(d) == ledger >= d.timeout_ledger

bump_instance_ttl == liveUntil' = ExtendTtl(liveUntil, ledger)

-----------------------------------------------------------------------------

\* Storage of an instance that was never initialised.
FreshInstance ==
    /\ schema = 0
    /\ admin = Nil
    /\ timeout = DefaultTimeout
    /\ nextId = 0
    /\ deposits = [id \in DepositId |-> Nil]
    /\ released = [id \in DepositId |-> 0]
    /\ refunded = [id \in DepositId |-> 0]

\* A record of a v1 build: made at some earlier ledger under the default
\* timeout, and settled at most once.
LegacyDeposits ==
    {[depositor |-> d, amount |-> a, timestamp |-> t,
      timeout_ledger |-> t + DefaultTimeout,
      released |-> how = "released", refunded |-> how = "refunded"] :
         d \in Address, a \in {n \in Amounts : n > 0},
         t \in {n \in 0 .. ledger : n + DefaultTimeout <= U32Max},
         how \in {"open", "released", "refunded"}}

\* Storage left by a v1 build, just after the swap to this build.
LegacyInstance ==
    /\ schema = 1
    /\ admin \in Address
    /\ timeout = DefaultTimeout
    /\ nextId \in 0 .. U64Max
    /\ \E old \in [0 .. nextId - 1 -> LegacyDeposits] :
          deposits = [id \in DepositId |-> IF id < nextId THEN old[id] ELSE Nil]
    /\ released = [id \in DepositId |->
                      IF deposits[id] # Nil /\ deposits[id].released THEN 1 ELSE 0]
    /\ refunded = [id \in DepositId |->
                      IF deposits[id] # Nil /\ deposits[id].refunded THEN 1 ELSE 0]

Init ==
    /\ ledger \in Ledger
    /\ liveUntil = FreshTtl(ledger)
    /\ wasm = ThisBuild
    /\ FreshInstance \/ LegacyInstance

\* Fault: a second init is not rejected.
Initialize_Again(signer) ==
    /\ Invokable
    /\ schema' = SchemaVersion
    /\ admin' = signer
    /\ timeout' = DefaultTimeout
    /\ deposits' = [id \in DepositId |-> Nil]
    /\ nextId' = 0
    /\ bump_instance_ttl
    /\ UNCHANGED <<ledger, wasm, published>>

\* init(settlement_authority)
Initialize(signer) ==
    /\ Invokable
    /\ schema = 0
    /\ schema' = SchemaVersion
    /\ admin' = signer
    /\ timeout' = DefaultTimeout
    /\ deposits' = [id \in DepositId |-> Nil]
    /\ nextId' = 0
    /\ bump_instance_ttl
    /\ UNCHANGED <<ledger, wasm, published>>

\* deposit(depositor, amount, bridge_address, fee_bps)
Deposit(signer, amount, fee_bps) ==
    /\ Invokable
    /\ require_current_schema
    /\ amount > 0
    /\ fee_bps <= MaxBasisPoints
    /\ ledger + timeout <= U32Max
    /\ nextId + 1 <= U64Max
    /\ deposits' = [deposits EXCEPT ![nextId] =
                       [depositor      |-> signer,
                        amount         |-> amount,
                        timestamp      |-> ledger,
                        timeout_ledger |-> ledger + timeout,
                        status         |-> "Pending",
                        fee_bps        |-> fee_bps]]
    /\ nextId' = nextId + 1
    /\ bump_instance_ttl
    /\ UNCHANGED <<ledger, wasm, schema, admin, timeout, published>>

\* release(deposit_id, recipient)
Release(signer, id) ==
    /\ Invokable
    /\ require_current_schema
    /\ require_admin(signer)
    /\ deposits[id] # Nil
    /\ ~Settled(deposits[id])
    /\ deposits' = [deposits EXCEPT ![id].status = "Resolved"]
    /\ released' = [released EXCEPT ![id] = @ + 1]
    /\ bump_instance_ttl
    /\ UNCHANGED <<ledger, wasm, schema, admin, timeout, nextId, refunded>>

\* refund(deposit_id)
Refund(signer, id) ==
    /\ Invokable
    /\ require_current_schema
    /\ deposits[id] # Nil
    /\ signer = deposits[id].depositor
    /\ ~Settled(deposits[id])
    /\ PastDeadline(deposits[id])
    /\ deposits' = [deposits EXCEPT ![id].status = "Cancelled"]
    /\ refunded' = [refunded EXCEPT ![id] = @ + 1]
    /\ bump_instance_ttl
    /\ UNCHANGED <<ledger, wasm, schema, admin, timeout, nextId, released>>

\* Fault: the new timeout also moves the deadline of existing deposits.
SetTimeout_Retroactive(signer, timeout_ledgers) ==
    /\ Invokable
    /\ require_current_schema
    /\ require_admin(signer)
    /\ timeout_ledgers \in MinTimeout .. MaxTimeout
    /\ timeout' = timeout_ledgers
    /\ deposits' = [id \in DepositId |->
                       IF deposits[id] = Nil THEN Nil
                       ELSE [deposits[id] EXCEPT !.timeout_ledger =
                                SaturatingAdd(deposits[id].timestamp, timeout_ledgers)]]
    /\ bump_instance_ttl
    /\ UNCHANGED <<ledger, wasm, schema, admin, nextId, published>>

\* set_timeout(timeout_ledgers)
SetTimeout(signer, timeout_ledgers) ==
    /\ Invokable
    /\ require_current_schema
    /\ require_admin(signer)
    /\ timeout_ledgers \in MinTimeout .. MaxTimeout
    /\ timeout' = timeout_ledgers
    /\ bump_instance_ttl
    /\ UNCHANGED <<ledger, wasm, schema, admin, deposits, nextId, published>>

\* upgrade(new_wasm_hash): storage is untouched by the swap.
Upgrade(signer, new_wasm_hash) ==
    /\ Invokable
    /\ require_admin(signer)
    /\ wasm' = new_wasm_hash
    /\ UNCHANGED <<ledger, liveUntil, storage, published>>

\* Fault: only the released flag survives the conversion.
Migrated_LosesRefund(v1) ==
    [depositor      |-> v1.depositor,
     amount         |-> v1.amount,
     timestamp      |-> v1.timestamp,
     timeout_ledger |-> v1.timeout_ledger,
     status         |-> IF v1.released THEN "Resolved" ELSE "Pending",
     fee_bps        |-> 0]

\* The v2 record a v1 record becomes.
Migrated(v1) ==
    [depositor      |-> v1.depositor,
     amount         |-> v1.amount,
     timestamp      |-> v1.timestamp,
     timeout_ledger |-> v1.timeout_ledger,
     status         |-> IF v1.released THEN "Resolved"
                        ELSE IF v1.refunded THEN "Cancelled"
                        ELSE "Pending",
     fee_bps        |-> 0]

\* migrate(): the one call that runs against an older schema.
Migrate(signer) ==
    /\ Invokable
    /\ require_admin(signer)
    /\ schema = 1
    /\ deposits' = [id \in DepositId |->
                       IF deposits[id] = Nil THEN Nil ELSE Migrated(deposits[id])]
    /\ schema' = SchemaVersion
    /\ bump_instance_ttl
    /\ UNCHANGED <<ledger, wasm, admin, timeout, nextId, published>>

\* The network closes a ledger.
CloseLedger ==
    /\ ledger < U32Max
    /\ ledger' = ledger + 1
    /\ UNCHANGED <<liveUntil, wasm, storage, published>>

\* Anyone pays to restore an archived instance entry.
Restore ==
    /\ ~Alive(liveUntil, ledger)
    /\ liveUntil' = FreshTtl(ledger)
    /\ UNCHANGED <<ledger, wasm, storage, published>>

Next ==
    \/ \E signer \in Address :
          \/ Initialize(signer)
          \/ \E amount \in Amounts, fee_bps \in FeeRates :
                Deposit(signer, amount, fee_bps)
          \/ \E id \in DepositId : Release(signer, id) \/ Refund(signer, id)
          \/ \E t \in Timeouts : SetTimeout(signer, t)
          \/ \E hash \in Wasm : Upgrade(signer, hash)
          \/ Migrate(signer)
    \/ CloseLedger
    \/ Restore

Spec == Init /\ [][Next]_vars

-----------------------------------------------------------------------------

\* Types of the storage entries; the layout of a deposit follows the schema.
TypeOK ==
    /\ ledger \in Ledger
    /\ liveUntil \in Ledger
    /\ wasm \in Wasm
    /\ schema \in 0 .. SchemaVersion
    /\ admin \in Address \cup {Nil}
    /\ timeout \in MinTimeout .. MaxTimeout
    /\ nextId \in 0 .. U64Max
    /\ deposits \in [DepositId -> (IF schema = 1 THEN EscrowDepositV1
                                                 ELSE EscrowDeposit) \cup {Nil}]
    /\ released \in [DepositId -> Nat]
    /\ refunded \in [DepositId -> Nat]

\* Settlement happens off chain against the events, so at most one of them may
\* ever be published for a deposit, whatever the order of release, refund,
\* migration and upgrade (lib.rs: "released or refunded, never both").
AtMostOneSettlement ==
    \A id \in DepositId : released[id] + refunded[id] <= 1

\* The stored record and the published events never disagree: an open record
\* has no event, a settled record has exactly the event of its own kind.
EventsMatchRecords ==
    \A id \in DepositId :
        IF deposits[id] = Nil
        THEN released[id] = 0 /\ refunded[id] = 0
        ELSE IF schema = 1
        THEN /\ released[id] = IF deposits[id].released THEN 1 ELSE 0
             /\ refunded[id] = IF deposits[id].refunded THEN 1 ELSE 0
        ELSE /\ released[id] = IF deposits[id].status = "Resolved" THEN 1 ELSE 0
             /\ refunded[id] = IF deposits[id].status = "Cancelled" THEN 1 ELSE 0

\* The counter hands out every id once: exactly the ids below it are in use,
\* before and after a migration.
IdsAreDense ==
    \A id \in DepositId : deposits[id] # Nil <=> id < nextId

\* The terms of a deposit are fixed when it is made: no later call, not a new
\* timeout and not a migration, changes who deposited how much, moves the
\* refund deadline or drops the record (dispute.rs: set_timeout "cannot
\* retroactively trap funds").
TermsAreFixed ==
    [][\A id \in DepositId :
          deposits[id] # Nil =>
             /\ deposits'[id] # Nil
             /\ deposits'[id].depositor = deposits[id].depositor
             /\ deposits'[id].amount = deposits[id].amount
             /\ deposits'[id].timeout_ledger = deposits[id].timeout_ledger]_vars

\* A refund event is published only once the deadline promised at creation has
\* been reached, and that deadline lies strictly after the creating ledger.
RefundWaitsForDeadline ==
    [][\A id \in DepositId :
          refunded'[id] > refunded[id] =>
             /\ ledger >= deposits[id].timeout_ledger
             /\ deposits[id].timeout_ledger > deposits[id].timestamp]_vars

\* Where a deposit stands, read off the stored record in either layout.
FateOf(d) ==
    IF d = Nil THEN "none"
    ELSE IF schema = 1
    THEN IF d.released THEN "released" ELSE IF d.refunded THEN "refunded" ELSE "open"
    ELSE IF d.status = "Resolved" THEN "released"
    ELSE IF d.status = "Cancelled" THEN "refunded" ELSE "open"

Custody ==
    INSTANCE CustodyLedger WITH
        Id   <- DepositId,
        now  <- ledger,
        fate <- [id \in DepositId |-> FateOf(deposits[id])],
        due  <- [id \in DepositId |->
                    IF deposits[id] = Nil THEN 0 ELSE deposits[id].timeout_ledger]

\* The contract keeps the promise of CustodyLedger: every call is one of its
\* steps or changes nothing it can see, a migration and an upgrade included.
ImplementsCustody == Custody!CSpec

=============================================================================
