------------------------------ MODULE Treasury ------------------------------
(***************************************************************************)
(* The treasury contract (contracts/treasury): a fee schedule by amount, a *)
(* ledger of balances and a running total of collected fees.  One action   *)
(* is one successful invocation; a rejected call changes nothing.  The     *)
(* extension of the instance entry's life is the one modelled in Escrow    *)
(* and is left out: an archived instance refuses every call alike.         *)
(*                                                                         *)
(* i128 and u64 are scaled down to I128Max and U64Size.  Checked           *)
(* arithmetic rejects the call; only the cast of a tier to u64 wraps.      *)
(***************************************************************************)
EXTENDS Integers, FiniteSetsExt, SequencesExt

CONSTANTS
    Address,          \* accounts that may sign a call
    Amounts,          \* i128 amounts a caller may pass
    Batches,          \* lists of amounts a caller may pass
    Tiers,            \* i128 tier thresholds a caller may pass
    FeeRates,         \* u32 basis points a caller may pass
    DefaultSchedule,  \* the tiers seeded at initialize
    MaxSingleFee,     \* MAX_SINGLE_FEE_BP
    MaxFeeTiers,      \* MAX_FEE_TIERS
    MaxBasisPoints,   \* MAX_BASIS_POINTS
    I128Max,          \* i128::MAX
    U64Size,          \* 2^64
    Wasm,             \* hashes of uploaded builds
    ThisBuild,        \* the build in the repository
    Nil               \* an absent storage entry

SchemaVersion == 3

Balance == 0 .. I128Max

TreasuryState == [total_balance : Balance, reserved : Balance, available : Balance]

\* Maps from thresholds to basis points.
Schedules(thresholds, rates) ==
    UNION {[D -> rates] : D \in {S \in SUBSET thresholds :
                                    IsFiniteSet(S) /\ Cardinality(S) <= MaxFeeTiers}}

ASSUME TreasuryAssumption ==
    /\ Amounts \subseteq Int
    /\ Batches \subseteq Seq(Amounts)
    /\ Tiers \subseteq Int
    /\ FeeRates \subseteq Nat
    /\ MaxSingleFee \in Nat
    /\ MaxBasisPoints \in Nat \ {0}
    /\ MaxSingleFee <= MaxBasisPoints
    /\ I128Max \in Nat
    /\ U64Size \in Nat \ {0}
    /\ MaxFeeTiers \in Nat
    /\ DefaultSchedule \in Schedules(0 .. U64Size - 1, 0 .. MaxSingleFee)
    /\ ThisBuild \in Wasm
    /\ Nil \notin Address
    /\ Nil \notin TreasuryState
    /\ Nil \notin Int

VARIABLES
    wasm,            \* the installed build
    schema,          \* DataKey::Schema, 0 before initialize
    admin,           \* DataKey::Admin
    treasury,        \* DataKey::Treasury
    schedule,        \* DataKey::FeeSchedule
    totalCollected,  \* DataKey::TotalCollected
    state,           \* the entry "state", a TreasuryState
    net,             \* history: deposited minus withdrawn
    charged          \* history: every fee charged

storage == <<schema, admin, treasury, schedule, totalCollected, state>>
config == <<wasm, schema, admin, treasury, schedule>>
history == <<net, charged>>
vars == <<wasm, storage, history>>

-----------------------------------------------------------------------------

Invokable == wasm = ThisBuild

require_current_schema == schema = SchemaVersion

require_admin(who) == admin # Nil /\ who = admin

\* BalanceManager::add and sub succeed.
CanAdd(current, amount) == amount >= 0 /\ current + amount \in Balance
CanSub(current, amount) == amount >= 0 /\ amount <= current

\* Fault: a tier starts just above its threshold.
select_tier_Above(tiers, amount) ==
    FoldSet(LAMBDA t, best : IF amount > t /\ t > best.threshold
                             THEN [threshold |-> t, bps |-> tiers[t]] ELSE best,
            [threshold |-> -1, bps |-> 0], DOMAIN tiers).bps

\* The scan keeps the best tier so far; -1 stands for "none yet".
select_tier(tiers, amount) ==
    FoldSet(LAMBDA t, best : IF amount >= t /\ t > best.threshold
                             THEN [threshold |-> t, bps |-> tiers[t]] ELSE best,
            [threshold |-> -1, bps |-> 0], DOMAIN tiers).bps

\* amount * bp / MAX_BASIS_POINTS, and whether the product fits.
basis_points_of(amount, bp) == (amount * bp) \div MaxBasisPoints
FeeFits(amount, bp) == amount >= 0 /\ amount * bp \in Balance

FeeOf(amount) == basis_points_of(amount, select_tier(schedule, amount))
Chargeable(amount) == amount > 0 /\ FeeFits(amount, select_tier(schedule, amount))

\* `as u64`
AsU64(tier) == tier % U64Size

-----------------------------------------------------------------------------

EmptyState == [total_balance |-> 0, reserved |-> 0, available |-> 0]

\* A fresh instance, or the storage of a v1 or v2 build: thresholds are i128
\* that were only checked to be non-negative, and v1 has no running total.
Init ==
    /\ wasm = ThisBuild
    /\ \/ /\ schema = 0
          /\ admin = Nil /\ treasury = Nil
          /\ schedule = << >>
          /\ totalCollected = Nil
          /\ state = Nil
       \/ /\ schema \in {1, 2}
          /\ admin \in Address /\ treasury \in Address
          /\ schedule \in Schedules({t \in Tiers : t >= 0},
                                    {r \in FeeRates : r <= MaxSingleFee})
          /\ totalCollected \in IF schema = 1 THEN {Nil}
                                ELSE Amounts \cap Balance
          /\ state = EmptyState
    /\ net = 0
    /\ charged = IF totalCollected = Nil THEN 0 ELSE totalCollected

\* initialize(admin)
Initialize(who) ==
    /\ Invokable
    /\ state = Nil
    /\ state' = EmptyState
    /\ admin' = who
    /\ treasury' = who
    /\ schedule' = DefaultSchedule
    /\ schema' = SchemaVersion
    /\ totalCollected' = 0
    /\ UNCHANGED <<wasm, history>>

\* deposit(amount): neither the caller nor the schema is checked.
Deposit(amount) ==
    /\ Invokable
    /\ state # Nil
    /\ CanAdd(state.total_balance, amount)
    /\ CanAdd(state.available, amount)
    /\ state' = [state EXCEPT !.total_balance = @ + amount, !.available = @ + amount]
    /\ net' = net + amount
    /\ UNCHANGED <<config, totalCollected, charged>>

\* Fault: the available part is not reduced.
Withdraw_TotalOnly(amount) ==
    /\ Invokable
    /\ state # Nil
    /\ CanSub(state.total_balance, amount)
    /\ state' = [state EXCEPT !.total_balance = @ - amount]
    /\ net' = net - amount
    /\ UNCHANGED <<config, totalCollected, charged>>

\* withdraw(amount)
Withdraw(amount) ==
    /\ Invokable
    /\ state # Nil
    /\ CanSub(state.total_balance, amount)
    /\ CanSub(state.available, amount)
    /\ state' = [state EXCEPT !.total_balance = @ - amount, !.available = @ - amount]
    /\ net' = net - amount
    /\ UNCHANGED <<config, totalCollected, charged>>

\* reserve(amount)
Reserve(amount) ==
    /\ Invokable
    /\ state # Nil
    /\ CanAdd(state.reserved, amount)
    /\ CanSub(state.available, amount)
    /\ state' = [state EXCEPT !.reserved = @ + amount, !.available = @ - amount]
    /\ UNCHANGED <<config, totalCollected, history>>

\* release_reserved(amount)
ReleaseReserved(amount) ==
    /\ Invokable
    /\ state # Nil
    /\ CanSub(state.reserved, amount)
    /\ CanAdd(state.available, amount)
    /\ state' = [state EXCEPT !.reserved = @ - amount, !.available = @ + amount]
    /\ UNCHANGED <<config, totalCollected, history>>

\* set_fee_schedule(amount_tier, basis_points)
SetFeeSchedule(who, amount_tier, basis_points) ==
    LET key == AsU64(amount_tier)
    IN  /\ Invokable
        /\ require_current_schema
        /\ require_admin(who)
        /\ amount_tier >= 0
        /\ basis_points <= MaxSingleFee
        /\ key \in DOMAIN schedule \/ Cardinality(DOMAIN schedule) < MaxFeeTiers
        /\ schedule' = [t \in DOMAIN schedule \cup {key} |->
                           IF t = key THEN basis_points ELSE schedule[t]]
        /\ UNCHANGED <<wasm, schema, admin, treasury, totalCollected, state, history>>

\* remove_fee_tier(amount_tier)
RemoveFeeTier(who, amount_tier) ==
    LET key == AsU64(amount_tier)
    IN  /\ Invokable
        /\ require_current_schema
        /\ require_admin(who)
        /\ amount_tier >= 0
        /\ key \in DOMAIN schedule
        /\ schedule' = [t \in DOMAIN schedule \ {key} |-> schedule[t]]
        /\ UNCHANGED <<wasm, schema, admin, treasury, totalCollected, state, history>>

\* collect_fee(amount, recipient): the fee enters the total, not the available
\* part.
CollectFee(amount) ==
    /\ Invokable
    /\ require_current_schema
    /\ Chargeable(amount)
    /\ state # Nil
    /\ CanAdd(state.total_balance, FeeOf(amount))
    /\ CanAdd(totalCollected, FeeOf(amount))
    /\ state' = [state EXCEPT !.total_balance = @ + FeeOf(amount)]
    /\ totalCollected' = totalCollected + FeeOf(amount)
    /\ charged' = charged + FeeOf(amount)
    /\ UNCHANGED <<config, net>>

\* Fault: only the last fee of a batch is counted.
CollectFeeBatch_LastOnly(amounts) ==
    LET fee == FoldSeq(LAMBDA amount, sum : sum + FeeOf(amount), 0, amounts)
    IN  /\ Invokable
        /\ require_current_schema
        /\ \A i \in DOMAIN amounts : Chargeable(amounts[i])
        /\ fee \in Balance
        /\ CanAdd(totalCollected, fee)
        /\ totalCollected' = totalCollected +
              (IF amounts = << >> THEN 0 ELSE FeeOf(Last(amounts)))
        /\ charged' = charged + fee
        /\ UNCHANGED <<config, state, net>>

\* collect_fee_batch(amounts, recipient): the balances are not touched.
CollectFeeBatch(amounts) ==
    LET fee == FoldSeq(LAMBDA amount, sum : sum + FeeOf(amount), 0, amounts)
    IN  /\ Invokable
        /\ require_current_schema
        /\ \A i \in DOMAIN amounts : Chargeable(amounts[i])
        /\ fee \in Balance                 \* total_fee.checked_add
        /\ CanAdd(totalCollected, fee)
        /\ totalCollected' = totalCollected + fee
        /\ charged' = charged + fee
        /\ UNCHANGED <<config, state, net>>

\* route_to_treasury(amount): anyone may call it.
RouteToTreasury(amount) ==
    /\ Invokable
    /\ require_current_schema
    /\ amount > 0
    /\ treasury # Nil
    /\ state # Nil
    /\ CanSub(state.total_balance, amount)
    /\ state' = [state EXCEPT !.total_balance = @ - amount]
    /\ UNCHANGED <<config, totalCollected, history>>

\* update_treasury(treasury)
UpdateTreasury(who, address) ==
    /\ Invokable
    /\ require_current_schema
    /\ require_admin(who)
    /\ treasury' = address
    /\ UNCHANGED <<wasm, schema, admin, schedule, totalCollected, state, history>>

\* upgrade(new_wasm_hash)
Upgrade(who, new_wasm_hash) ==
    /\ Invokable
    /\ require_admin(who)
    /\ wasm' = new_wasm_hash
    /\ UNCHANGED <<storage, history>>

\* Fault: the compiled-in tiers come back.
Narrowed_Defaults(old) == DefaultSchedule

\* The entries are converted in ascending order: of two thresholds with the
\* same u64 the larger one stays.
Narrowed(old) ==
    [key \in {AsU64(t) : t \in DOMAIN old} |->
        old[Max({t \in DOMAIN old : AsU64(t) = key})]]

\* migrate()
Migrate(who) ==
    /\ Invokable
    /\ require_admin(who)
    /\ schema \in {1, 2}
    /\ totalCollected' = IF schema = 1 THEN 0 ELSE totalCollected
    /\ schedule' = Narrowed(schedule)
    /\ schema' = SchemaVersion
    /\ UNCHANGED <<wasm, admin, treasury, state, history>>

Next ==
    \/ \E amount \in Amounts :
          \/ Deposit(amount) \/ Withdraw(amount)
          \/ Reserve(amount) \/ ReleaseReserved(amount)
          \/ CollectFee(amount) \/ RouteToTreasury(amount)
    \/ \E amounts \in Batches : CollectFeeBatch(amounts)
    \/ \E who \in Address :
          \/ Initialize(who)
          \/ \E tier \in Tiers :
                \/ \E bps \in FeeRates : SetFeeSchedule(who, tier, bps)
                \/ RemoveFeeTier(who, tier)
          \/ \E address \in Address : UpdateTreasury(who, address)
          \/ \E hash \in Wasm : Upgrade(who, hash)
          \/ Migrate(who)

Spec == Init /\ [][Next]_vars

-----------------------------------------------------------------------------

\* Types of the storage entries; v3 thresholds are u64 and no stored rate
\* exceeds the cap.
TypeOK ==
    /\ wasm \in Wasm
    /\ schema \in 0 .. SchemaVersion
    /\ admin \in Address \cup {Nil}
    /\ treasury \in Address \cup {Nil}
    /\ totalCollected \in Balance \cup {Nil}
    /\ state \in TreasuryState \cup {Nil}
    /\ Cardinality(DOMAIN schedule) <= MaxFeeTiers
    /\ \A t \in DOMAIN schedule :
          /\ t \in Nat
          /\ schema = SchemaVersion => t < U64Size
          /\ schedule[t] \in 0 .. MaxSingleFee

\* What depositors may take, now or after a release, is what they deposited and
\* did not withdraw: no fee and no routed amount ever enters or leaves it.  And
\* no call invents value: the total never exceeds those deposits and the fees
\* charged together (deposit, withdraw, reserve, release_reserved, collect_fee,
\* route_to_treasury).
DepositsAccounted ==
    state # Nil =>
       /\ state.available + state.reserved = net
       /\ state.total_balance <= net + charged

\* The running total is the sum of every fee ever charged, singly or in a
\* batch, across migrations (lib.rs TotalCollected, "running total of fees
\* collected").
TotalCountsEveryFee ==
    schema = SchemaVersion => totalCollected = charged

\* The rate is always that of the highest stored tier at or below the amount
\* (lib.rs "fee invariants").
HighestTierApplies ==
    \A amount \in {a \in Amounts : a >= 0} :
       LET below == {t \in DOMAIN schedule : t <= amount}
       IN  select_tier(schedule, amount) = IF below = {} THEN 0
                                           ELSE schedule[Max(below)]

\* A migration leaves every rate that is charged as it was, as long as the
\* thresholds fit in a u64.
MigrationKeepsRates ==
    [][(schema \in {1, 2} /\ schema' = SchemaVersion
        /\ \A t \in DOMAIN schedule : t < U64Size) =>
          \A amount \in {a \in Amounts : a >= 0} :
             select_tier(schedule', amount) = select_tier(schedule, amount)]_vars

=============================================================================
