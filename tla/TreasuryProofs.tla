--------------------------- MODULE TreasuryProofs ---------------------------
(***************************************************************************)
(* Proofs about Treasury for every value of its constants.  The inductive  *)
(* invariant IInv adds to the types that the schedule is finite (so that   *)
(* its size can be counted and a migration finds the largest of two        *)
(* merged thresholds), that the ledger exists exactly when the contract is *)
(* initialized, and that the running total is what was charged under every *)
(* schema.  The rate scan is a fold over the thresholds in an order nobody *)
(* fixes: a closed form is shown to be the only solution of its equation.  *)
(***************************************************************************)
EXTENDS Treasury, FiniteSetTheorems, WellFoundedInduction, TLAPS

ConfigOK ==
    /\ wasm \in Wasm
    /\ schema \in 0 .. SchemaVersion
    /\ admin \in Address \cup {Nil}
    /\ treasury \in Address \cup {Nil}

ScheduleOK(v, tiers) ==
    /\ IsFiniteSet(DOMAIN tiers)
    /\ Cardinality(DOMAIN tiers) <= MaxFeeTiers
    /\ \A t \in DOMAIN tiers :
          /\ t \in Nat
          /\ v = SchemaVersion => t < U64Size
          /\ tiers[t] \in 0 .. MaxSingleFee

\* The ledger is written by initialize and never removed; nothing was deposited
\* or collected before.
LedgerOK ==
    /\ state \in TreasuryState \cup {Nil}
    /\ (state = Nil) <=> (schema = 0)
    /\ net \in Int
    /\ state = Nil => net = 0
    /\ DepositsAccounted

\* Under every schema the running total is what was charged; v1 has none.
TotalOK ==
    /\ totalCollected \in Balance \cup {Nil}
    /\ (totalCollected = Nil) <=> (schema \in {0, 1})
    /\ charged = IF totalCollected = Nil THEN 0 ELSE totalCollected

IInv ==
    /\ ConfigOK
    /\ ScheduleOK(schema, schedule)
    /\ LedgerOK
    /\ TotalOK

-----------------------------------------------------------------------------

\* A finite, nonempty set of integers has a largest element.
LEMMA MaxExists ==
    ASSUME NEW S \in SUBSET Int, IsFiniteSet(S), S # {}
    PROVE  Max(S) \in S /\ \A n \in S : n <= Max(S)
  <1> DEFINE Unbounded == {U \in FiniteSubsetsOf(S) :
                              U # {} /\ ~ \E m \in U : \A n \in U : n <= m}
  <1>1. Unbounded = {}
    <2>1. SUFFICES ASSUME Unbounded # {} PROVE FALSE
      OBVIOUS
    <2>2. IsWellFoundedOn(StrictSubsetOrdering(S), FiniteSubsetsOf(S))
      BY FS_StrictSubsetOrderingWellFounded
    <2>3. PICK U \in Unbounded :
             \A V \in Unbounded : ~ (<<V, U>> \in StrictSubsetOrdering(S))
      <3>1. Unbounded \subseteq FiniteSubsetsOf(S)
        OBVIOUS
      <3> HIDE DEF Unbounded
      <3> QED BY <2>1, <2>2, <3>1, WFMin
    <2>4. PICK x \in U : TRUE
      OBVIOUS
    <2> DEFINE V == U \ {x}
    <2>5. U \in SUBSET S /\ IsFiniteSet(U) /\ V \in SUBSET S /\ IsFiniteSet(V)
      BY FS_Subset DEF FiniteSubsetsOf
    <2>6. V \notin Unbounded
      BY <2>3, <2>5 DEF StrictSubsetOrdering
    <2>7. CASE V = {}
      <3>1. U = {x}
        BY <2>7
      <3> QED BY <3>1, <2>5
    <2>8. CASE V # {}
      <3>1. PICK m \in V : \A n \in V : n <= m
        BY <2>5, <2>6, <2>8 DEF FiniteSubsetsOf
      <3>2. \A n \in U : n <= IF x <= m THEN m ELSE x
        BY <2>5, <3>1
      <3> QED BY <2>5, <3>1, <3>2
    <2> QED BY <2>7, <2>8
  <1>2. \E m \in S : \A n \in S : n <= m
    BY <1>1, FS_Subset DEF FiniteSubsetsOf
  <1>3. \E m \in S : \A n \in S : m >= n
    BY <1>2
  <1> QED BY <1>3 DEF Max

\* A fee that passed the checks is an integer, whatever the rate is.
LEMMA FeeType ==
    ASSUME NEW amount \in Int, Chargeable(amount)
    PROVE  FeeOf(amount) \in Int
  <1> DEFINE product == amount * select_tier(schedule, amount)
  <1>1. product \in Int /\ MaxBasisPoints \in Nat \ {0}
    BY TreasuryAssumption DEF Chargeable, FeeFits, Balance
  <1>2. FeeOf(amount) = product \div MaxBasisPoints
    BY DEF FeeOf, basis_points_of
  <1> HIDE DEF product
  <1> QED BY <1>1, <1>2

LEMMA NilIsNoValue ==
    /\ Nil \notin TreasuryState
    /\ Nil \notin Int
    /\ Nil \notin Balance
    /\ Nil \notin Address
  BY TreasuryAssumption DEF Balance

\* The constants that bound a balance, a schedule and a rate.
LEMMA LedgerBound ==
    /\ I128Max \in Nat
    /\ U64Size \in Nat \ {0}
    /\ MaxFeeTiers \in Nat
    /\ MaxSingleFee \in Nat
    /\ Tiers \subseteq Int
    /\ FeeRates \subseteq Nat
    /\ {r \in FeeRates : r <= MaxSingleFee} \subseteq 0 .. MaxSingleFee
  <1>1. MaxSingleFee \in Nat /\ FeeRates \subseteq Nat
    BY TreasuryAssumption
  <1>2. {r \in FeeRates : r <= MaxSingleFee} \subseteq 0 .. MaxSingleFee
    <2> SUFFICES ASSUME NEW r \in FeeRates, r <= MaxSingleFee
                 PROVE  r \in 0 .. MaxSingleFee
      OBVIOUS
    <2>1. r \in Nat
      BY <1>1
    <2> QED BY <1>1, <2>1
  <1> QED BY <1>2, TreasuryAssumption

-----------------------------------------------------------------------------

LEMMA InitInv == Init => IInv
  <1> SUFFICES ASSUME Init PROVE IInv
    OBVIOUS
  <1> USE DEF Init
  <1>1. ConfigOK
    BY TreasuryAssumption DEF ConfigOK, SchemaVersion
  <1>2. ScheduleOK(schema, schedule)
    <2>1. CASE schedule = << >>
      <3>1. DOMAIN schedule = {}
        BY <2>1
      <3> QED BY <3>1, FS_EmptySet, TreasuryAssumption DEF ScheduleOK
    <2>2. CASE schema \in {1, 2} /\ schedule \in Schedules({t \in Tiers : t >= 0},
                                    {r \in FeeRates : r <= MaxSingleFee})
      <3>1. PICK D \in SUBSET {t \in Tiers : t >= 0} :
               /\ IsFiniteSet(D)
               /\ Cardinality(D) <= MaxFeeTiers
               /\ schedule \in [D -> {r \in FeeRates : r <= MaxSingleFee}]
        BY <2>2 DEF Schedules
      <3>2. schema # SchemaVersion
        BY <2>2 DEF SchemaVersion
      <3>3. DOMAIN schedule = D /\ \A t \in D : t \in Nat
        BY <3>1, LedgerBound
      <3>4. \A t \in D : schedule[t] \in 0 .. MaxSingleFee
        <4>1. \A t \in D : schedule[t] \in {r \in FeeRates : r <= MaxSingleFee}
          BY <3>1
        <4> QED BY <4>1, LedgerBound
      <3> QED BY <3>1, <3>2, <3>3, <3>4 DEF ScheduleOK
    <2> QED BY <2>1, <2>2
  <1>3. TotalOK /\ charged \in Nat
    <2>1. TotalOK
      BY NilIsNoValue DEF TotalOK
    <2> QED BY <2>1, LedgerBound DEF TotalOK, Balance
  <1>4. LedgerOK
    <2>1. EmptyState \in TreasuryState
      BY TreasuryAssumption DEF EmptyState, TreasuryState, Balance
    <2>2. state = EmptyState => state.available + state.reserved = 0
                                /\ state.total_balance = 0
      BY DEF EmptyState
    <2>3. net = 0 /\ 0 <= net + charged
      BY <1>3
    <2> QED BY <2>1, <2>2, <2>3, NilIsNoValue DEF LedgerOK, DepositsAccounted
  <1> QED BY <1>1, <1>2, <1>3, <1>4 DEF IInv

-----------------------------------------------------------------------------

LEMMA ChargedType ==
    ASSUME IInv PROVE charged \in Nat
  BY LedgerBound DEF IInv, TotalOK, Balance

\* Reading the ledger: its three balances, and the two sums the history keeps.
LEMMA LedgerParts ==
    ASSUME IInv, state # Nil
    PROVE  /\ state \in TreasuryState
           /\ state.total_balance \in Balance
           /\ state.reserved \in Balance
           /\ state.available \in Balance
           /\ state.available + state.reserved = net
           /\ state.total_balance <= net + charged
  BY DEF IInv, LedgerOK, DepositsAccounted, TreasuryState

\* Writing the ledger: a record of balances that agrees with the history is
\* all an entrypoint has to leave behind.
LEMMA LedgerWritten ==
    ASSUME NEW total \in Balance, NEW res \in Balance, NEW av \in Balance,
           state' = [total_balance |-> total, reserved |-> res, available |-> av],
           schema' # 0, net' \in Int,
           av + res = net', total <= net' + charged'
    PROVE  LedgerOK'
  <1>1. state' \in TreasuryState
    BY DEF TreasuryState
  <1> QED BY <1>1, NilIsNoValue DEF LedgerOK, DepositsAccounted

\* A call that only writes the ledger.
LEMMA LedgerCall ==
    ASSUME IInv, LedgerOK', UNCHANGED <<config, totalCollected, charged>>
    PROVE  IInv'
  <1>1. ConfigOK' /\ ScheduleOK(schema, schedule)'
    BY DEF IInv, ConfigOK, ScheduleOK, config
  <1>2. TotalOK'
    BY DEF IInv, TotalOK, config
  <1> QED BY <1>1, <1>2 DEF IInv

\* The ledger of a call that leaves it alone and may charge fees.
LEMMA LedgerKept ==
    ASSUME IInv, UNCHANGED <<state, net>>, schema = 0 <=> schema' = 0,
           charged' \in Nat, charged <= charged'
    PROVE  LedgerOK'
  <1>1. CASE state = Nil
    BY <1>1 DEF IInv, LedgerOK, DepositsAccounted
  <1>2. CASE state # Nil
    <2>1. /\ state.total_balance \in Int /\ net \in Int /\ charged \in Nat
          /\ state.total_balance <= net + charged
      BY <1>2, LedgerParts, ChargedType, LedgerBound DEF IInv, LedgerOK, Balance
    <2>2. state.total_balance <= net + charged'
      BY <2>1
    <2>3. state' = state /\ net' = net
      OBVIOUS
    <2> QED BY <1>2, <2>2, <2>3 DEF IInv, LedgerOK, DepositsAccounted
  <1> QED BY <1>1, <1>2

\* A call that touches neither the ledger nor a history.
LEMMA LedgerUntouched ==
    ASSUME IInv, UNCHANGED <<state, net, charged>>, schema = 0 <=> schema' = 0
    PROVE  LedgerOK'
  <1>1. charged' \in Nat /\ charged <= charged'
    BY ChargedType
  <1> QED BY <1>1, LedgerKept

LEMMA DepositInv ==
    ASSUME IInv, NEW amount \in Amounts, Deposit(amount) PROVE IInv'
  <1> USE DEF Deposit, CanAdd
  <1>1. amount \in Int /\ schema # 0 /\ net \in Int /\ charged \in Nat
    BY TreasuryAssumption, ChargedType DEF IInv, LedgerOK
  <1>2. schema' = schema /\ net' = net + amount /\ charged' = charged
    BY DEF config
  <1>3. state' = [total_balance |-> state.total_balance + amount,
                  reserved |-> state.reserved,
                  available |-> state.available + amount]
    BY LedgerParts DEF TreasuryState
  <1>4. /\ state.total_balance + amount \in Balance
        /\ state.reserved \in Balance
        /\ state.available + amount \in Balance
        /\ (state.available + amount) + (state.reserved) = net'
        /\ state.total_balance + amount <= net' + charged'
        /\ net' \in Int /\ schema' # 0
    BY <1>1, <1>2, LedgerParts, LedgerBound DEF Balance
  <1>5. LedgerOK'
    BY <1>3, <1>4, LedgerWritten
  <1> QED BY <1>5, LedgerCall

LEMMA WithdrawInv ==
    ASSUME IInv, NEW amount \in Amounts, Withdraw(amount) PROVE IInv'
  <1> USE DEF Withdraw, CanSub
  <1>1. amount \in Int /\ schema # 0 /\ net \in Int /\ charged \in Nat
    BY TreasuryAssumption, ChargedType DEF IInv, LedgerOK
  <1>2. schema' = schema /\ net' = net - amount /\ charged' = charged
    BY DEF config
  <1>3. state' = [total_balance |-> state.total_balance - amount,
                  reserved |-> state.reserved,
                  available |-> state.available - amount]
    BY LedgerParts DEF TreasuryState
  <1>4. /\ state.total_balance - amount \in Balance
        /\ state.reserved \in Balance
        /\ state.available - amount \in Balance
        /\ (state.available - amount) + (state.reserved) = net'
        /\ state.total_balance - amount <= net' + charged'
        /\ net' \in Int /\ schema' # 0
    BY <1>1, <1>2, LedgerParts, LedgerBound DEF Balance
  <1>5. LedgerOK'
    BY <1>3, <1>4, LedgerWritten
  <1> QED BY <1>5, LedgerCall

LEMMA ReserveInv ==
    ASSUME IInv, NEW amount \in Amounts, Reserve(amount) PROVE IInv'
  <1> USE DEF Reserve, CanAdd, CanSub
  <1>1. amount \in Int /\ schema # 0 /\ net \in Int /\ charged \in Nat
    BY TreasuryAssumption, ChargedType DEF IInv, LedgerOK
  <1>2. schema' = schema /\ net' = net /\ charged' = charged
    BY DEF config, history
  <1>3. state' = [total_balance |-> state.total_balance,
                  reserved |-> state.reserved + amount,
                  available |-> state.available - amount]
    BY LedgerParts DEF TreasuryState
  <1>4. /\ state.total_balance \in Balance
        /\ state.reserved + amount \in Balance
        /\ state.available - amount \in Balance
        /\ (state.available - amount) + (state.reserved + amount) = net'
        /\ state.total_balance <= net' + charged'
        /\ net' \in Int /\ schema' # 0
    BY <1>1, <1>2, LedgerParts, LedgerBound DEF Balance
  <1>5. LedgerOK'
    BY <1>3, <1>4, LedgerWritten
  <1> QED BY <1>5, LedgerCall DEF history

LEMMA ReleaseReservedInv ==
    ASSUME IInv, NEW amount \in Amounts, ReleaseReserved(amount) PROVE IInv'
  <1> USE DEF ReleaseReserved, CanAdd, CanSub
  <1>1. amount \in Int /\ schema # 0 /\ net \in Int /\ charged \in Nat
    BY TreasuryAssumption, ChargedType DEF IInv, LedgerOK
  <1>2. schema' = schema /\ net' = net /\ charged' = charged
    BY DEF config, history
  <1>3. state' = [total_balance |-> state.total_balance,
                  reserved |-> state.reserved - amount,
                  available |-> state.available + amount]
    BY LedgerParts DEF TreasuryState
  <1>4. /\ state.total_balance \in Balance
        /\ state.reserved - amount \in Balance
        /\ state.available + amount \in Balance
        /\ (state.available + amount) + (state.reserved - amount) = net'
        /\ state.total_balance <= net' + charged'
        /\ net' \in Int /\ schema' # 0
    BY <1>1, <1>2, LedgerParts, LedgerBound DEF Balance
  <1>5. LedgerOK'
    BY <1>3, <1>4, LedgerWritten
  <1> QED BY <1>5, LedgerCall DEF history

LEMMA RouteToTreasuryInv ==
    ASSUME IInv, NEW amount \in Amounts, RouteToTreasury(amount) PROVE IInv'
  <1> USE DEF RouteToTreasury, CanSub
  <1>1. amount \in Int /\ schema # 0 /\ net \in Int /\ charged \in Nat
    BY TreasuryAssumption, ChargedType DEF IInv, LedgerOK
  <1>2. schema' = schema /\ net' = net /\ charged' = charged
    BY DEF config, history
  <1>3. state' = [total_balance |-> state.total_balance - amount,
                  reserved |-> state.reserved,
                  available |-> state.available]
    BY LedgerParts DEF TreasuryState
  <1>4. /\ state.total_balance - amount \in Balance
        /\ state.reserved \in Balance
        /\ state.available \in Balance
        /\ (state.available) + (state.reserved) = net'
        /\ state.total_balance - amount <= net' + charged'
        /\ net' \in Int /\ schema' # 0
    BY <1>1, <1>2, LedgerParts, LedgerBound DEF Balance
  <1>5. LedgerOK'
    BY <1>3, <1>4, LedgerWritten
  <1> QED BY <1>5, LedgerCall DEF history

\* The fee is bounded by the two sums the guards check.
LEMMA CollectFeeInv ==
    ASSUME IInv, NEW amount \in Amounts, CollectFee(amount) PROVE IInv'
  <1> DEFINE fee == FeeOf(amount)
  <1>1. fee \in Int
    BY FeeType, TreasuryAssumption DEF CollectFee
  <1>2. /\ schema' = schema /\ net' = net /\ charged' = charged + fee
        /\ state # Nil /\ fee >= 0
        /\ state.total_balance + fee \in Balance
        /\ state' = [state EXCEPT !.total_balance = @ + fee]
        /\ totalCollected + fee \in Balance
        /\ totalCollected' = totalCollected + fee
        /\ charged' = charged + fee
        /\ schema = SchemaVersion
        /\ UNCHANGED config
    BY DEF CollectFee, CanAdd, config, require_current_schema
  <1> HIDE DEF fee
  <1>3. schema # 0 /\ net \in Int /\ charged \in Nat
    BY <1>2, ChargedType DEF IInv, LedgerOK
  <1>4. state' = [total_balance |-> state.total_balance + fee,
                  reserved |-> state.reserved,
                  available |-> state.available]
    BY <1>2, LedgerParts DEF TreasuryState
  <1>5. /\ state.available + state.reserved = net'
        /\ state.total_balance + fee <= net' + charged'
        /\ net' \in Int /\ schema' # 0
    BY <1>1, <1>2, <1>3, LedgerParts, LedgerBound DEF Balance
  <1>6. LedgerOK'
    BY <1>2, <1>4, <1>5, LedgerParts, LedgerWritten
  <1>7. TotalOK'
    <2>1. totalCollected # Nil /\ charged = totalCollected
      BY <1>2 DEF IInv, TotalOK, SchemaVersion
    <2> QED BY <1>2, <2>1, NilIsNoValue DEF TotalOK, SchemaVersion
  <1>8. ConfigOK' /\ ScheduleOK(schema, schedule)'
    BY <1>2 DEF IInv, ConfigOK, ScheduleOK, config
  <1> QED BY <1>6, <1>7, <1>8 DEF IInv

LEMMA CollectFeeBatchInv ==
    ASSUME IInv, NEW amounts \in Batches, CollectFeeBatch(amounts) PROVE IInv'
  <1> DEFINE fee == FoldSeq(LAMBDA amount, sum : sum + FeeOf(amount), 0, amounts)
  <1>1. /\ schema = SchemaVersion
        /\ totalCollected + fee \in Balance
        /\ totalCollected' = totalCollected + fee
        /\ charged' = charged + fee
        /\ fee \in Balance
        /\ UNCHANGED <<config, state, net>>
    BY DEF CollectFeeBatch, CanAdd, require_current_schema
  <1> HIDE DEF fee
  <1>2. TotalOK'
    <2>1. totalCollected # Nil /\ charged = totalCollected
      BY <1>1 DEF IInv, TotalOK, SchemaVersion
    <2> QED BY <1>1, <2>1, NilIsNoValue DEF TotalOK, SchemaVersion, config
  <1>3. ConfigOK' /\ ScheduleOK(schema, schedule)'
    BY <1>1 DEF IInv, ConfigOK, ScheduleOK, config
  <1>4. charged' \in Nat /\ charged <= charged'
    BY <1>1, ChargedType, LedgerBound DEF Balance
  <1>5. LedgerOK'
    BY <1>1, <1>4, LedgerKept DEF config
  <1> QED BY <1>2, <1>3, <1>5 DEF IInv

LEMMA InitializeInv ==
    ASSUME IInv, NEW who \in Address, Initialize(who) PROVE IInv'
  <1> USE DEF Initialize, history
  <1>1. ConfigOK'
    BY DEF IInv, ConfigOK, SchemaVersion
  <1>2. ScheduleOK(schema, schedule)'
    <2>1. PICK D \in SUBSET (0 .. U64Size - 1) :
             /\ IsFiniteSet(D)
             /\ Cardinality(D) <= MaxFeeTiers
             /\ DefaultSchedule \in [D -> 0 .. MaxSingleFee]
      BY TreasuryAssumption DEF Schedules
    <2>2. \A t \in D : t \in Nat /\ t < U64Size
      BY <2>1, LedgerBound
    <2> QED BY <2>1, <2>2 DEF ScheduleOK
  <1>3. LedgerOK'
    <2>1. net' = 0 /\ charged' = 0 /\ schema' # 0
      BY DEF IInv, LedgerOK, TotalOK, SchemaVersion
    <2>2. state' = [total_balance |-> 0, reserved |-> 0, available |-> 0]
      BY DEF EmptyState
    <2>3. 0 \in Balance
      BY LedgerBound DEF Balance
    <2>4. 0 + 0 = net' /\ 0 <= net' + charged' /\ net' \in Int
      BY <2>1
    <2> QED BY <2>1, <2>2, <2>3, <2>4, LedgerWritten
  <1>4. TotalOK'
    <2>1. schema = 0
      BY DEF IInv, LedgerOK
    <2>2. charged = 0
      BY <2>1 DEF IInv, TotalOK
    <2> QED BY <2>2, NilIsNoValue, LedgerBound DEF TotalOK, SchemaVersion, Balance
  <1> QED BY <1>1, <1>2, <1>3, <1>4 DEF IInv

\* A call that only writes the schedule of a current contract.
LEMMA ScheduleCall ==
    ASSUME IInv, ScheduleOK(schema, schedule)',
           UNCHANGED <<wasm, schema, admin, treasury, totalCollected, state, history>>
    PROVE  IInv'
  <1> USE DEF history
  <1>1. ConfigOK' /\ TotalOK'
    BY DEF IInv, ConfigOK, TotalOK
  <1>2. LedgerOK'
    BY LedgerUntouched
  <1> QED BY <1>1, <1>2 DEF IInv

\* The cast to u64 wraps into the range of the type.
LEMMA AsU64Type ==
    ASSUME NEW t \in Int
    PROVE  AsU64(t) \in Nat /\ AsU64(t) < U64Size
  BY LedgerBound DEF AsU64

LEMMA SetFeeScheduleInv ==
    ASSUME IInv, NEW who \in Address, NEW tier \in Tiers, NEW bps \in FeeRates,
           SetFeeSchedule(who, tier, bps)
    PROVE  IInv'
  <1> DEFINE key == AsU64(tier)
  <1>1. /\ bps <= MaxSingleFee
        /\ key \in DOMAIN schedule \/ Cardinality(DOMAIN schedule) < MaxFeeTiers
        /\ schedule' = [t \in DOMAIN schedule \cup {key} |->
                           IF t = key THEN bps ELSE schedule[t]]
        /\ UNCHANGED <<wasm, schema, admin, treasury, totalCollected, state, history>>
    BY DEF SetFeeSchedule
  <1>2. key \in Nat /\ key < U64Size
    BY AsU64Type, LedgerBound
  <1>3. bps \in 0 .. MaxSingleFee
    BY <1>1, LedgerBound
  <1> HIDE DEF key
  <1>4. /\ IsFiniteSet(DOMAIN schedule)
        /\ Cardinality(DOMAIN schedule) \in Nat
        /\ Cardinality(DOMAIN schedule) <= MaxFeeTiers
    BY FS_CardinalityType DEF IInv, ScheduleOK
  <1>5. /\ IsFiniteSet(DOMAIN schedule \cup {key})
        /\ Cardinality(DOMAIN schedule \cup {key}) <= MaxFeeTiers
    <2>1. CASE key \in DOMAIN schedule
      <3>1. DOMAIN schedule \cup {key} = DOMAIN schedule
        BY <2>1
      <3> QED BY <3>1, <1>4
    <2>2. CASE key \notin DOMAIN schedule
      <3>1. /\ IsFiniteSet(DOMAIN schedule \cup {key})
            /\ Cardinality(DOMAIN schedule \cup {key}) = Cardinality(DOMAIN schedule) + 1
        BY <2>2, <1>4, FS_AddElement
      <3>2. Cardinality(DOMAIN schedule) < MaxFeeTiers
        BY <1>1, <2>2
      <3> QED BY <1>4, <3>1, <3>2, LedgerBound
    <2> QED BY <2>1, <2>2
  <1>6. \A t \in DOMAIN schedule' :
           /\ t \in Nat
           /\ schema = SchemaVersion => t < U64Size
           /\ schedule'[t] \in 0 .. MaxSingleFee
    BY <1>1, <1>2, <1>3 DEF IInv, ScheduleOK
  <1>7. ScheduleOK(schema, schedule)'
    BY <1>1, <1>5, <1>6 DEF ScheduleOK
  <1> QED BY <1>1, <1>7, ScheduleCall

LEMMA RemoveFeeTierInv ==
    ASSUME IInv, NEW who \in Address, NEW tier \in Tiers, RemoveFeeTier(who, tier)
    PROVE  IInv'
  <1> DEFINE key == AsU64(tier)
  <1>1. /\ key \in DOMAIN schedule
        /\ schedule' = [t \in DOMAIN schedule \ {key} |-> schedule[t]]
        /\ UNCHANGED <<wasm, schema, admin, treasury, totalCollected, state, history>>
    BY DEF RemoveFeeTier
  <1> HIDE DEF key
  <1>2. /\ IsFiniteSet(DOMAIN schedule)
        /\ Cardinality(DOMAIN schedule) \in Nat
        /\ Cardinality(DOMAIN schedule) <= MaxFeeTiers
    BY FS_CardinalityType DEF IInv, ScheduleOK
  <1>3. /\ IsFiniteSet(DOMAIN schedule \ {key})
        /\ Cardinality(DOMAIN schedule \ {key}) <= MaxFeeTiers
    <2>1. /\ IsFiniteSet(DOMAIN schedule \ {key})
          /\ Cardinality(DOMAIN schedule \ {key}) = Cardinality(DOMAIN schedule) - 1
      BY <1>1, <1>2, FS_RemoveElement
    <2> QED BY <1>2, <2>1, LedgerBound
  <1>4. ScheduleOK(schema, schedule)'
    BY <1>1, <1>3 DEF IInv, ScheduleOK
  <1> QED BY <1>1, <1>4, ScheduleCall

LEMMA UpdateTreasuryInv ==
    ASSUME IInv, NEW who \in Address, NEW address \in Address,
           UpdateTreasury(who, address)
    PROVE  IInv'
  <1> USE DEF UpdateTreasury, history
  <1>1. ConfigOK' /\ ScheduleOK(schema, schedule)' /\ TotalOK'
    BY DEF IInv, ConfigOK, ScheduleOK, TotalOK
  <1>2. LedgerOK'
    BY LedgerUntouched
  <1> QED BY <1>1, <1>2 DEF IInv

LEMMA UpgradeInv ==
    ASSUME IInv, NEW who \in Address, NEW hash \in Wasm, Upgrade(who, hash)
    PROVE  IInv'
  <1> USE DEF Upgrade, storage, history
  <1>1. ConfigOK' /\ ScheduleOK(schema, schedule)' /\ TotalOK'
    BY DEF IInv, ConfigOK, ScheduleOK, TotalOK
  <1>2. LedgerOK'
    BY LedgerUntouched
  <1> QED BY <1>1, <1>2 DEF IInv

\* A migration merges thresholds with the same u64 and invents none: the new
\* schedule is no larger, and each of its rates is one of the old.
LEMMA NarrowedOK ==
    ASSUME NEW old, ScheduleOK(schema, old)
    PROVE  ScheduleOK(SchemaVersion, Narrowed(old))
  <1> DEFINE D == DOMAIN old
             E == {AsU64(t) : t \in D}
             Same(key) == {t \in D : AsU64(t) = key}
  <1>1. /\ IsFiniteSet(D) /\ Cardinality(D) <= MaxFeeTiers
        /\ D \subseteq Nat
        /\ \A t \in D : old[t] \in 0 .. MaxSingleFee
    BY DEF ScheduleOK
  <1>2. /\ IsFiniteSet(E) /\ Cardinality(E) <= Cardinality(D)
        /\ Cardinality(E) \in Nat /\ Cardinality(D) \in Nat
    <2> DEFINE f == [t \in D |-> AsU64(t)]
    <2>1. f \in Surjection(D, E)
      BY DEF Surjection
    <2> HIDE DEF f, D, E
    <2> QED BY <1>1, <2>1, FS_Surjection, FS_CardinalityType
  <1>3. ASSUME NEW key \in E
        PROVE  key \in Nat /\ key < U64Size /\ old[Max(Same(key))] \in 0 .. MaxSingleFee
    <2>1. PICK t \in D : key = AsU64(t)
      OBVIOUS
    <2>2. key \in Nat /\ key < U64Size
      BY <1>1, <2>1, AsU64Type
    <2>3. /\ Same(key) \in SUBSET Int /\ Same(key) # {} /\ Same(key) \subseteq D
      BY <1>1, <2>1
    <2>4. IsFiniteSet(Same(key))
      BY <1>1, <2>3, FS_Subset
    <2>5. Max(Same(key)) \in Same(key)
      <3> HIDE DEF Same
      <3> QED BY <2>3, <2>4, MaxExists
    <2> QED BY <1>1, <2>2, <2>3, <2>5
  <1>4. Narrowed(old) = [key \in E |-> old[Max(Same(key))]]
    BY DEF Narrowed
  <1> HIDE DEF D, E, Same
  <1>5. DOMAIN Narrowed(old) = E /\ \A key \in E : Narrowed(old)[key] = old[Max(Same(key))]
    BY <1>4
  <1>6. Cardinality(E) <= MaxFeeTiers
    BY <1>1, <1>2, LedgerBound
  <1> QED BY <1>2, <1>3, <1>5, <1>6 DEF ScheduleOK

LEMMA MigrateInv ==
    ASSUME IInv, NEW who \in Address, Migrate(who) PROVE IInv'
  <1> USE DEF Migrate, history
  <1>1. ConfigOK'
    BY DEF IInv, ConfigOK, SchemaVersion
  <1>2. ScheduleOK(schema, schedule)'
    <2>1. ScheduleOK(SchemaVersion, Narrowed(schedule))
      BY NarrowedOK DEF IInv
    <2> QED BY <2>1
  <1>3. LedgerOK'
    BY LedgerUntouched DEF SchemaVersion
  <1>4. TotalOK'
    <2>1. CASE schema = 1
      <3>1. totalCollected = Nil /\ charged = 0
        BY <2>1 DEF IInv, TotalOK
      <3> QED BY <2>1, <3>1, NilIsNoValue, LedgerBound DEF TotalOK, SchemaVersion, Balance
    <2>2. CASE schema = 2
      <3>1. totalCollected # Nil /\ totalCollected \in Balance /\ charged = totalCollected
        BY <2>2 DEF IInv, TotalOK
      <3> QED BY <2>2, <3>1 DEF TotalOK, SchemaVersion
    <2> QED BY <2>1, <2>2
  <1> QED BY <1>1, <1>2, <1>3, <1>4 DEF IInv

LEMMA NextInv == IInv /\ [Next]_vars => IInv'
  <1> SUFFICES ASSUME IInv, [Next]_vars PROVE IInv'
    OBVIOUS
  <1>1. CASE \E amount \in Amounts :
                \/ Deposit(amount) \/ Withdraw(amount)
                \/ Reserve(amount) \/ ReleaseReserved(amount)
                \/ CollectFee(amount) \/ RouteToTreasury(amount)
    BY <1>1, DepositInv, WithdrawInv, ReserveInv, ReleaseReservedInv, CollectFeeInv,
       RouteToTreasuryInv
  <1>2. CASE \E amounts \in Batches : CollectFeeBatch(amounts)
    BY <1>2, CollectFeeBatchInv
  <1>3. CASE \E who \in Address :
                \/ Initialize(who)
                \/ \E tier \in Tiers :
                      \/ \E bps \in FeeRates : SetFeeSchedule(who, tier, bps)
                      \/ RemoveFeeTier(who, tier)
                \/ \E address \in Address : UpdateTreasury(who, address)
                \/ \E hash \in Wasm : Upgrade(who, hash)
                \/ Migrate(who)
    BY <1>3, InitializeInv, SetFeeScheduleInv, RemoveFeeTierInv, UpdateTreasuryInv,
       UpgradeInv, MigrateInv
  <1>4. CASE UNCHANGED vars
    BY <1>4 DEF vars, storage, history, IInv, ConfigOK, ScheduleOK, LedgerOK,
                DepositsAccounted, TotalOK
  <1> QED BY <1>1, <1>2, <1>3, <1>4 DEF Next

-----------------------------------------------------------------------------
(* The rate scan is a fold over the thresholds.  The closed form Best       *)
(* solves the equation of the fold, and on finite sets no other function    *)
(* does.                                                                    *)

NoTier == [threshold |-> -1, bps |-> 0]

\* One step of the scan.
Taken(tiers, amount, t, best) ==
    IF amount >= t /\ t > best.threshold
    THEN [threshold |-> t, bps |-> tiers[t]] ELSE best

\* f is the fold of Taken over the sets of thresholds.
Scans(f, tiers, amount) ==
    f = [s \in SUBSET DOMAIN tiers |->
           IF s = {} THEN NoTier
           ELSE LET t == CHOOSE x \in s : TRUE
                IN  Taken(tiers, amount, t, f[s \ {t}])]

\* The highest threshold of s at or below the amount.
Best(tiers, amount, s) ==
    LET below == {t \in s : t <= amount}
    IN  IF below = {} THEN NoTier
        ELSE [threshold |-> Max(below), bps |-> tiers[Max(below)]]

LEMMA ScanFolds ==
    ASSUME NEW tiers, NEW amount
    PROVE  select_tier(tiers, amount) = (CHOOSE f : Scans(f, tiers, amount))[DOMAIN tiers].bps
  BY DEF select_tier, FoldSet, MapThenFoldSet, Scans, Taken, NoTier

\* One threshold more.
LEMMA BestStep ==
    ASSUME NEW tiers, NEW amount \in Int, NEW s \in SUBSET Nat, IsFiniteSet(s), NEW t \in s
    PROVE  Best(tiers, amount, s) = Taken(tiers, amount, t, Best(tiers, amount, s \ {t}))
  <1> DEFINE low == {u \in s : u <= amount}
             rest == {u \in s \ {t} : u <= amount}
  <1>1. /\ low \in SUBSET Int /\ rest \in SUBSET Int
        /\ IsFiniteSet(low) /\ IsFiniteSet(rest)
        /\ low = IF t <= amount THEN rest \cup {t} ELSE rest
        /\ t \notin rest
    <2>1. low \subseteq s /\ rest \subseteq s
      OBVIOUS
    <2>2. IsFiniteSet(low) /\ IsFiniteSet(rest)
      BY <2>1, FS_Subset
    <2>3. low = IF t <= amount THEN rest \cup {t} ELSE rest
      OBVIOUS
    <2>4. s \subseteq Int
      OBVIOUS
    <2> QED BY <2>1, <2>2, <2>3, <2>4
  <1>2. /\ Best(tiers, amount, s) = IF low = {} THEN NoTier
                ELSE [threshold |-> Max(low), bps |-> tiers[Max(low)]]
        /\ Best(tiers, amount, s \ {t}) = IF rest = {} THEN NoTier
                ELSE [threshold |-> Max(rest), bps |-> tiers[Max(rest)]]
    BY DEF Best
  <1>3. t \in Nat
    OBVIOUS
  <1>4. low # {} => Max(low) \in low /\ \A u \in low : u <= Max(low)
    <2> HIDE DEF low
    <2> QED BY <1>1, MaxExists
  <1>5. rest # {} => Max(rest) \in rest /\ \A u \in rest : u <= Max(rest)
    <2> HIDE DEF rest
    <2> QED BY <1>1, MaxExists
  <1>6. rest \subseteq Nat /\ low \subseteq Nat
    OBVIOUS
  <1> HIDE DEF low, rest
  <1>7. CASE ~ (t <= amount)
    <2>1. low = rest /\ ~ (amount >= t)
      BY <1>1, <1>3, <1>7
    <2> QED BY <1>2, <2>1 DEF Taken
  <1>8. CASE t <= amount /\ rest = {}
    <2>1. low = {t} /\ Max(low) = t
      BY <1>1, <1>4, <1>8
    <2>2. amount >= t /\ t > NoTier.threshold
      BY <1>3, <1>8 DEF NoTier
    <2> QED BY <1>2, <1>8, <2>1, <2>2 DEF Taken
  <1>9. CASE t <= amount /\ rest # {}
    <2> DEFINE m == Max(rest)
    <2>1. low = rest \cup {t} /\ amount >= t /\ m \in Nat /\ m # t /\ m \in low /\ t \in low
      BY <1>1, <1>3, <1>5, <1>6, <1>9
    <2>2. Max(low) = IF t > m THEN t ELSE m
      <3> DEFINE n == Max(low)
      <3>1. n \in low /\ n \in Nat /\ t <= n /\ m <= n
        BY <1>4, <1>6, <2>1
      <3>2. n # t => n <= m
        BY <1>5, <1>9, <2>1, <3>1
      <3>3. n = IF t > m THEN t ELSE m
        <4> HIDE DEF n, m
        <4> QED BY <1>3, <2>1, <3>1, <3>2
      <3> QED BY <3>3
    <2>3. Best(tiers, amount, s \ {t}) = [threshold |-> m, bps |-> tiers[m]]
      BY <1>2, <1>9
    <2>4. Best(tiers, amount, s) = [threshold |-> Max(low), bps |-> tiers[Max(low)]]
      BY <1>2, <2>1
    <2> HIDE DEF m
    <2> QED BY <2>1, <2>2, <2>3, <2>4 DEF Taken
  <1> QED BY <1>7, <1>8, <1>9

LEMMA BestScans ==
    ASSUME NEW tiers, NEW amount \in Int, DOMAIN tiers \subseteq Nat, IsFiniteSet(DOMAIN tiers)
    PROVE  Scans([s \in SUBSET DOMAIN tiers |-> Best(tiers, amount, s)], tiers, amount)
  <1> DEFINE g == [s \in SUBSET DOMAIN tiers |-> Best(tiers, amount, s)]
             Picked(s) == CHOOSE x \in s : TRUE
  <1>1. ASSUME NEW s \in SUBSET DOMAIN tiers
        PROVE  g[s] = IF s = {} THEN NoTier
                      ELSE Taken(tiers, amount, Picked(s), g[s \ {Picked(s)}])
    <2>1. CASE s = {}
      BY <2>1 DEF Best
    <2>2. CASE s # {}
      <3>1. Picked(s) \in s /\ s \in SUBSET Nat /\ IsFiniteSet(s)
        BY <2>2, FS_Subset
      <3>2. Best(tiers, amount, s)
               = Taken(tiers, amount, Picked(s), Best(tiers, amount, s \ {Picked(s)}))
        <4> HIDE DEF Picked
        <4> QED BY <3>1, BestStep
      <3>3. g[s] = Best(tiers, amount, s)
            /\ g[s \ {Picked(s)}] = Best(tiers, amount, s \ {Picked(s)})
        OBVIOUS
      <3> HIDE DEF g, Picked
      <3> QED BY <2>2, <3>2, <3>3
    <2> QED BY <2>1, <2>2
  <1>2. g = [s \in SUBSET DOMAIN tiers |->
               IF s = {} THEN NoTier
               ELSE Taken(tiers, amount, Picked(s), g[s \ {Picked(s)}])]
    <2>1. g = [s \in SUBSET DOMAIN tiers |-> g[s]]
      OBVIOUS
    <2> HIDE DEF g, Picked
    <2> QED BY <1>1, <2>1
  <1> QED BY <1>2 DEF Scans

LEMMA ScanIsBest ==
    ASSUME NEW tiers, NEW amount \in Int, DOMAIN tiers \subseteq Nat, IsFiniteSet(DOMAIN tiers)
    PROVE  select_tier(tiers, amount) = Best(tiers, amount, DOMAIN tiers).bps
  <1> DEFINE D == DOMAIN tiers
             f == CHOOSE g : Scans(g, tiers, amount)
             Wrong == {s \in FiniteSubsetsOf(D) : f[s] # Best(tiers, amount, s)}
  <1>1. Scans(f, tiers, amount)
    BY BestScans
  <1> HIDE DEF f
  <1>2. Wrong = {}
    <2>1. SUFFICES ASSUME Wrong # {} PROVE FALSE
      OBVIOUS
    <2>2. PICK s \in Wrong : \A r \in Wrong : ~ (<<r, s>> \in StrictSubsetOrdering(D))
      <3>1. IsWellFoundedOn(StrictSubsetOrdering(D), FiniteSubsetsOf(D))
        BY FS_StrictSubsetOrderingWellFounded
      <3>2. Wrong \subseteq FiniteSubsetsOf(D)
        OBVIOUS
      <3> HIDE DEF Wrong
      <3> QED BY <2>1, <3>1, <3>2, WFMin
    <2>3. s \in SUBSET D /\ IsFiniteSet(s) /\ s \in SUBSET Nat
      BY DEF FiniteSubsetsOf
    <2>4. CASE s = {}
      BY <1>1, <2>3, <2>4 DEF Scans, Best
    <2>5. CASE s # {}
      <3> DEFINE t == CHOOSE x \in s : TRUE
                 r == s \ {t}
      <3>1. t \in s
        BY <2>5
      <3>2. f[s] = Taken(tiers, amount, t, f[r])
        BY <1>1, <2>3, <2>5 DEF Scans
      <3> HIDE DEF t
      <3>3. r \in SUBSET D /\ IsFiniteSet(r) /\ r # s /\ r \subseteq s
        BY <2>3, <3>1, FS_Subset
      <3>4. f[r] = Best(tiers, amount, r)
        <4>1. r \in FiniteSubsetsOf(D) /\ <<r, s>> \in StrictSubsetOrdering(D)
          BY <2>3, <3>3 DEF FiniteSubsetsOf, StrictSubsetOrdering
        <4> QED BY <2>2, <4>1
      <3>5. Best(tiers, amount, s) = Taken(tiers, amount, t, Best(tiers, amount, r))
        BY <2>3, <3>1, BestStep
      <3> QED BY <3>2, <3>4, <3>5
    <2> QED BY <2>4, <2>5
  <1>3. f[D] = Best(tiers, amount, D)
    BY <1>2 DEF FiniteSubsetsOf
  <1> QED BY <1>3, ScanFolds DEF f

-----------------------------------------------------------------------------

LEMMA Invariant == Spec => []IInv
  BY InitInv, NextInv, PTL DEF Spec

-----------------------------------------------------------------------------

\* Every storage entry keeps its type: no balance and no running total leaves
\* the range of i128, no stored rate exceeds the cap, no v3 threshold leaves
\* u64, and the schedule never outgrows its limit.
THEOREM TypeCorrect == Spec => []TypeOK
  <1>1. IInv => TypeOK
    BY DEF IInv, ConfigOK, ScheduleOK, LedgerOK, TotalOK, TypeOK
  <1> QED BY <1>1, Invariant, PTL

\* What depositors may take is what they deposited and did not withdraw, whatever
\* is reserved, charged or routed, and the total invents no value.
THEOREM DepositsAreAccounted == Spec => []DepositsAccounted
  <1>1. IInv => DepositsAccounted
    BY DEF IInv, LedgerOK
  <1> QED BY <1>1, Invariant, PTL

\* The running total of a current contract is the sum of every fee charged.
THEOREM TotalIsComplete == Spec => []TotalCountsEveryFee
  <1>1. IInv => TotalCountsEveryFee
    BY DEF IInv, TotalOK, TotalCountsEveryFee, SchemaVersion
  <1> QED BY <1>1, Invariant, PTL

\* The rate charged is that of the highest stored tier at or below the amount,
\* whatever the order in which the scan visits the tiers (lib.rs, select_tier).
THEOREM HighestTierIsCharged == Spec => []HighestTierApplies
  <1>1. IInv => HighestTierApplies
    <2> SUFFICES ASSUME IInv, NEW amount \in Amounts
                 PROVE  LET below == {t \in DOMAIN schedule : t <= amount}
                        IN  select_tier(schedule, amount) = IF below = {} THEN 0
                                                            ELSE schedule[Max(below)]
      BY DEF HighestTierApplies
    <2>1. DOMAIN schedule \subseteq Nat /\ IsFiniteSet(DOMAIN schedule) /\ amount \in Int
      <3>1. amount \in Int
        BY TreasuryAssumption
      <3> QED BY <3>1 DEF IInv, ScheduleOK
    <2>2. select_tier(schedule, amount) = Best(schedule, amount, DOMAIN schedule).bps
      BY <2>1, ScanIsBest
    <2> QED BY <2>2 DEF Best, NoTier
  <1> QED BY <1>1, Invariant, PTL

\* A migration that loses no threshold leaves every rate as it was (migrate).
THEOREM RatesSurviveMigration == Spec => MigrationKeepsRates
  <1> DEFINE Kept == (schema \in {1, 2} /\ schema' = SchemaVersion
                      /\ \A t \in DOMAIN schedule : t < U64Size) =>
                        \A amount \in {a \in Amounts : a >= 0} :
                           select_tier(schedule', amount) = select_tier(schedule, amount)
  <1>1. ASSUME IInv, [Next]_vars PROVE [Kept]_vars
    <2> SUFFICES ASSUME schema \in {1, 2}, schema' = SchemaVersion,
                        \A t \in DOMAIN schedule : t < U64Size,
                        NEW amount \in Amounts
                 PROVE  select_tier(schedule', amount) = select_tier(schedule, amount)
      OBVIOUS
    <2>1. PICK who \in Address : Migrate(who)
      <3>1. schema' # schema /\ state # Nil
        BY <1>1 DEF SchemaVersion, IInv, LedgerOK
      <3> QED
        BY <1>1, <3>1
           DEF Next, vars, storage, config, history, Deposit, Withdraw, Reserve,
               ReleaseReserved, CollectFee, RouteToTreasury, CollectFeeBatch, Initialize,
               SetFeeSchedule, RemoveFeeTier, UpdateTreasury, Upgrade
    <2>2. DOMAIN schedule \subseteq Nat /\ IsFiniteSet(DOMAIN schedule) /\ amount \in Int
      <3>1. amount \in Int
        BY TreasuryAssumption
      <3> QED BY <1>1, <3>1 DEF IInv, ScheduleOK
    <2>3. /\ DOMAIN schedule' = DOMAIN schedule
          /\ \A t \in DOMAIN schedule : schedule'[t] = schedule[t]
      <3>1. \A t \in DOMAIN schedule : AsU64(t) = t
        BY <2>2, LedgerBound DEF AsU64
      <3>2. ASSUME NEW t \in DOMAIN schedule
            PROVE  Max({u \in DOMAIN schedule : AsU64(u) = t}) = t
        <4>1. {u \in DOMAIN schedule : AsU64(u) = t} = {t}
          BY <3>1
        <4>2. t \in Int
          BY <2>2
        <4>3. Max({t}) = t
          <5>1. IsFiniteSet({t})
            BY FS_Singleton
          <5>2. {t} \in SUBSET Int /\ {t} # {}
            BY <4>2
          <5> QED BY <5>1, <5>2, MaxExists
        <4> QED BY <4>1, <4>3
      <3>3. schedule' = [key \in {AsU64(t) : t \in DOMAIN schedule} |->
                           schedule[Max({t \in DOMAIN schedule : AsU64(t) = key})]]
        BY <2>1 DEF Migrate, Narrowed
      <3>4. {AsU64(t) : t \in DOMAIN schedule} = DOMAIN schedule
        BY <3>1
      <3> QED BY <3>2, <3>3, <3>4
    <2>4. /\ select_tier(schedule, amount) = Best(schedule, amount, DOMAIN schedule).bps
          /\ select_tier(schedule', amount) = Best(schedule', amount, DOMAIN schedule').bps
      BY <2>2, <2>3, ScanIsBest
    <2> DEFINE below == {t \in DOMAIN schedule : t <= amount}
    <2>5. below # {} => Max(below) \in DOMAIN schedule
      <3>1. below \in SUBSET Int /\ below \subseteq DOMAIN schedule /\ IsFiniteSet(below)
        BY <2>2, FS_Subset
      <3> QED BY <3>1, MaxExists
    <2> QED BY <2>3, <2>4, <2>5 DEF Best, NoTier
  <1> QED BY <1>1, Invariant, PTL DEF Spec, MigrationKeepsRates
=============================================================================
