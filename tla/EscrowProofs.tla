---------------------------- MODULE EscrowProofs ----------------------------
(***************************************************************************)
(* Proofs about Escrow for every value of its constants.  The inductive    *)
(* invariant IInv ties the published events to the stored records (so that *)
(* the guard on the record's status protects the events), the records to   *)
(* the id counter (so that a new deposit never overwrites an old one) and  *)
(* each deadline to the ledger its deposit was made in.                    *)
(***************************************************************************)
EXTENDS Escrow, TLAPS

\* A deposit is never refundable in the ledger that creates it.
DeadlinesFollowCreation ==
    \A id \in DepositId :
       deposits[id] # Nil => deposits[id].timeout_ledger > deposits[id].timestamp

\* No id is handed out before init.
EmptyBeforeInit == schema = 0 => nextId = 0

\* A v1 record never carries both flags.
SettledOnceV1 ==
    schema = 1 =>
       \A id \in DepositId :
          deposits[id] # Nil => ~(deposits[id].released /\ deposits[id].refunded)

IInv ==
    /\ TypeOK
    /\ EventsMatchRecords
    /\ IdsAreDense
    /\ DeadlinesFollowCreation
    /\ EmptyBeforeInit
    /\ SettledOnceV1

-----------------------------------------------------------------------------

\* The host's saturating arithmetic stays within the 32-bit ledger range.
LEMMA TtlType ==
    ASSUME NEW now \in Ledger, NEW live \in Ledger
    PROVE  /\ FreshTtl(now) \in Ledger
           /\ ExtendTtl(live, now) \in Ledger
  BY HostAssumption DEF FreshTtl, ExtendTtl, SaturatingAdd, Ledger

\* What a v1 record converts to: a v2 record with the same terms, whose status
\* says what its two flags said.
LEMMA MigratedRecord ==
    ASSUME NEW v1 \in EscrowDepositV1
    PROVE  /\ Migrated(v1) \in EscrowDeposit
           /\ Migrated(v1).depositor = v1.depositor
           /\ Migrated(v1).amount = v1.amount
           /\ Migrated(v1).timestamp = v1.timestamp
           /\ Migrated(v1).timeout_ledger = v1.timeout_ledger
           /\ Migrated(v1).status = IF v1.released THEN "Resolved"
                                    ELSE IF v1.refunded THEN "Cancelled"
                                    ELSE "Pending"
  BY EscrowAssumption DEF Migrated, EscrowDeposit, EscrowDepositV1, EscrowStatus

\* A record of a v1 build is of the v1 type, settled at most once, and due
\* after it was made.
LEMMA LegacyRecord ==
    ASSUME ledger \in Ledger, NEW d \in LegacyDeposits
    PROVE  /\ d \in EscrowDepositV1
           /\ d.timeout_ledger > d.timestamp
           /\ ~(d.released /\ d.refunded)
  <1>1. PICK who \in Address, a \in {n \in Amounts : n > 0},
             t \in {n \in 0 .. ledger : n + DefaultTimeout <= U32Max},
             how \in {"open", "released", "refunded"} :
          d = [depositor |-> who, amount |-> a, timestamp |-> t,
               timeout_ledger |-> t + DefaultTimeout,
               released |-> how = "released", refunded |-> how = "refunded"]
    BY DEF LegacyDeposits
  <1>2. t \in Ledger /\ t + DefaultTimeout \in Ledger /\ t + DefaultTimeout > t
    BY EscrowAssumption, HostAssumption DEF Ledger
  <1>3. QED
    BY <1>1, <1>2, ZenonT(20) DEF EscrowDepositV1

LEMMA InitIInv == Init => IInv
  <1> SUFFICES ASSUME Init PROVE IInv
    OBVIOUS
  <1>a. ledger \in Ledger /\ liveUntil \in Ledger /\ wasm \in Wasm
    BY TtlType, EscrowAssumption DEF Init
  <1>b. DefaultTimeout \in MinTimeout .. MaxTimeout
    BY EscrowAssumption
  <1>1. CASE FreshInstance
    BY <1>1, <1>a, <1>b, EscrowAssumption
    DEF FreshInstance, IInv, TypeOK, EventsMatchRecords, IdsAreDense,
        DeadlinesFollowCreation, EmptyBeforeInit, SettledOnceV1, SchemaVersion,
        DepositId
  <1>2. CASE LegacyInstance
    <2>1. PICK old \in [0 .. nextId - 1 -> LegacyDeposits] :
             deposits = [id \in DepositId |-> IF id < nextId THEN old[id] ELSE Nil]
      BY <1>2 DEF LegacyInstance
    <2>2. schema = 1 /\ admin \in Address /\ timeout = DefaultTimeout
          /\ nextId \in 0 .. U64Max
      BY <1>2 DEF LegacyInstance
    <2>3. \A id \in DepositId : id < nextId => deposits[id] \in LegacyDeposits
      BY <2>1, <2>2, EscrowAssumption DEF DepositId
    <2>4. \A id \in DepositId : id >= nextId => deposits[id] = Nil
      BY <2>1, <2>2, EscrowAssumption DEF DepositId
    <2>5. \A id \in DepositId : id < nextId =>
             /\ deposits[id] \in EscrowDepositV1
             /\ deposits[id] # Nil
             /\ deposits[id].timeout_ledger > deposits[id].timestamp
             /\ ~(deposits[id].released /\ deposits[id].refunded)
      BY <2>3, <1>a, LegacyRecord, EscrowAssumption
    <2>6. IdsAreDense /\ DeadlinesFollowCreation /\ SettledOnceV1
      BY <2>2, <2>4, <2>5, EscrowAssumption
      DEF IdsAreDense, DeadlinesFollowCreation, SettledOnceV1, DepositId
    <2>7. TypeOK
      <3>1. deposits \in [DepositId -> EscrowDepositV1 \cup {Nil}]
        BY <2>1, <2>2, <2>4, <2>5, EscrowAssumption DEF DepositId
      <3>2. released \in [DepositId -> Nat] /\ refunded \in [DepositId -> Nat]
        BY <1>2 DEF LegacyInstance
      <3>3. QED
        BY <1>a, <1>b, <2>2, <3>1, <3>2 DEF TypeOK, SchemaVersion
    <2>8. EventsMatchRecords
      BY <1>2, <2>2 DEF LegacyInstance, EventsMatchRecords
    <2>9. QED
      BY <2>2, <2>6, <2>7, <2>8 DEF IInv, EmptyBeforeInit
  <1>3. QED
    BY <1>1, <1>2 DEF Init

\* A call that leaves the deposits, the counter and the events alone keeps the
\* invariant, as long as the entries it writes keep their types and the layout
\* of the records does not change.
LEMMA FrameIInv ==
    ASSUME IInv, UNCHANGED <<schema, deposits, nextId, published>>,
           ledger' \in Ledger, liveUntil' \in Ledger, wasm' \in Wasm,
           admin' \in Address \cup {Nil}, timeout' \in MinTimeout .. MaxTimeout
    PROVE  IInv'
  BY DEF IInv, TypeOK, EventsMatchRecords, IdsAreDense, DeadlinesFollowCreation,
         EmptyBeforeInit, SettledOnceV1, published

\* Settling an open v2 deposit one way, with the one event that goes with it.
LEMMA SettleIInv ==
    ASSUME IInv, schema = SchemaVersion,
           NEW id \in DepositId, deposits[id] # Nil, ~Settled(deposits[id]),
           NEW s \in {"Resolved", "Cancelled"},
           deposits' = [deposits EXCEPT ![id].status = s],
           released' = IF s = "Resolved"
                       THEN [released EXCEPT ![id] = @ + 1] ELSE released,
           refunded' = IF s = "Cancelled"
                       THEN [refunded EXCEPT ![id] = @ + 1] ELSE refunded,
           bump_instance_ttl,
           UNCHANGED <<ledger, wasm, schema, admin, timeout, nextId>>
    PROVE  IInv'
  <1>1. liveUntil' \in Ledger
    BY TtlType DEF IInv, TypeOK, bump_instance_ttl
  <1>2. deposits[id] \in EscrowDeposit
    BY DEF IInv, TypeOK, SchemaVersion
  <1>3. deposits' = [deposits EXCEPT ![id] = [deposits[id] EXCEPT !.status = s]]
    BY DEF IInv, TypeOK
  <1>4. DEFINE d == [deposits[id] EXCEPT !.status = s]
  <1>5. /\ d \in EscrowDeposit /\ d # Nil /\ d.status = s
        /\ d.timeout_ledger = deposits[id].timeout_ledger
        /\ d.timestamp = deposits[id].timestamp
    BY <1>2, EscrowAssumption DEF EscrowDeposit, EscrowStatus
  <1>6. deposits' \in [DepositId -> EscrowDeposit \cup {Nil}]
    BY <1>3, <1>5 DEF IInv, TypeOK, SchemaVersion
  <1>7. \A i \in DepositId : deposits'[i] = IF i = id THEN d ELSE deposits[i]
    BY <1>3 DEF IInv, TypeOK
  <1>8. released \in [DepositId -> Nat] /\ refunded \in [DepositId -> Nat]
    BY DEF IInv, TypeOK
  <1>9. TypeOK'
    BY <1>1, <1>6, <1>8 DEF IInv, TypeOK, SchemaVersion
  <1>10. EventsMatchRecords'
    <2>1. released[id] = 0 /\ refunded[id] = 0
      BY DEF IInv, EventsMatchRecords, Settled, SchemaVersion
    <2> HIDE DEF d
    <2>2. ASSUME NEW i \in DepositId, i # id
          PROVE  /\ deposits'[i] = deposits[i]
                 /\ released'[i] = released[i]
                 /\ refunded'[i] = refunded[i]
      BY <2>2, <1>7, <1>8
    <2>3. /\ deposits'[id] = d
          /\ released'[id] = IF s = "Resolved" THEN 1 ELSE 0
          /\ refunded'[id] = IF s = "Cancelled" THEN 1 ELSE 0
      BY <2>1, <1>7, <1>8
    <2>4. QED
      BY <2>2, <2>3, <1>5 DEF IInv, EventsMatchRecords, SchemaVersion
  <1>11. IdsAreDense' /\ DeadlinesFollowCreation'
    BY <1>5, <1>7 DEF IInv, IdsAreDense, DeadlinesFollowCreation
  <1>12. QED
    BY <1>9, <1>10, <1>11 DEF IInv, EmptyBeforeInit, SettledOnceV1, SchemaVersion

LEMMA InitializeIInv ==
    ASSUME IInv, NEW signer \in Address, Initialize(signer)
    PROVE  IInv'
  <1>1. liveUntil' \in Ledger
    BY TtlType DEF IInv, TypeOK, Initialize, bump_instance_ttl
  <1>2. \A id \in DepositId : deposits[id] = Nil
    BY EscrowAssumption
    DEF Initialize, IInv, IdsAreDense, EmptyBeforeInit, DepositId
  <1>3. QED
    BY <1>1, <1>2, EscrowAssumption
    DEF Initialize, IInv, TypeOK, EventsMatchRecords, IdsAreDense,
        DeadlinesFollowCreation, EmptyBeforeInit, SettledOnceV1, SchemaVersion,
        DepositId, published

LEMMA DepositIInv ==
    ASSUME IInv, NEW signer \in Address, NEW amount \in Amounts,
           NEW fee_bps \in FeeRates, Deposit(signer, amount, fee_bps)
    PROVE  IInv'
  <1> DEFINE d == [depositor |-> signer, amount |-> amount, timestamp |-> ledger,
                   timeout_ledger |-> ledger + timeout, status |-> "Pending",
                   fee_bps |-> fee_bps]
  <1>1. liveUntil' \in Ledger
    BY TtlType DEF IInv, TypeOK, Deposit, bump_instance_ttl
  <1>2. schema = SchemaVersion /\ nextId \in DepositId /\ nextId' = nextId + 1
        /\ nextId' \in 0 .. U64Max
    BY EscrowAssumption DEF IInv, TypeOK, Deposit, DepositId, require_current_schema
  <1>3. ledger + timeout \in Ledger /\ ledger + timeout > ledger
    BY EscrowAssumption, HostAssumption DEF IInv, TypeOK, Deposit, Ledger
  <1>4. d \in EscrowDeposit /\ d # Nil
    BY <1>3, EscrowAssumption DEF EscrowDeposit, EscrowStatus, IInv, TypeOK
  <1>5. deposits' = [deposits EXCEPT ![nextId] = d]
    BY DEF Deposit
  <1>6. d.status = "Pending" /\ d.timeout_ledger > d.timestamp
    BY <1>3
  <1> HIDE DEF d
  <1>7. \A id \in DepositId : deposits'[id] = IF id = nextId THEN d ELSE deposits[id]
    BY <1>5 DEF IInv, TypeOK
  <1>8. TypeOK'
    <2>1. deposits' \in [DepositId -> EscrowDeposit \cup {Nil}]
      BY <1>2, <1>4, <1>5 DEF IInv, TypeOK, SchemaVersion
    <2>2. QED
      BY <1>1, <1>2, <2>1 DEF IInv, TypeOK, Deposit, SchemaVersion, published
  <1>9. deposits[nextId] = Nil
    BY <1>2 DEF IInv, IdsAreDense, TypeOK
  <1>10. EventsMatchRecords'
    <2>1. released[nextId] = 0 /\ refunded[nextId] = 0
      BY <1>2, <1>9 DEF IInv, EventsMatchRecords
    <2>2. UNCHANGED <<released, refunded, schema>>
      BY DEF Deposit, published
    <2>3. QED
      BY <1>2, <1>4, <1>6, <1>7, <2>1, <2>2
      DEF IInv, EventsMatchRecords, SchemaVersion
  <1>11. IdsAreDense'
    BY <1>2, <1>4, <1>7 DEF IInv, IdsAreDense, TypeOK, DepositId
  <1>12. DeadlinesFollowCreation' /\ EmptyBeforeInit' /\ SettledOnceV1'
    BY <1>2, <1>6, <1>7 DEF IInv, DeadlinesFollowCreation, EmptyBeforeInit,
                            SettledOnceV1, SchemaVersion, Deposit
  <1>13. QED
    BY <1>8, <1>10, <1>11, <1>12 DEF IInv

LEMMA MigrateIInv ==
    ASSUME IInv, NEW signer \in Address, Migrate(signer)
    PROVE  IInv'
  <1>1. liveUntil' \in Ledger
    BY TtlType DEF IInv, TypeOK, Migrate, bump_instance_ttl
  <1>2. \A id \in DepositId : deposits[id] # Nil => deposits[id] \in EscrowDepositV1
    BY DEF IInv, TypeOK, Migrate
  <1>3. \A id \in DepositId :
           deposits[id] # Nil =>
              /\ deposits'[id] = Migrated(deposits[id])
              /\ Migrated(deposits[id]) \in EscrowDeposit
              /\ Migrated(deposits[id]) # Nil
    BY <1>2, MigratedRecord, EscrowAssumption DEF Migrate
  <1>4. \A id \in DepositId : deposits[id] = Nil => deposits'[id] = Nil
    BY DEF Migrate
  <1>5. TypeOK'
    <2>1. deposits' \in [DepositId -> EscrowDeposit \cup {Nil}]
      BY <1>3, <1>4 DEF Migrate
    <2>2. QED
      BY <1>1, <2>1 DEF IInv, TypeOK, Migrate, SchemaVersion, published
  <1>6. EventsMatchRecords'
    <2> SUFFICES ASSUME NEW id \in DepositId, deposits[id] # Nil
                 PROVE  /\ released'[id] = IF deposits'[id].status = "Resolved"
                                           THEN 1 ELSE 0
                        /\ refunded'[id] = IF deposits'[id].status = "Cancelled"
                                           THEN 1 ELSE 0
      BY <1>3, <1>4 DEF IInv, EventsMatchRecords, Migrate, SchemaVersion, published
    <2>1. /\ released'[id] = IF deposits[id].released THEN 1 ELSE 0
          /\ refunded'[id] = IF deposits[id].refunded THEN 1 ELSE 0
      BY DEF IInv, EventsMatchRecords, Migrate, published
    <2>2. ~(deposits[id].released /\ deposits[id].refunded)
      BY DEF IInv, SettledOnceV1, Migrate
    <2>3. deposits'[id].status = IF deposits[id].released THEN "Resolved"
                                 ELSE IF deposits[id].refunded THEN "Cancelled"
                                 ELSE "Pending"
      BY <1>2, <1>3, MigratedRecord
    <2>4. QED
      BY <2>1, <2>2, <2>3
  <1>7. IdsAreDense' /\ EmptyBeforeInit' /\ SettledOnceV1'
    BY <1>3, <1>4
    DEF IInv, IdsAreDense, EmptyBeforeInit, SettledOnceV1, Migrate, SchemaVersion
  <1>8. DeadlinesFollowCreation'
    BY <1>2, <1>3, <1>4, MigratedRecord DEF IInv, DeadlinesFollowCreation
  <1>9. QED
    BY <1>5, <1>6, <1>7, <1>8 DEF IInv

LEMMA StepIInv == IInv /\ [Next]_vars => IInv'
  <1> SUFFICES ASSUME IInv, [Next]_vars PROVE IInv'
    OBVIOUS
  <1>1. ASSUME NEW signer \in Address, Initialize(signer) PROVE IInv'
    BY <1>1, InitializeIInv
  <1>2. ASSUME NEW signer \in Address, NEW amount \in Amounts,
               NEW fee_bps \in FeeRates, Deposit(signer, amount, fee_bps)
        PROVE  IInv'
    BY <1>2, DepositIInv
  <1>3. ASSUME NEW signer \in Address, NEW id \in DepositId, Release(signer, id)
        PROVE  IInv'
    BY <1>3, SettleIInv DEF Release, require_current_schema
  <1>4. ASSUME NEW signer \in Address, NEW id \in DepositId, Refund(signer, id)
        PROVE  IInv'
    BY <1>4, SettleIInv DEF Refund, require_current_schema
  <1>5. ASSUME NEW signer \in Address, NEW t \in Timeouts, SetTimeout(signer, t)
        PROVE  IInv'
    <2>1. liveUntil' \in Ledger
      BY <1>5, TtlType DEF IInv, TypeOK, SetTimeout, bump_instance_ttl
    <2>2. QED
      BY <1>5, <2>1, FrameIInv DEF SetTimeout, IInv, TypeOK
  <1>6. ASSUME NEW signer \in Address, NEW hash \in Wasm, Upgrade(signer, hash)
        PROVE  IInv'
    BY <1>6, FrameIInv DEF Upgrade, IInv, TypeOK, storage
  <1>7. ASSUME NEW signer \in Address, Migrate(signer) PROVE IInv'
    BY <1>7, MigrateIInv
  <1>8. CASE CloseLedger
    <2>1. ledger' \in Ledger
      BY <1>8, HostAssumption DEF CloseLedger, IInv, TypeOK, Ledger
    <2>2. QED
      BY <1>8, <2>1, FrameIInv DEF CloseLedger, IInv, TypeOK, storage
  <1>9. CASE Restore
    <2>1. liveUntil' \in Ledger
      BY <1>9, TtlType DEF Restore, IInv, TypeOK
    <2>2. QED
      BY <1>9, <2>1, FrameIInv DEF Restore, IInv, TypeOK, storage
  <1>10. CASE UNCHANGED vars
    BY <1>10, FrameIInv DEF vars, IInv, TypeOK, storage
  <1>11. QED
    BY <1>1, <1>2, <1>3, <1>4, <1>5, <1>6, <1>7, <1>8, <1>9, <1>10 DEF Next

\* IInv holds in every reachable state.
THEOREM Invariance == Spec => []IInv
  BY InitIInv, StepIInv, PTL DEF Spec

\* Every storage entry keeps its type and a deposit map is always in the layout
\* the schema entry announces, for every value of the constants.
THEOREM TypeCorrect == Spec => []TypeOK
  <1>1. IInv => TypeOK
    BY DEF IInv
  <1>2. QED
    BY <1>1, Invariance, PTL

\* At most one release or refund event is ever published for a deposit.
THEOREM SettledAtMostOnce == Spec => []AtMostOneSettlement
  <1>1. IInv => AtMostOneSettlement
    <2> SUFFICES ASSUME IInv, NEW id \in DepositId
                 PROVE  released[id] + refunded[id] <= 1
      BY DEF AtMostOneSettlement
    <2>1. CASE deposits[id] = Nil
      BY <2>1 DEF IInv, EventsMatchRecords
    <2>2. CASE deposits[id] # Nil /\ schema = 1
      BY <2>2 DEF IInv, EventsMatchRecords, SettledOnceV1
    <2>3. CASE deposits[id] # Nil /\ schema # 1
      BY <2>3 DEF IInv, EventsMatchRecords
    <2>4. QED
      BY <2>1, <2>2, <2>3
  <1>2. QED
    BY <1>1, Invariance, PTL

\* The published events and the stored records always agree.
THEOREM EventsAgree == Spec => []EventsMatchRecords
  <1>1. IInv => EventsMatchRecords
    BY DEF IInv
  <1>2. QED
    BY <1>1, Invariance, PTL

\* Ids are handed out without a gap, up to the last value of the counter.
THEOREM IdsStayDense == Spec => []IdsAreDense
  <1>1. IInv => IdsAreDense
    BY DEF IInv
  <1>2. QED
    BY <1>1, Invariance, PTL


-----------------------------------------------------------------------------

\* Every step but deposit, release, refund and migrate leaves the records, or
\* the empty map of an uninitialised instance, as they are.
LEMMA QuietStep ==
    ASSUME IInv, [Next]_vars
    PROVE  \/ UNCHANGED <<deposits, released, refunded>>
              /\ (schema' = schema \/ \A id \in DepositId : deposits[id] = Nil)
              /\ (ledger' = ledger \/ ledger' > ledger)
           \/ \E signer \in Address : Migrate(signer)
           \/ \E signer \in Address, amount \in Amounts, fee_bps \in FeeRates :
                 Deposit(signer, amount, fee_bps)
           \/ \E signer \in Address, id \in DepositId :
                 Release(signer, id) \/ Refund(signer, id)
  <1>1. ASSUME NEW signer \in Address, Initialize(signer)
        PROVE  UNCHANGED <<deposits, released, refunded, ledger>>
               /\ \A id \in DepositId : deposits[id] = Nil
    <2>1. deposits \in [DepositId -> EscrowDeposit \cup {Nil}]
          /\ nextId = 0
      BY <1>1 DEF IInv, TypeOK, EmptyBeforeInit, Initialize
    <2>2. \A id \in DepositId : deposits[id] = Nil
      BY <2>1, EscrowAssumption DEF IInv, IdsAreDense, DepositId
    <2>3. deposits = [id \in DepositId |-> Nil]
      BY <2>1, <2>2
    <2>4. QED
      BY <1>1, <2>2, <2>3 DEF Initialize, published
  <1>2. ASSUME NEW signer \in Address, NEW t \in Timeouts, SetTimeout(signer, t)
        PROVE  UNCHANGED <<deposits, released, refunded, schema, ledger>>
    BY <1>2 DEF SetTimeout, published
  <1>3. ASSUME NEW signer \in Address, NEW hash \in Wasm, Upgrade(signer, hash)
        PROVE  UNCHANGED <<deposits, released, refunded, schema, ledger>>
    BY <1>3 DEF Upgrade, storage, published
  <1>4. ASSUME CloseLedger
        PROVE  UNCHANGED <<deposits, released, refunded, schema>> /\ ledger' > ledger
    BY <1>4 DEF CloseLedger, storage, published, IInv, TypeOK, Ledger
  <1>5. ASSUME Restore \/ UNCHANGED vars
        PROVE  UNCHANGED <<deposits, released, refunded, schema, ledger>>
    BY <1>5 DEF Restore, vars, storage, published
  <1>6. QED
    BY <1>1, <1>2, <1>3, <1>4, <1>5 DEF Next

\* What settling does to the deposits.
LEMMA SettleEffect ==
    ASSUME IInv, NEW signer \in Address, NEW id \in DepositId,
           Release(signer, id) \/ Refund(signer, id)
    PROVE  /\ schema = SchemaVersion /\ schema' = schema /\ ledger' = ledger
           /\ deposits[id] \in EscrowDeposit /\ deposits[id] # Nil
           /\ ~Settled(deposits[id])
           /\ \E s \in {"Resolved", "Cancelled"} :
                 deposits' = [deposits EXCEPT ![id] = [deposits[id] EXCEPT !.status = s]]
  BY DEF Release, Refund, IInv, TypeOK, require_current_schema, SchemaVersion

LEMMA TermsStep ==
    ASSUME IInv, [Next]_vars, NEW id \in DepositId, deposits[id] # Nil
    PROVE  /\ deposits'[id] # Nil
           /\ deposits'[id].depositor = deposits[id].depositor
           /\ deposits'[id].amount = deposits[id].amount
           /\ deposits'[id].timeout_ledger = deposits[id].timeout_ledger
  <1>1. CASE UNCHANGED <<deposits, released, refunded>>
    BY <1>1
  <1>2. ASSUME NEW signer \in Address, Migrate(signer)
        PROVE  /\ deposits'[id] # Nil
               /\ deposits'[id].depositor = deposits[id].depositor
               /\ deposits'[id].amount = deposits[id].amount
               /\ deposits'[id].timeout_ledger = deposits[id].timeout_ledger
    <2>1. deposits[id] \in EscrowDepositV1
      BY <1>2 DEF IInv, TypeOK, Migrate
    <2>2. deposits'[id] = Migrated(deposits[id])
      BY <1>2 DEF Migrate
    <2>3. QED
      BY <2>1, <2>2, MigratedRecord, EscrowAssumption
  <1>3. ASSUME NEW signer \in Address, NEW amount \in Amounts, NEW fee_bps \in FeeRates,
               Deposit(signer, amount, fee_bps)
        PROVE  deposits'[id] = deposits[id]
    <2>1. id # nextId
      BY DEF IInv, IdsAreDense, TypeOK, DepositId
    <2>2. QED
      BY <1>3, <2>1 DEF Deposit, IInv, TypeOK
  <1>4. ASSUME NEW signer \in Address, NEW i \in DepositId,
               Release(signer, i) \/ Refund(signer, i)
        PROVE  /\ deposits'[id] # Nil
               /\ deposits'[id].depositor = deposits[id].depositor
               /\ deposits'[id].amount = deposits[id].amount
               /\ deposits'[id].timeout_ledger = deposits[id].timeout_ledger
    <2>1. PICK s \in {"Resolved", "Cancelled"} :
             deposits' = [deposits EXCEPT ![i] = [deposits[i] EXCEPT !.status = s]]
      BY <1>4, SettleEffect
    <2>2. deposits[i] \in EscrowDeposit
      BY <1>4, SettleEffect
    <2>3. CASE i # id
      BY <2>1, <2>3 DEF IInv, TypeOK
    <2>4. CASE i = id
      <3>1. deposits'[id] = [deposits[id] EXCEPT !.status = s]
        BY <2>1, <2>4 DEF IInv, TypeOK
      <3>2. [deposits[id] EXCEPT !.status = s] \in EscrowDeposit
        BY <2>2, <2>4 DEF EscrowDeposit, EscrowStatus
      <3>3. QED
        BY <3>1, <3>2, <2>2, <2>4, EscrowAssumption DEF EscrowDeposit
    <2>5. QED
      BY <2>3, <2>4
  <1>5. QED
    BY <1>1, <1>2, <1>3, <1>4, QuietStep

\* No later call changes the terms of a deposit or drops its record.
THEOREM TermsFixed == Spec => TermsAreFixed
  <1>1. IInv /\ [Next]_vars =>
           [\A id \in DepositId :
               deposits[id] # Nil =>
                  /\ deposits'[id] # Nil
                  /\ deposits'[id].depositor = deposits[id].depositor
                  /\ deposits'[id].amount = deposits[id].amount
                  /\ deposits'[id].timeout_ledger = deposits[id].timeout_ledger]_vars
    BY TermsStep
  <1>2. QED
    BY <1>1, Invariance, PTL DEF Spec, TermsAreFixed

LEMMA RefundStep ==
    ASSUME IInv, [Next]_vars, NEW id \in DepositId, refunded'[id] > refunded[id]
    PROVE  /\ ledger >= deposits[id].timeout_ledger
           /\ deposits[id].timeout_ledger > deposits[id].timestamp
  <1>1. refunded[id] \in Nat
    BY DEF IInv, TypeOK
  <1>2. PICK signer \in Address, i \in DepositId : Release(signer, i) \/ Refund(signer, i)
    BY <1>1, QuietStep DEF Migrate, Deposit, published
  <1>3. Refund(signer, i)
    BY <1>1, <1>2 DEF Release
  <1>4. i = id
    BY <1>1, <1>3 DEF Refund, IInv, TypeOK
  <1>5. QED
    BY <1>3, <1>4 DEF Refund, PastDeadline, IInv, DeadlinesFollowCreation

\* No refund event is published before the deadline fixed at creation.
THEOREM RefundsWait == Spec => RefundWaitsForDeadline
  <1>1. IInv /\ [Next]_vars =>
           [\A id \in DepositId :
               refunded'[id] > refunded[id] =>
                  /\ ledger >= deposits[id].timeout_ledger
                  /\ deposits[id].timeout_ledger > deposits[id].timestamp]_vars
    BY RefundStep
  <1>2. QED
    BY <1>1, Invariance, PTL DEF Spec, RefundWaitsForDeadline

-----------------------------------------------------------------------------

\* The abstract deposits a state of the contract stands for.
Fates == [id \in DepositId |-> FateOf(deposits[id])]

Dues == [id \in DepositId |->
            IF deposits[id] = Nil THEN 0 ELSE deposits[id].timeout_ledger]

LEMMA CustodyInit == IInv => Custody!CInit
  <1> SUFFICES ASSUME IInv PROVE Custody!CInit
    OBVIOUS
  <1>1. ledger \in Nat
    BY HostAssumption DEF IInv, TypeOK, Ledger
  <1>2. \A id \in DepositId : FateOf(deposits[id]) \in Custody!Fates
    BY DEF FateOf, Custody!Fates
  <1>3. \A id \in DepositId : deposits[id] # Nil => deposits[id].timeout_ledger \in Nat
    BY HostAssumption DEF IInv, TypeOK, EscrowDeposit, EscrowDepositV1, Ledger
  <1>4. QED
    BY <1>1, <1>2, <1>3 DEF Custody!CInit

LEMMA CustodyStutter ==
    ASSUME UNCHANGED deposits,
           schema' = schema \/ \A id \in DepositId : deposits[id] = Nil
    PROVE  Fates' = Fates /\ Dues' = Dues
  <1>1. \A id \in DepositId : FateOf(deposits[id])' = FateOf(deposits[id])
    BY DEF FateOf
  <1>2. QED
    BY <1>1 DEF Fates, Dues

LEMMA CustodyStep == IInv /\ [Next]_vars => [Custody!CNext]_(Custody!cvars)
  <1> SUFFICES ASSUME IInv, [Next]_vars
               PROVE  Custody!CNext \/ UNCHANGED Custody!cvars
    OBVIOUS
  <1>1. CASE /\ UNCHANGED <<deposits, released, refunded>>
             /\ schema' = schema \/ \A id \in DepositId : deposits[id] = Nil
             /\ ledger' = ledger \/ ledger' > ledger
    <2>1. Fates' = Fates /\ Dues' = Dues
      BY <1>1, CustodyStutter
    <2>2. QED
      BY <1>1, <2>1 DEF Custody!CNext, Custody!Pass, Custody!cvars, Fates, Dues
  <1>2. ASSUME NEW signer \in Address, Migrate(signer)
        PROVE  UNCHANGED Custody!cvars
    <2>1. \A id \in DepositId : deposits[id] # Nil =>
             /\ deposits[id] \in EscrowDepositV1
             /\ deposits'[id] = Migrated(deposits[id])
             /\ deposits'[id] # Nil
      BY <1>2, MigratedRecord, EscrowAssumption DEF IInv, TypeOK, Migrate
    <2>2. \A id \in DepositId : deposits[id] = Nil => deposits'[id] = Nil
      BY <1>2 DEF Migrate
    <2>3. schema = 1 /\ schema' = 2 /\ ledger' = ledger
      BY <1>2 DEF Migrate, SchemaVersion
    <2>4. \A id \in DepositId : FateOf(deposits[id])' = FateOf(deposits[id])
      BY <2>1, <2>2, <2>3, MigratedRecord DEF FateOf
    <2>5. Fates' = Fates
      BY <2>4 DEF Fates
    <2>6. Dues' = Dues
      BY <2>1, <2>2, MigratedRecord DEF Dues
    <2>7. QED
      BY <2>3, <2>5, <2>6 DEF Custody!cvars, Fates, Dues
  <1>3. ASSUME NEW signer \in Address, NEW amount \in Amounts, NEW fee_bps \in FeeRates,
               Deposit(signer, amount, fee_bps)
        PROVE  \E id \in DepositId : Custody!Open(id)
    <2>1. nextId \in DepositId /\ deposits[nextId] = Nil
      BY <1>3, EscrowAssumption DEF Deposit, IInv, TypeOK, IdsAreDense, DepositId
    <2> DEFINE d == [depositor |-> signer, amount |-> amount, timestamp |-> ledger,
                     timeout_ledger |-> ledger + timeout, status |-> "Pending",
                     fee_bps |-> fee_bps]
    <2>2. ledger + timeout \in Ledger /\ ledger + timeout > ledger
      BY <1>3, EscrowAssumption, HostAssumption DEF IInv, TypeOK, Deposit, Ledger
    <2>3. d \in EscrowDeposit /\ d # Nil
      BY <2>2, EscrowAssumption DEF EscrowDeposit, EscrowStatus, IInv, TypeOK
    <2>4. d.status = "Pending" /\ d.timeout_ledger = ledger + timeout
      OBVIOUS
    <2>a. \A id \in DepositId : deposits'[id] = IF id = nextId THEN d ELSE deposits[id]
      BY <1>3 DEF Deposit, IInv, TypeOK
    <2>5. schema = 2 /\ schema' = 2 /\ ledger' = ledger
      BY <1>3 DEF Deposit, require_current_schema, SchemaVersion
    <2> HIDE DEF d
    <2>6. Fates[nextId] = "none" /\ Fates' = [Fates EXCEPT ![nextId] = "open"]
      <3>1. Fates[nextId] = "none"
        BY <2>1 DEF Fates, FateOf
      <3>2. \A id \in DepositId :
               FateOf(deposits[id])' = IF id = nextId THEN "open" ELSE FateOf(deposits[id])
        BY <2>3, <2>4, <2>a, <2>5 DEF FateOf
      <3>3. QED
        BY <3>1, <3>2, <2>1 DEF Fates
    <2>7. /\ Dues'[nextId] = ledger + timeout
          /\ Dues' = [Dues EXCEPT ![nextId] = Dues'[nextId]]
      BY <2>1, <2>3, <2>4, <2>a DEF Dues
    <2>8. PICK id \in DepositId : id = nextId
      BY <2>1
    <2>9. Custody!Open(id)
      BY <2>1, <2>2, <2>5, <2>6, <2>7, <2>8 DEF Custody!Open, Fates, Dues
    <2>10. QED
      BY <2>9
  <1>4. ASSUME NEW signer \in Address, NEW id \in DepositId,
               Release(signer, id) \/ Refund(signer, id)
        PROVE  Custody!Release(id) \/ Custody!Refund(id)
    <2>1. PICK s \in {"Resolved", "Cancelled"} :
             /\ deposits' = [deposits EXCEPT ![id] = [deposits[id] EXCEPT !.status = s]]
             /\ s = "Cancelled" => ledger >= deposits[id].timeout_ledger
      BY <1>4 DEF Release, Refund, PastDeadline, IInv, TypeOK
    <2>2. /\ schema = 2 /\ schema' = 2 /\ ledger' = ledger
          /\ deposits[id] \in EscrowDeposit /\ deposits[id] # Nil
          /\ deposits[id].status \notin {"Resolved", "Cancelled"}
      BY <1>4, SettleEffect DEF SchemaVersion, Settled
    <2> DEFINE d == [deposits[id] EXCEPT !.status = s]
    <2>3. /\ d # Nil /\ d.status = s /\ d.timeout_ledger = deposits[id].timeout_ledger
      BY <2>2, EscrowAssumption DEF EscrowDeposit, EscrowStatus
    <2>4. \A i \in DepositId : deposits'[i] = IF i = id THEN d ELSE deposits[i]
      BY <2>1 DEF IInv, TypeOK
    <2> HIDE DEF d
    <2>5. Dues' = Dues
      BY <2>2, <2>3, <2>4 DEF Dues
    <2>6. Fates[id] = "open"
      BY <2>2 DEF Fates, FateOf
    <2>7. Fates' = [Fates EXCEPT ![id] = IF s = "Resolved" THEN "released" ELSE "refunded"]
      <3>1. \A i \in DepositId :
               FateOf(deposits[i])' =
                  IF i = id THEN (IF s = "Resolved" THEN "released" ELSE "refunded")
                  ELSE FateOf(deposits[i])
        BY <2>2, <2>3, <2>4 DEF FateOf
      <3>2. QED
        BY <3>1 DEF Fates
    <2>8. CASE s = "Resolved"
      BY <2>2, <2>5, <2>6, <2>7, <2>8 DEF Custody!Release, Fates, Dues
    <2>9. CASE s = "Cancelled"
      BY <2>1, <2>2, <2>5, <2>6, <2>7, <2>9 DEF Custody!Refund, Fates, Dues
    <2>10. QED
      BY <2>8, <2>9
  <1>5. QED
    BY <1>1, <1>2, <1>3, <1>4, QuietStep DEF Custody!CNext

\* The escrow implements the abstract custody of CustodyLedger, schema
\* migration included.
THEOREM EscrowRefinesCustody == Spec => ImplementsCustody
  <1>1. Init => Custody!CInit
    BY InitIInv, CustodyInit
  <1>2. QED
    BY <1>1, CustodyStep, Invariance, PTL DEF Spec, ImplementsCustody, Custody!CSpec
=============================================================================
