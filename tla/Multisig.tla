------------------------------ MODULE Multisig ------------------------------
(***************************************************************************)
(* The M-of-N settlement authority (contracts/multisig-authority).  As in  *)
(* Escrow, one action is one successful invocation, a rejected call        *)
(* changes nothing, and the parameter who is the address that authorised   *)
(* the call.                                                               *)
(*                                                                         *)
(* The signer list is kept as a set: its order is only ever displayed, and *)
(* both writers of the list refuse duplicates.  The list handed to init is *)
(* a sequence, for that refusal to mean something.  The id, description    *)
(* and target of a proposal are opaque; they are left out of its record.   *)
(***************************************************************************)
EXTENDS SorobanHost, Sequences, FiniteSets, Functions

CONSTANTS
    Address,      \* accounts that may sign a call
    SignerLists,  \* lists a caller may pass to init
    Thresholds,   \* u32 thresholds a caller may pass
    Limits,       \* i128 high-value limits a caller may pass
    Values,       \* i128 proposal values a caller may pass
    ProposalId,   \* ids a proposer may choose
    ProposalTtl,  \* DEFAULT_PROPOSAL_TTL_LEDGERS
    MaxSigners,   \* MAX_SIGNERS
    Wasm,         \* hashes of uploaded builds
    ThisBuild,    \* the build in the repository
    Nil           \* an absent storage entry

SchemaVersion == 2

SignersConfig ==
    [admin : Address, signers : SUBSET Address,
     threshold : Nat, high_value_limit : Nat]

\* The record of a schema v1 build; a v2 record adds expires_at.
ProposalV1 ==
    [value : Nat, signatures : Seq(Address), executed : BOOLEAN,
     created_at : Ledger]

Proposal ==
    [value : Nat, signatures : Seq(Address), executed : BOOLEAN,
     created_at : Ledger, expires_at : Ledger]

ASSUME MultisigAssumption ==
    /\ SignerLists \subseteq Seq(Address)
    /\ Thresholds \subseteq Nat
    /\ Limits \subseteq Int
    /\ Values \subseteq Int
    /\ ProposalTtl \in Nat
    /\ MaxSigners \in Nat
    /\ ThisBuild \in Wasm
    /\ Nil \notin SignersConfig
    /\ Nil \notin ProposalV1
    /\ Nil \notin Proposal

VARIABLES
    ledger,      \* env.ledger().sequence()
    liveUntil,   \* last ledger of the instance entry's life
    wasm,        \* the installed build
    schema,      \* DataKey::Schema, 0 before init
    config,      \* DataKey::Signers
    proposals,   \* DataKey::Proposals
    approvals,   \* addresses of the published proposed and signed events
    executions,  \* number of published executed events
    lapsed       \* <<id, a>>: a was removed after signing proposal id

storage == <<schema, config, proposals>>
history == <<approvals, executions, lapsed>>
vars == <<ledger, liveUntil, wasm, storage, history>>

-----------------------------------------------------------------------------

\* An invocation reaches the code of this repository.
Invokable == wasm = ThisBuild /\ Alive(liveUntil, ledger)

require_current_schema == schema = SchemaVersion

assert_is_admin(who) == config # Nil /\ who = config.admin

assert_is_signer(who) == config # Nil /\ who \in config.signers

bump_instance_ttl == liveUntil' = ExtendTtl(liveUntil, ledger)

\* A limit of 0 means that every value needs the full threshold.
required_threshold(c, value) ==
    IF c.high_value_limit > 0 /\ value <= c.high_value_limit
    THEN 1 ELSE c.threshold

\* Fault: every signature counts, also of a signer removed since.
live_signature_count_All(signatures) == Len(signatures)

live_signature_count(signatures) ==
    Cardinality({i \in DOMAIN signatures : signatures[i] \in config.signers})

\* A threshold that a signer set can reach.
ValidThreshold(t, signers) == t \in 1 .. Cardinality(signers)

\* A proposal that can still be signed or executed.
Open(p) == ~p.executed /\ ledger <= p.expires_at

-----------------------------------------------------------------------------

\* Lists of distinct addresses.
DistinctLists ==
    {s \in UNION {[1 .. n -> Address] : n \in 1 .. MaxSigners} : IsInjective(s)}

\* A proposal of a v1 build, made at some earlier ledger.  A v1 build kept no
\* expiry; its signers may have been removed since they signed.
LegacyProposals ==
    [value : {v \in Values : v >= 0}, signatures : DistinctLists,
     executed : BOOLEAN, created_at : 0 .. ledger]

Init ==
    /\ ledger \in Ledger
    /\ liveUntil = FreshTtl(ledger)
    /\ wasm = ThisBuild
    /\ \/ /\ schema = 0
          /\ config = Nil
          /\ proposals = [id \in ProposalId |-> Nil]
       \/ /\ schema = 1
          /\ \E a \in Address, s \in DistinctLists, t \in Thresholds, l \in Limits :
                /\ ValidThreshold(t, Range(s))
                /\ l >= 0
                /\ config = [admin |-> a, signers |-> Range(s),
                             threshold |-> t, high_value_limit |-> l]
          /\ proposals \in [ProposalId -> LegacyProposals \cup {Nil}]
    /\ approvals = [id \in ProposalId |->
                       IF proposals[id] = Nil THEN <<>>
                       ELSE proposals[id].signatures]
    /\ executions = [id \in ProposalId |->
                        IF proposals[id] # Nil /\ proposals[id].executed
                        THEN 1 ELSE 0]
    /\ lapsed = {}

\* Fault: the list is not searched for duplicates.
Initialize_Duplicates(who, list, t, limit) ==
    /\ Invokable
    /\ schema = 0
    /\ list # <<>>
    /\ Len(list) <= MaxSigners
    /\ t \in 1 .. Len(list)
    /\ limit >= 0
    /\ config' = [admin |-> who, signers |-> Range(list),
                  threshold |-> t, high_value_limit |-> limit]
    /\ proposals' = [id \in ProposalId |-> Nil]
    /\ schema' = SchemaVersion
    /\ bump_instance_ttl
    /\ UNCHANGED <<ledger, wasm, history>>

\* init(admin, signers, threshold, high_value_limit)
Initialize(who, list, t, limit) ==
    /\ Invokable
    /\ schema = 0
    /\ list # <<>>
    /\ Len(list) <= MaxSigners
    /\ IsInjective(list)
    /\ t \in 1 .. Len(list)
    /\ limit >= 0
    /\ config' = [admin |-> who, signers |-> Range(list),
                  threshold |-> t, high_value_limit |-> limit]
    /\ proposals' = [id \in ProposalId |-> Nil]
    /\ schema' = SchemaVersion
    /\ bump_instance_ttl
    /\ UNCHANGED <<ledger, wasm, history>>

\* propose(proposer, id, description, target, value)
Propose(who, id, value) ==
    /\ Invokable
    /\ require_current_schema
    /\ value >= 0
    /\ assert_is_signer(who)
    /\ proposals[id] = Nil
    /\ ledger + ProposalTtl <= U32Max
    /\ proposals' = [proposals EXCEPT ![id] =
                        [value |-> value, signatures |-> <<who>>,
                         executed |-> FALSE, created_at |-> ledger,
                         expires_at |-> ledger + ProposalTtl]]
    /\ approvals' = [approvals EXCEPT ![id] = Append(@, who)]
    /\ bump_instance_ttl
    /\ UNCHANGED <<ledger, wasm, schema, config, executions, lapsed>>

\* Fault: a second signature of the same signer is taken.
Sign_Twice(who, id) ==
    /\ Invokable
    /\ require_current_schema
    /\ assert_is_signer(who)
    /\ proposals[id] # Nil
    /\ Open(proposals[id])
    /\ Len(proposals[id].signatures) < MaxSigners
    /\ proposals' = [proposals EXCEPT ![id].signatures = Append(@, who)]
    /\ approvals' = [approvals EXCEPT ![id] = Append(@, who)]
    /\ bump_instance_ttl
    /\ UNCHANGED <<ledger, wasm, schema, config, executions, lapsed>>

\* sign(signer, proposal_id)
Sign(who, id) ==
    /\ Invokable
    /\ require_current_schema
    /\ assert_is_signer(who)
    /\ proposals[id] # Nil
    /\ Open(proposals[id])
    /\ who \notin Range(proposals[id].signatures)
    /\ proposals' = [proposals EXCEPT ![id].signatures = Append(@, who)]
    /\ approvals' = [approvals EXCEPT ![id] = Append(@, who)]
    /\ bump_instance_ttl
    /\ UNCHANGED <<ledger, wasm, schema, config, executions, lapsed>>

\* execute(executor, proposal_id): the quorum is that of this ledger.
Execute(who, id) ==
    /\ Invokable
    /\ require_current_schema
    /\ assert_is_signer(who)
    /\ proposals[id] # Nil
    /\ Open(proposals[id])
    /\ live_signature_count(proposals[id].signatures)
          >= required_threshold(config, proposals[id].value)
    /\ proposals' = [proposals EXCEPT ![id].executed = TRUE]
    /\ executions' = [executions EXCEPT ![id] = @ + 1]
    /\ bump_instance_ttl
    /\ UNCHANGED <<ledger, wasm, schema, config, approvals, lapsed>>

\* What every admin operation on the signer configuration shares.
Reconfigure(who, c) ==
    /\ Invokable
    /\ require_current_schema
    /\ assert_is_admin(who)
    /\ config' = c
    /\ bump_instance_ttl
    /\ UNCHANGED <<ledger, wasm, schema, proposals, approvals, executions>>

\* add_signer(admin, new_signer)
AddSigner(who, new_signer) ==
    /\ Reconfigure(who, [config EXCEPT !.signers = @ \cup {new_signer}])
    /\ new_signer \notin config.signers
    /\ Cardinality(config.signers) < MaxSigners
    /\ UNCHANGED lapsed

\* Fault: the size of the set is checked before the removal.
RemoveSigner_LastOne(who, signer) ==
    /\ Reconfigure(who, [config EXCEPT !.signers = @ \ {signer}])
    /\ signer \in config.signers
    /\ Cardinality(config.signers) >= config.threshold
    /\ UNCHANGED lapsed

\* remove_signer(admin, signer)
RemoveSigner(who, signer) ==
    /\ Reconfigure(who, [config EXCEPT !.signers = @ \ {signer}])
    /\ signer \in config.signers
    /\ Cardinality(config.signers) - 1 >= config.threshold
    /\ lapsed' = lapsed \cup {<<id, signer>> : id \in
                    {i \in ProposalId : proposals[i] # Nil /\
                                        signer \in Range(proposals[i].signatures)}}

\* set_threshold(admin, new_threshold)
SetThreshold(who, new_threshold) ==
    /\ Reconfigure(who, [config EXCEPT !.threshold = new_threshold])
    /\ ValidThreshold(new_threshold, config.signers)
    /\ UNCHANGED lapsed

\* set_high_value_limit(admin, limit)
SetHighValueLimit(who, limit) ==
    /\ Reconfigure(who, [config EXCEPT !.high_value_limit = limit])
    /\ limit >= 0
    /\ UNCHANGED lapsed

\* upgrade(admin, new_wasm_hash): an admin-key action, outside the quorum.
Upgrade(who, new_wasm_hash) ==
    /\ Invokable
    /\ assert_is_admin(who)
    /\ wasm' = new_wasm_hash
    /\ UNCHANGED <<ledger, liveUntil, storage, history>>

\* Fault: the window is counted from the migration.
Migrated_FreshWindow(v1) ==
    [value |-> v1.value, signatures |-> v1.signatures,
     executed |-> v1.executed, created_at |-> v1.created_at,
     expires_at |-> SaturatingAdd(ledger, ProposalTtl)]

\* Fault: executed is not carried over.
Migrated_Unexecuted(v1) ==
    [value |-> v1.value, signatures |-> v1.signatures,
     executed |-> FALSE, created_at |-> v1.created_at,
     expires_at |-> SaturatingAdd(v1.created_at, ProposalTtl)]

\* The v2 record a v1 record becomes.
Migrated(v1) ==
    [value |-> v1.value, signatures |-> v1.signatures,
     executed |-> v1.executed, created_at |-> v1.created_at,
     expires_at |-> SaturatingAdd(v1.created_at, ProposalTtl)]

\* migrate(admin)
Migrate(who) ==
    /\ Invokable
    /\ assert_is_admin(who)
    /\ schema = 1
    /\ proposals' = [id \in ProposalId |->
                        IF proposals[id] = Nil THEN Nil
                        ELSE Migrated(proposals[id])]
    /\ schema' = SchemaVersion
    /\ bump_instance_ttl
    /\ UNCHANGED <<ledger, wasm, config, history>>

\* The network closes a ledger.
CloseLedger ==
    /\ ledger < U32Max
    /\ ledger' = ledger + 1
    /\ UNCHANGED <<liveUntil, wasm, storage, history>>

\* Anyone pays to restore an archived instance entry.
Restore ==
    /\ ~Alive(liveUntil, ledger)
    /\ liveUntil' = FreshTtl(ledger)
    /\ UNCHANGED <<ledger, wasm, storage, history>>

Next ==
    \/ \E who \in Address :
          \/ \E list \in SignerLists, t \in Thresholds, limit \in Limits :
                Initialize(who, list, t, limit)
          \/ \E id \in ProposalId :
                \/ \E value \in Values : Propose(who, id, value)
                \/ Sign(who, id)
                \/ Execute(who, id)
          \/ \E signer \in Address :
                AddSigner(who, signer) \/ RemoveSigner(who, signer)
          \/ \E t \in Thresholds : SetThreshold(who, t)
          \/ \E limit \in Limits : SetHighValueLimit(who, limit)
          \/ \E hash \in Wasm : Upgrade(who, hash)
          \/ Migrate(who)
    \/ CloseLedger
    \/ Restore

Spec == Init /\ [][Next]_vars

-----------------------------------------------------------------------------

\* Types of the storage entries; the layout of a proposal follows the schema.
TypeOK ==
    /\ ledger \in Ledger
    /\ liveUntil \in Ledger
    /\ wasm \in Wasm
    /\ schema \in 0 .. SchemaVersion
    /\ config \in SignersConfig \cup {Nil}
    /\ proposals \in [ProposalId -> (IF schema = 1 THEN ProposalV1 ELSE Proposal)
                                    \cup {Nil}]
    /\ approvals \in [ProposalId -> Seq(Address)]
    /\ executions \in [ProposalId -> Nat]
    /\ lapsed \subseteq ProposalId \X Address

\* No sequence of admin calls leaves a threshold that the signers cannot
\* reach, or one of zero that any caller could meet (lib.rs: removal "fails if
\* removal would make quorum unreachable").
QuorumIsReachable ==
    /\ config = Nil <=> schema = 0
    /\ config # Nil =>
          /\ ValidThreshold(config.threshold, config.signers)
          /\ Cardinality(config.signers) <= MaxSigners

\* The audit log and the record agree, across migrations and changes of the
\* signer set: the signatures of a proposal are the signers of its events, in
\* order, nobody twice (lib.rs: "every collected signature is emitted").
AuditTrailMatches ==
    \A id \in ProposalId :
        /\ IsInjective(approvals[id])
        /\ approvals[id] = IF proposals[id] = Nil THEN <<>>
                           ELSE proposals[id].signatures

\* The value of a proposal is handed out at most once, and exactly when the
\* record says executed; a migrated proposal keeps that record.
ExecutedOnce ==
    \A id \in ProposalId :
        executions[id] =
            IF proposals[id] # Nil /\ proposals[id].executed THEN 1 ELSE 0

\* Signing and execution end ProposalTtl ledgers after the proposal was made,
\* whether it was made by this build or migrated, and nothing reopens it.
WindowNeverReopens ==
    [][\A id \in ProposalId :
          (/\ proposals[id] # Nil
           /\ ledger > SaturatingAdd(proposals[id].created_at, ProposalTtl)
           /\ schema = SchemaVersion)
          => UNCHANGED <<approvals[id], executions[id], proposals[id]>>]_vars

Quorum ==
    INSTANCE QuorumDecision WITH
        Matter    <- ProposalId,
        Voter     <- Address,
        members   <- IF config = Nil THEN {} ELSE config.signers,
        need      <- [id \in ProposalId |->
                         IF config = Nil \/ proposals[id] = Nil THEN 1
                         ELSE required_threshold(config, proposals[id].value)],
        endorsed  <- [id \in ProposalId |-> Range(approvals[id])],
        decisions <- executions

\* The contract keeps the promise of QuorumDecision: an execution has behind
\* it enough distinct signers of that moment, under the threshold and limit of
\* that moment.
ImplementsQuorum == Quorum!QSpec

\* A signature given before its signer was removed "is dead" and does not count
\* again when the address is added back (test.rs: "the signature from before
\* removal is dead").
RemovedSignaturesStayDead ==
    [][\A id \in ProposalId :
          executions'[id] > executions[id] =>
             Cardinality({a \in Range(approvals[id]) \cap config.signers :
                             <<id, a>> \notin lapsed})
                >= required_threshold(config, proposals[id].value)]_vars
=============================================================================
