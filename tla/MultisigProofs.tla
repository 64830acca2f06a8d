--------------------------- MODULE MultisigProofs ---------------------------
(***************************************************************************)
(* Proofs about Multisig for every value of its constants.  The inductive  *)
(* invariant IInv says that the signer set is finite (so that a threshold  *)
(* can be compared with its size), that the events and the records agree,  *)
(* and that every v2 record carries the window its creation implies.  That *)
(* no signer appears twice in a record is what lets the contract count     *)
(* entries of a list where the promise counts people: LiveCountIsDistinct. *)
(***************************************************************************)
EXTENDS Multisig, FiniteSetTheorems, TLAPS

SignersAreFinite == config # Nil => IsFiniteSet(config.signers)

\* No proposal is stored before init.
EmptyBeforeInit ==
    schema = 0 => \A id \in ProposalId : proposals[id] = Nil

\* The end of a window is never stored as anything but what creation implies.
WindowFollowsCreation ==
    schema = SchemaVersion =>
       \A id \in ProposalId :
          proposals[id] # Nil =>
             proposals[id].expires_at
                = SaturatingAdd(proposals[id].created_at, ProposalTtl)

IInv ==
    /\ TypeOK
    /\ SignersAreFinite
    /\ QuorumIsReachable
    /\ AuditTrailMatches
    /\ ExecutedOnce
    /\ EmptyBeforeInit
    /\ WindowFollowsCreation

-----------------------------------------------------------------------------

\* The host's saturating arithmetic stays within the 32-bit ledger range.
LEMMA TtlType ==
    ASSUME NEW now \in Ledger, NEW live \in Ledger
    PROVE  /\ FreshTtl(now) \in Ledger
           /\ ExtendTtl(live, now) \in Ledger
           /\ SaturatingAdd(now, ProposalTtl) \in Ledger
  BY HostAssumption, MultisigAssumption
  DEF FreshTtl, ExtendTtl, SaturatingAdd, Ledger

\* A list has at least as many entries as members, and exactly as many when no
\* member appears twice.
LEMMA RangeOfList ==
    ASSUME NEW s \in Seq(Address)
    PROVE  /\ IsFiniteSet(Range(s))
           /\ Cardinality(Range(s)) \in Nat
           /\ Cardinality(Range(s)) <= Len(s)
           /\ IsInjective(s) => Cardinality(Range(s)) = Len(s)
           /\ Range(s) \subseteq Address
  <1>1. DOMAIN s = 1 .. Len(s) /\ Len(s) \in Nat /\ s \in [1 .. Len(s) -> Address]
    OBVIOUS
  <1>2. s \in Surjection(1 .. Len(s), Range(s))
    BY <1>1 DEF Surjection, Range
  <1>3. IsFiniteSet(1 .. Len(s)) /\ Cardinality(1 .. Len(s)) = Len(s)
    BY <1>1, FS_Interval
  <1>4. IsInjective(s) => s \in Injection(1 .. Len(s), Range(s))
    BY <1>1 DEF Injection, Range
  <1>5. /\ IsFiniteSet(Range(s))
        /\ Cardinality(Range(s)) <= Len(s)
        /\ IsInjective(s) => Cardinality(Range(s)) = Len(s)
    BY <1>2, <1>3, <1>4, FS_Surjection
  <1>6. Cardinality(Range(s)) \in Nat
    BY <1>5, FS_CardinalityType
  <1>7. Range(s) \subseteq Address
    BY <1>1 DEF Range
  <1>8. QED
    BY <1>5, <1>6, <1>7

\* Counting the entries of a list without repetition that lie in a set counts
\* the members the list and the set have in common.
LEMMA LiveCountIsDistinct ==
    ASSUME NEW s \in Seq(Address), IsInjective(s), NEW S
    PROVE  Cardinality({i \in DOMAIN s : s[i] \in S}) = Cardinality(Range(s) \cap S)
  <1> DEFINE D == {i \in DOMAIN s : s[i] \in S}
             f == [i \in D |-> s[i]]
  <1>1. IsFiniteSet(D)
    <2>1. IsFiniteSet(1 .. Len(s)) /\ D \in SUBSET (1 .. Len(s))
      BY FS_Interval
    <2>2. QED
      BY <2>1, FS_Subset
  <1>2. f \in Bijection(D, Range(s) \cap S)
    <2>1. f \in [D -> Range(s) \cap S]
      BY DEF Range
    <2>2. IsInjective(f)
      BY DEF IsInjective
    <2>3. \A t \in Range(s) \cap S : \E i \in D : f[i] = t
      BY DEF Range
    <2>4. QED
      BY <2>1, <2>2, <2>3 DEF Bijection, Injection, Surjection
  <1>3. QED
    BY <1>1, <1>2, FS_Bijection DEF ExistsBijection

\* A finite set has n different members for every n up to its size.
LEMMA DistinctMembers ==
    ASSUME NEW S, IsFiniteSet(S), NEW n \in Nat, n <= Cardinality(S)
    PROVE  \E f \in [1 .. n -> S] : \A i, j \in 1 .. n : f[i] = f[j] => i = j
  <1>1. Cardinality(S) \in Nat
    BY FS_CardinalityType
  <1>2. PICK g \in Bijection(1 .. Cardinality(S), S) : TRUE
    BY FS_CardinalityType DEF ExistsBijection
  <1>3. /\ g \in [1 .. Cardinality(S) -> S]
        /\ \A i, j \in 1 .. Cardinality(S) : g[i] = g[j] => i = j
    BY <1>2 DEF Bijection, Injection, IsInjective
  <1>4. 1 .. n \subseteq 1 .. Cardinality(S)
    BY <1>1
  <1> DEFINE f == [i \in 1 .. n |-> g[i]]
  <1>5. f \in [1 .. n -> S] /\ \A i, j \in 1 .. n : f[i] = f[j] => i = j
    BY <1>3, <1>4
  <1>6. QED
    BY <1>5

\* Adding an absent entry keeps a list free of repetition.
LEMMA AppendDistinct ==
    ASSUME NEW s \in Seq(Address), IsInjective(s), NEW a \in Address,
           a \notin Range(s)
    PROVE  /\ Append(s, a) \in Seq(Address)
           /\ IsInjective(Append(s, a))
           /\ Range(Append(s, a)) = Range(s) \cup {a}
  <1>1. /\ Append(s, a) \in Seq(Address)
        /\ DOMAIN s = 1 .. Len(s)
        /\ DOMAIN Append(s, a) = 1 .. Len(s) + 1
        /\ \A i \in 1 .. Len(s) : Append(s, a)[i] = s[i]
        /\ Append(s, a)[Len(s) + 1] = a
        /\ Len(s) \in Nat
    OBVIOUS
  <1>2. \A i \in 1 .. Len(s) : s[i] # a
    BY <1>1 DEF Range
  <1>3. IsInjective(Append(s, a))
    BY <1>1, <1>2 DEF IsInjective
  <1>4. Range(Append(s, a)) = Range(s) \cup {a}
    BY <1>1 DEF Range
  <1>5. QED
    BY <1>1, <1>3, <1>4

\* What a v1 record converts to: the same proposal with its implied window.
LEMMA MigratedRecord ==
    ASSUME NEW v1 \in ProposalV1
    PROVE  /\ Migrated(v1) \in Proposal
           /\ Migrated(v1) # Nil
           /\ Migrated(v1).value = v1.value
           /\ Migrated(v1).signatures = v1.signatures
           /\ Migrated(v1).executed = v1.executed
           /\ Migrated(v1).expires_at
                 = SaturatingAdd(Migrated(v1).created_at, ProposalTtl)
  <1>1. v1.created_at \in Ledger
    BY DEF ProposalV1
  <1>2. SaturatingAdd(v1.created_at, ProposalTtl) \in Ledger
    BY <1>1, TtlType
  <1>3. Migrated(v1) \in Proposal
    BY <1>1, <1>2 DEF Migrated, Proposal, ProposalV1
  <1>4. QED
    BY <1>3, MultisigAssumption DEF Migrated

-----------------------------------------------------------------------------

LEMMA InitIInv == Init => IInv
  <1> SUFFICES ASSUME Init PROVE IInv
    OBVIOUS
  <1>1. ledger \in Ledger /\ liveUntil \in Ledger /\ wasm \in Wasm
    BY TtlType, MultisigAssumption DEF Init
  <1>2. lapsed \subseteq ProposalId \X Address
    BY DEF Init
  <1>3. CASE schema = 0
    <2>1. config = Nil /\ proposals = [id \in ProposalId |-> Nil]
      BY <1>3 DEF Init
    <2>2. approvals = [id \in ProposalId |-> <<>>]
          /\ executions = [id \in ProposalId |-> 0]
      BY <2>1 DEF Init
    <2>3. IsInjective(<<>>)
      BY DEF IsInjective
    <2>4. QED
      BY <1>1, <1>2, <1>3, <2>1, <2>2, <2>3
      DEF IInv, TypeOK, SignersAreFinite, QuorumIsReachable, AuditTrailMatches,
          ExecutedOnce, EmptyBeforeInit, WindowFollowsCreation, SchemaVersion
  <1>4. CASE schema = 1
    <2>1. PICK a \in Address, s \in DistinctLists, t \in Thresholds, l \in Limits :
             /\ ValidThreshold(t, Range(s))
             /\ l >= 0
             /\ config = [admin |-> a, signers |-> Range(s),
                          threshold |-> t, high_value_limit |-> l]
      BY <1>4 DEF Init
    <2>2. \A q \in DistinctLists :
             q \in Seq(Address) /\ IsInjective(q) /\ Len(q) <= MaxSigners
      BY MultisigAssumption DEF DistinctLists
    <2>3. config \in SignersConfig /\ config # Nil
      BY <2>1, <2>2, RangeOfList, MultisigAssumption DEF SignersConfig
    <2>4. SignersAreFinite /\ QuorumIsReachable
      <3>1. /\ IsFiniteSet(Range(s))
            /\ Cardinality(Range(s)) \in Nat
            /\ Cardinality(Range(s)) <= MaxSigners
        BY <2>2, RangeOfList, MultisigAssumption
      <3>2. config.signers = Range(s) /\ config.threshold = t
        BY <2>1
      <3>3. QED
        BY <1>4, <2>1, <2>3, <3>1, <3>2
        DEF SignersAreFinite, QuorumIsReachable
    <2>5. proposals \in [ProposalId -> LegacyProposals \cup {Nil}]
      BY <1>4 DEF Init
    <2>6. \A p \in LegacyProposals : p \in ProposalV1 /\ p # Nil
      <3>1. 0 .. ledger \subseteq Ledger
        BY <1>1, HostAssumption DEF Ledger
      <3>2. /\ \A v \in Values : v >= 0 => v \in Nat
            /\ DistinctLists \subseteq Seq(Address)
        BY <2>2, MultisigAssumption
      <3>3. LegacyProposals \subseteq ProposalV1
        BY <3>1, <3>2 DEF LegacyProposals, ProposalV1
      <3>4. QED
        BY <3>3, MultisigAssumption
    <2>7. \A p \in LegacyProposals : IsInjective(p.signatures)
      BY <2>2 DEF LegacyProposals
    <2>8. TypeOK
      <3>1. proposals \in [ProposalId -> ProposalV1 \cup {Nil}]
        BY <2>5, <2>6
      <3>2. approvals \in [ProposalId -> Seq(Address)]
        BY <3>1 DEF Init, ProposalV1
      <3>3. executions \in [ProposalId -> Nat]
        BY DEF Init
      <3>4. QED
        BY <1>1, <1>2, <1>4, <2>3, <3>1, <3>2, <3>3 DEF TypeOK, SchemaVersion
    <2>9. AuditTrailMatches
      <3>1. IsInjective(<<>>)
        BY DEF IsInjective
      <3>2. QED
        BY <2>5, <2>7, <3>1 DEF Init, AuditTrailMatches
    <2>10. ExecutedOnce
      BY DEF Init, ExecutedOnce
    <2>11. QED
      BY <1>4, <2>4, <2>8, <2>9, <2>10
      DEF IInv, EmptyBeforeInit, WindowFollowsCreation, SchemaVersion
  <1>5. QED
    BY <1>3, <1>4 DEF Init

-----------------------------------------------------------------------------

\* A call that leaves the proposals and the events alone keeps the invariant, as
\* long as what it writes keeps its type and its quorum.
LEMMA FrameIInv ==
    ASSUME IInv, UNCHANGED <<schema, proposals, approvals, executions>>,
           ledger' \in Ledger, liveUntil' \in Ledger, wasm' \in Wasm,
           config' \in SignersConfig \cup {Nil},
           lapsed' \subseteq ProposalId \X Address,
           SignersAreFinite', QuorumIsReachable'
    PROVE  IInv'
  BY DEF IInv, TypeOK, AuditTrailMatches, ExecutedOnce, EmptyBeforeInit,
         WindowFollowsCreation

\* The same for a call that does not touch the configuration either.
LEMMA QuietIInv ==
    ASSUME IInv, UNCHANGED <<storage, history>>,
           ledger' \in Ledger, liveUntil' \in Ledger, wasm' \in Wasm
    PROVE  IInv'
  <1>1. SignersAreFinite' /\ QuorumIsReachable'
    BY DEF IInv, SignersAreFinite, QuorumIsReachable, ValidThreshold, storage
  <1>2. QED
    BY <1>1, FrameIInv DEF IInv, TypeOK, storage, history

LEMMA InitializeIInv ==
    ASSUME IInv, NEW who \in Address, NEW list \in SignerLists,
           NEW t \in Thresholds, NEW limit \in Limits,
           Initialize(who, list, t, limit)
    PROVE  IInv'
  <1>1. liveUntil' \in Ledger
    BY TtlType DEF IInv, TypeOK, Initialize, bump_instance_ttl
  <1>2. list \in Seq(Address)
    BY MultisigAssumption
  <1>3. /\ IsFiniteSet(Range(list))
        /\ Cardinality(Range(list)) = Len(list)
        /\ Range(list) \subseteq Address
    BY <1>2, RangeOfList DEF Initialize
  <1>4. config' \in SignersConfig /\ config' # Nil
    BY <1>3, MultisigAssumption DEF Initialize, SignersConfig
  <1>5. SignersAreFinite' /\ QuorumIsReachable'
    BY <1>3, <1>4
    DEF Initialize, SignersAreFinite, QuorumIsReachable, ValidThreshold,
        SchemaVersion
  <1>6. UNCHANGED proposals
    BY DEF Initialize, IInv, EmptyBeforeInit, TypeOK
  <1>7. QED
    BY <1>1, <1>4, <1>5, <1>6, MultisigAssumption
    DEF Initialize, IInv, TypeOK, AuditTrailMatches, ExecutedOnce,
        EmptyBeforeInit, WindowFollowsCreation, SchemaVersion, history

LEMMA ProposeIInv ==
    ASSUME IInv, NEW who \in Address, NEW id \in ProposalId,
           NEW value \in Values, Propose(who, id, value)
    PROVE  IInv'
  <1> DEFINE p == [value |-> value, signatures |-> <<who>>,
                   executed |-> FALSE, created_at |-> ledger,
                   expires_at |-> ledger + ProposalTtl]
  <1>1. liveUntil' \in Ledger
    BY TtlType DEF IInv, TypeOK, Propose, bump_instance_ttl
  <1>2. schema = SchemaVersion /\ proposals[id] = Nil /\ ledger \in Ledger
    BY DEF Propose, require_current_schema, IInv, TypeOK
  <1>3. ledger + ProposalTtl \in Ledger
        /\ ledger + ProposalTtl = SaturatingAdd(ledger, ProposalTtl)
    BY <1>2, MultisigAssumption, HostAssumption DEF Propose, Ledger, SaturatingAdd
  <1>4. Append(<<>>, who) = <<who>> /\ IsInjective(<<who>>)
        /\ <<who>> \in Seq(Address)
    BY DEF IsInjective
  <1>5. approvals[id] = <<>> /\ executions[id] = 0
    BY <1>2 DEF IInv, AuditTrailMatches, ExecutedOnce
  <1>6. p \in Proposal /\ p # Nil
    <2>1. value \in Nat
      BY MultisigAssumption DEF Propose
    <2>2. p \in Proposal
      BY <1>2, <1>3, <1>4, <2>1 DEF Proposal
    <2>3. QED
      BY <2>2, MultisigAssumption
  <1>7. /\ p.signatures = <<who>> /\ p.executed = FALSE
        /\ p.expires_at = SaturatingAdd(p.created_at, ProposalTtl)
    BY <1>3
  <1>8. proposals' = [proposals EXCEPT ![id] = p]
    BY DEF Propose
  <1>9. approvals' = [approvals EXCEPT ![id] = <<who>>]
    BY <1>4, <1>5 DEF Propose
  <1> HIDE DEF p
  <1>10. TypeOK'
    <2>1. proposals' \in [ProposalId -> Proposal \cup {Nil}]
      BY <1>2, <1>6, <1>8 DEF IInv, TypeOK, SchemaVersion
    <2>2. approvals' \in [ProposalId -> Seq(Address)]
      BY <1>4, <1>9 DEF IInv, TypeOK
    <2>3. QED
      BY <1>1, <1>2, <2>1, <2>2 DEF Propose, IInv, TypeOK, SchemaVersion
  <1>11. SignersAreFinite' /\ QuorumIsReachable'
    BY DEF Propose, IInv, SignersAreFinite, QuorumIsReachable, ValidThreshold
  <1>12. \A i \in ProposalId :
            /\ proposals'[i] = IF i = id THEN p ELSE proposals[i]
            /\ approvals'[i] = IF i = id THEN <<who>> ELSE approvals[i]
    BY <1>8, <1>9 DEF IInv, TypeOK
  <1>13. AuditTrailMatches'
    BY <1>4, <1>6, <1>7, <1>12 DEF IInv, AuditTrailMatches
  <1>14. ExecutedOnce'
    BY <1>5, <1>6, <1>7, <1>12 DEF Propose, IInv, ExecutedOnce
  <1>15. EmptyBeforeInit' /\ WindowFollowsCreation'
    BY <1>2, <1>7, <1>12
    DEF Propose, IInv, EmptyBeforeInit, WindowFollowsCreation, SchemaVersion
  <1>16. QED
    BY <1>10, <1>11, <1>13, <1>14, <1>15 DEF IInv

LEMMA SignIInv ==
    ASSUME IInv, NEW who \in Address, NEW id \in ProposalId, Sign(who, id)
    PROVE  IInv'
  <1> DEFINE old == proposals[id]
             p   == [old EXCEPT !.signatures = Append(old.signatures, who)]
  <1>1. liveUntil' \in Ledger
    BY TtlType DEF IInv, TypeOK, Sign, bump_instance_ttl
  <1>2. schema = SchemaVersion /\ old \in Proposal /\ old # Nil
    BY DEF Sign, require_current_schema, IInv, TypeOK, SchemaVersion
  <1>3. approvals[id] = old.signatures /\ IsInjective(old.signatures)
        /\ old.signatures \in Seq(Address)
    BY <1>2 DEF IInv, AuditTrailMatches, Proposal
  <1>4. /\ Append(old.signatures, who) \in Seq(Address)
        /\ IsInjective(Append(old.signatures, who))
    BY <1>3, AppendDistinct DEF Sign
  <1>5. /\ p \in Proposal /\ p # Nil
        /\ p.signatures = Append(old.signatures, who)
        /\ p.executed = old.executed
        /\ p.created_at = old.created_at
        /\ p.expires_at = old.expires_at
    BY <1>2, <1>4, MultisigAssumption DEF Proposal
  <1>6. proposals' = [proposals EXCEPT ![id] = p]
    BY DEF Sign, IInv, TypeOK
  <1>7. approvals' = [approvals EXCEPT ![id] = Append(old.signatures, who)]
    BY <1>3 DEF Sign
  <1> HIDE DEF p
  <1>8. TypeOK'
    <2>1. proposals' \in [ProposalId -> Proposal \cup {Nil}]
      BY <1>2, <1>5, <1>6 DEF IInv, TypeOK, SchemaVersion
    <2>2. approvals' \in [ProposalId -> Seq(Address)]
      BY <1>4, <1>7 DEF IInv, TypeOK
    <2>3. QED
      BY <1>1, <1>2, <2>1, <2>2 DEF Sign, IInv, TypeOK, SchemaVersion
  <1>9. SignersAreFinite' /\ QuorumIsReachable'
    BY DEF Sign, IInv, SignersAreFinite, QuorumIsReachable, ValidThreshold
  <1>10. \A i \in ProposalId :
            /\ proposals'[i] = IF i = id THEN p ELSE proposals[i]
            /\ approvals'[i] = IF i = id THEN p.signatures ELSE approvals[i]
    BY <1>5, <1>6, <1>7 DEF IInv, TypeOK
  <1>11. AuditTrailMatches'
    BY <1>4, <1>5, <1>10 DEF IInv, AuditTrailMatches
  <1>12. ExecutedOnce'
    BY <1>2, <1>5, <1>10 DEF Sign, IInv, ExecutedOnce
  <1>13. EmptyBeforeInit' /\ WindowFollowsCreation'
    BY <1>2, <1>5, <1>10
    DEF Sign, IInv, EmptyBeforeInit, WindowFollowsCreation, SchemaVersion
  <1>14. QED
    BY <1>8, <1>9, <1>11, <1>12, <1>13 DEF IInv

LEMMA ExecuteIInv ==
    ASSUME IInv, NEW who \in Address, NEW id \in ProposalId, Execute(who, id)
    PROVE  IInv'
  <1> DEFINE old == proposals[id]
             p   == [old EXCEPT !.executed = TRUE]
  <1>1. liveUntil' \in Ledger
    BY TtlType DEF IInv, TypeOK, Execute, bump_instance_ttl
  <1>2. schema = SchemaVersion /\ old \in Proposal /\ old # Nil
    BY DEF Execute, require_current_schema, IInv, TypeOK, SchemaVersion
  <1>3. executions[id] = 0
    BY <1>2 DEF IInv, ExecutedOnce, Execute, Open
  <1>4. /\ p \in Proposal /\ p # Nil
        /\ p.signatures = old.signatures
        /\ p.executed = TRUE
        /\ p.created_at = old.created_at
        /\ p.expires_at = old.expires_at
    BY <1>2, MultisigAssumption DEF Proposal
  <1>5. proposals' = [proposals EXCEPT ![id] = p]
    BY DEF Execute, IInv, TypeOK
  <1>6. executions' = [executions EXCEPT ![id] = 1]
    BY <1>3 DEF Execute
  <1> HIDE DEF p
  <1>7. TypeOK'
    <2>1. proposals' \in [ProposalId -> Proposal \cup {Nil}]
      BY <1>2, <1>4, <1>5 DEF IInv, TypeOK, SchemaVersion
    <2>2. executions' \in [ProposalId -> Nat]
      BY <1>6 DEF IInv, TypeOK
    <2>3. QED
      BY <1>1, <1>2, <2>1, <2>2 DEF Execute, IInv, TypeOK, SchemaVersion
  <1>8. SignersAreFinite' /\ QuorumIsReachable'
    BY DEF Execute, IInv, SignersAreFinite, QuorumIsReachable, ValidThreshold
  <1>9. \A i \in ProposalId :
           /\ proposals'[i] = IF i = id THEN p ELSE proposals[i]
           /\ executions'[i] = IF i = id THEN 1 ELSE executions[i]
    BY <1>5, <1>6 DEF IInv, TypeOK
  <1>10. AuditTrailMatches'
    <2>1. approvals' = approvals
      BY DEF Execute
    <2>2. \A i \in ProposalId :
             /\ proposals'[i] = Nil <=> proposals[i] = Nil
             /\ proposals[i] # Nil =>
                   proposals'[i].signatures = proposals[i].signatures
      BY <1>2, <1>4, <1>9
    <2>3. QED
      BY <2>1, <2>2 DEF IInv, AuditTrailMatches
  <1>11. ExecutedOnce'
    BY <1>4, <1>9 DEF IInv, ExecutedOnce
  <1>12. EmptyBeforeInit' /\ WindowFollowsCreation'
    BY <1>2, <1>4, <1>9
    DEF Execute, IInv, EmptyBeforeInit, WindowFollowsCreation, SchemaVersion
  <1>13. QED
    BY <1>7, <1>8, <1>10, <1>11, <1>12 DEF IInv

\* Every admin operation on the configuration leaves a threshold that the
\* signers it leaves can reach.
LEMMA ReconfigureIInv ==
    ASSUME IInv, NEW who \in Address, NEW c \in SignersConfig,
           Reconfigure(who, c), lapsed' \subseteq ProposalId \X Address,
           IsFiniteSet(c.signers),
           ValidThreshold(c.threshold, c.signers),
           Cardinality(c.signers) <= MaxSigners
    PROVE  IInv'
  <1>1. liveUntil' \in Ledger
    BY TtlType DEF IInv, TypeOK, Reconfigure, bump_instance_ttl
  <1>2. c # Nil /\ schema # 0
    BY MultisigAssumption DEF Reconfigure, require_current_schema, SchemaVersion
  <1>3. SignersAreFinite' /\ QuorumIsReachable'
    BY <1>2
    DEF Reconfigure, SignersAreFinite, QuorumIsReachable, ValidThreshold
  <1>4. QED
    BY <1>1, <1>3, FrameIInv DEF Reconfigure, IInv, TypeOK

LEMMA AdminIInv ==
    ASSUME IInv, NEW who \in Address
    PROVE  /\ \A signer \in Address :
                 AddSigner(who, signer) \/ RemoveSigner(who, signer) => IInv'
           /\ \A t \in Thresholds : SetThreshold(who, t) => IInv'
           /\ \A limit \in Limits : SetHighValueLimit(who, limit) => IInv'
  <1>1. ASSUME config # Nil
        PROVE  /\ config \in SignersConfig
               /\ IsFiniteSet(config.signers)
               /\ Cardinality(config.signers) \in Nat
               /\ ValidThreshold(config.threshold, config.signers)
               /\ Cardinality(config.signers) <= MaxSigners
               /\ lapsed \subseteq ProposalId \X Address
    BY <1>1, FS_CardinalityType
    DEF IInv, TypeOK, SignersAreFinite, QuorumIsReachable
  <1>2. ASSUME NEW signer \in Address, AddSigner(who, signer)
        PROVE  IInv'
    <2> DEFINE c == [config EXCEPT !.signers = @ \cup {signer}]
    <2>1. config # Nil /\ Reconfigure(who, c)
      BY <1>2 DEF AddSigner, Reconfigure, assert_is_admin
    <2>2. /\ c \in SignersConfig
          /\ c.signers = config.signers \cup {signer}
          /\ c.threshold = config.threshold
      BY <1>1, <2>1 DEF SignersConfig
    <2>3. /\ IsFiniteSet(c.signers)
          /\ Cardinality(c.signers) = Cardinality(config.signers) + 1
      BY <1>1, <1>2, <2>1, <2>2, FS_AddElement DEF AddSigner
    <2>4. ValidThreshold(c.threshold, c.signers)
          /\ Cardinality(c.signers) <= MaxSigners
      BY <1>1, <1>2, <2>1, <2>2, <2>3, MultisigAssumption
      DEF AddSigner, ValidThreshold
    <2>5. lapsed' \subseteq ProposalId \X Address
      BY <1>1, <1>2, <2>1 DEF AddSigner
    <2> HIDE DEF c
    <2>6. QED
      BY <2>1, <2>2, <2>3, <2>4, <2>5, ReconfigureIInv
  <1>3. ASSUME NEW signer \in Address, RemoveSigner(who, signer)
        PROVE  IInv'
    <2> DEFINE c == [config EXCEPT !.signers = @ \ {signer}]
    <2>1. config # Nil /\ Reconfigure(who, c)
      BY <1>3 DEF RemoveSigner, Reconfigure, assert_is_admin
    <2>2. /\ c \in SignersConfig
          /\ c.signers = config.signers \ {signer}
          /\ c.threshold = config.threshold
      BY <1>1, <2>1 DEF SignersConfig
    <2>3. /\ IsFiniteSet(c.signers)
          /\ Cardinality(c.signers) = Cardinality(config.signers) - 1
      BY <1>1, <1>3, <2>1, <2>2, FS_RemoveElement DEF RemoveSigner
    <2>4. ValidThreshold(c.threshold, c.signers)
          /\ Cardinality(c.signers) <= MaxSigners
      BY <1>1, <1>3, <2>1, <2>2, <2>3, MultisigAssumption
      DEF RemoveSigner, ValidThreshold
    <2>5. lapsed' \subseteq ProposalId \X Address
      BY <1>1, <1>3, <2>1 DEF RemoveSigner
    <2> HIDE DEF c
    <2>6. QED
      BY <2>1, <2>2, <2>3, <2>4, <2>5, ReconfigureIInv
  <1>4. ASSUME NEW t \in Thresholds, SetThreshold(who, t)
        PROVE  IInv'
    <2> DEFINE c == [config EXCEPT !.threshold = t]
    <2>1. config # Nil /\ Reconfigure(who, c)
      BY <1>4 DEF SetThreshold, Reconfigure, assert_is_admin
    <2>2. /\ c \in SignersConfig
          /\ c.signers = config.signers
          /\ c.threshold = t
      BY <1>1, <2>1, MultisigAssumption DEF SignersConfig
    <2>3. lapsed' \subseteq ProposalId \X Address
      BY <1>1, <1>4, <2>1 DEF SetThreshold
    <2> HIDE DEF c
    <2>4. QED
      BY <1>1, <1>4, <2>1, <2>2, <2>3, ReconfigureIInv DEF SetThreshold
  <1>5. ASSUME NEW limit \in Limits, SetHighValueLimit(who, limit)
        PROVE  IInv'
    <2> DEFINE c == [config EXCEPT !.high_value_limit = limit]
    <2>1. config # Nil /\ Reconfigure(who, c)
      BY <1>5 DEF SetHighValueLimit, Reconfigure, assert_is_admin
    <2>2. /\ c \in SignersConfig
          /\ c.signers = config.signers
          /\ c.threshold = config.threshold
      BY <1>1, <1>5, <2>1, MultisigAssumption DEF SignersConfig, SetHighValueLimit
    <2>3. lapsed' \subseteq ProposalId \X Address
      BY <1>1, <1>5, <2>1 DEF SetHighValueLimit
    <2> HIDE DEF c
    <2>4. QED
      BY <1>1, <2>1, <2>2, <2>3, ReconfigureIInv
  <1>6. QED
    BY <1>2, <1>3, <1>4, <1>5

LEMMA MigrateIInv ==
    ASSUME IInv, NEW who \in Address, Migrate(who)
    PROVE  IInv'
  <1>1. liveUntil' \in Ledger
    BY TtlType DEF IInv, TypeOK, Migrate, bump_instance_ttl
  <1>2. schema = 1 /\ config # Nil
    BY DEF Migrate, assert_is_admin
  <1>3. \A id \in ProposalId : proposals[id] # Nil => proposals[id] \in ProposalV1
    BY <1>2 DEF IInv, TypeOK
  <1>4. \A id \in ProposalId :
           IF proposals[id] = Nil THEN proposals'[id] = Nil
           ELSE /\ proposals'[id] \in Proposal
                /\ proposals'[id] # Nil
                /\ proposals'[id].signatures = proposals[id].signatures
                /\ proposals'[id].executed = proposals[id].executed
                /\ proposals'[id].expires_at
                      = SaturatingAdd(proposals'[id].created_at, ProposalTtl)
    BY <1>3, MigratedRecord DEF Migrate
  <1>5. proposals' \in [ProposalId -> Proposal \cup {Nil}]
    BY <1>4 DEF Migrate
  <1>6. TypeOK'
    BY <1>1, <1>5 DEF Migrate, IInv, TypeOK, SchemaVersion, history
  <1>7. SignersAreFinite' /\ QuorumIsReachable'
    BY <1>2
    DEF Migrate, IInv, SignersAreFinite, QuorumIsReachable, ValidThreshold,
        SchemaVersion
  <1>8. AuditTrailMatches' /\ ExecutedOnce'
    BY <1>4 DEF Migrate, IInv, AuditTrailMatches, ExecutedOnce, history
  <1>9. EmptyBeforeInit' /\ WindowFollowsCreation'
    BY <1>4
    DEF Migrate, EmptyBeforeInit, WindowFollowsCreation, SchemaVersion
  <1>10. QED
    BY <1>6, <1>7, <1>8, <1>9 DEF IInv

LEMMA StepIInv == IInv /\ [Next]_vars => IInv'
  <1> SUFFICES ASSUME IInv, [Next]_vars PROVE IInv'
    OBVIOUS
  <1>1. ASSUME NEW who \in Address, NEW list \in SignerLists,
               NEW t \in Thresholds, NEW limit \in Limits,
               Initialize(who, list, t, limit)
        PROVE  IInv'
    BY <1>1, InitializeIInv
  <1>2. ASSUME NEW who \in Address, NEW id \in ProposalId, NEW value \in Values,
               Propose(who, id, value)
        PROVE  IInv'
    BY <1>2, ProposeIInv
  <1>3. ASSUME NEW who \in Address, NEW id \in ProposalId,
               Sign(who, id) \/ Execute(who, id)
        PROVE  IInv'
    BY <1>3, SignIInv, ExecuteIInv
  <1>4. ASSUME NEW who \in Address, NEW hash \in Wasm, Upgrade(who, hash)
        PROVE  IInv'
    BY <1>4, QuietIInv DEF Upgrade, IInv, TypeOK
  <1>5. ASSUME NEW who \in Address, Migrate(who)
        PROVE  IInv'
    BY <1>5, MigrateIInv
  <1>6. CASE CloseLedger
    <2>1. ledger' \in Ledger
      BY <1>6, HostAssumption DEF CloseLedger, Ledger, IInv, TypeOK
    <2>2. QED
      BY <1>6, <2>1, QuietIInv DEF CloseLedger, IInv, TypeOK
  <1>7. CASE Restore
    <2>1. liveUntil' \in Ledger
      BY <1>7, TtlType DEF Restore, IInv, TypeOK
    <2>2. QED
      BY <1>7, <2>1, QuietIInv DEF Restore, IInv, TypeOK
  <1>8. CASE UNCHANGED vars
    BY <1>8, QuietIInv DEF vars, IInv, TypeOK
  <1>9. QED
    BY <1>1, <1>2, <1>3, <1>4, <1>5, <1>6, <1>7, <1>8, AdminIInv DEF Next

\* The inductive invariant holds in every reachable state.
THEOREM Invariance == Spec => []IInv
  <1>1. QED
    BY InitIInv, StepIInv, PTL DEF Spec

-----------------------------------------------------------------------------

\* Every storage entry keeps its type, in either layout (lib.rs storage keys).
THEOREM TypeCorrect == Spec => []TypeOK
  <1>1. IInv => TypeOK
    BY DEF IInv
  <1>2. QED
    BY <1>1, Invariance, PTL

\* The threshold stays within the reach of the signers, whatever the order of
\* the admin's calls (add_signer, remove_signer, set_threshold).
THEOREM QuorumStaysReachable == Spec => []QuorumIsReachable
  <1>1. IInv => QuorumIsReachable
    BY DEF IInv
  <1>2. QED
    BY <1>1, Invariance, PTL

\* The signatures of a proposal are the signers of its events, nobody twice
\* (propose, sign, migrate).
THEOREM AuditTrail == Spec => []AuditTrailMatches
  <1>1. IInv => AuditTrailMatches
    BY DEF IInv
  <1>2. QED
    BY <1>1, Invariance, PTL

\* The value of a proposal is handed out at most once (execute, migrate).
THEOREM HandedOutOnce == Spec => []ExecutedOnce
  <1>1. IInv => ExecutedOnce
    BY DEF IInv
  <1>2. QED
    BY <1>1, Invariance, PTL

-----------------------------------------------------------------------------

\* What may change once a proposal's window has passed.
LEMMA ClosedWindowStep ==
    ASSUME IInv, Next, schema = SchemaVersion,
           NEW id \in ProposalId, proposals[id] # Nil,
           ledger > SaturatingAdd(proposals[id].created_at, ProposalTtl)
    PROVE  UNCHANGED <<approvals[id], executions[id], proposals[id]>>
  <1>1. ~(ledger <= proposals[id].expires_at)
    <2>1. proposals[id].created_at \in Ledger /\ ledger \in Ledger
      BY DEF IInv, TypeOK, Proposal, SchemaVersion
    <2>2. SaturatingAdd(proposals[id].created_at, ProposalTtl) \in Ledger
      BY <2>1, TtlType
    <2>3. QED
      BY <2>1, <2>2, HostAssumption DEF IInv, WindowFollowsCreation, Ledger
  <1>2. ASSUME NEW who \in Address, NEW k \in ProposalId, NEW value \in Values,
               Propose(who, k, value)
        PROVE  UNCHANGED <<approvals[id], executions[id], proposals[id]>>
    <2>1. k # id
      BY <1>2 DEF Propose
    <2>2. QED
      BY <1>2, <2>1 DEF Propose, IInv, TypeOK
  <1>3. ASSUME NEW who \in Address, NEW k \in ProposalId,
               Sign(who, k) \/ Execute(who, k)
        PROVE  UNCHANGED <<approvals[id], executions[id], proposals[id]>>
    <2>1. k # id
      BY <1>1, <1>3 DEF Sign, Execute, Open
    <2>2. QED
      BY <1>3, <2>1 DEF Sign, Execute, IInv, TypeOK
  <1>4. QED
    BY <1>2, <1>3
    DEF Next, Initialize, AddSigner, RemoveSigner, SetThreshold,
        SetHighValueLimit, Reconfigure, Upgrade, Migrate, CloseLedger, Restore,
        storage, history, SchemaVersion

\* A proposal is dead for good once its window has passed (sign, execute,
\* propose and migrate).
THEOREM WindowStaysClosed == Spec => WindowNeverReopens
  <1>1. IInv /\ [Next]_vars =>
           [\A id \in ProposalId :
              (/\ proposals[id] # Nil
               /\ ledger > SaturatingAdd(proposals[id].created_at, ProposalTtl)
               /\ schema = SchemaVersion)
              => UNCHANGED <<approvals[id], executions[id], proposals[id]>>]_vars
    BY ClosedWindowStep DEF vars
  <1>2. QED
    BY <1>1, Invariance, PTL DEF Spec, WindowNeverReopens

-----------------------------------------------------------------------------

\* The abstract state of QuorumDecision, in terms of the contract's.
Members == IF config = Nil THEN {} ELSE config.signers

Need == [id \in ProposalId |->
            IF config = Nil \/ proposals[id] = Nil THEN 1
            ELSE required_threshold(config, proposals[id].value)]

Endorsed == [id \in ProposalId |-> Range(approvals[id])]

\* The abstract state is of the abstract type.
AbstractTypeOK ==
    /\ Members \in SUBSET Address
    /\ Need \in [ProposalId -> Nat \ {0}]
    /\ Endorsed \in [ProposalId -> SUBSET Address]
    /\ executions \in [ProposalId -> {0, 1}]

LEMMA AbstractType == IInv => AbstractTypeOK
  <1> SUFFICES ASSUME IInv PROVE AbstractTypeOK
    OBVIOUS
  <1>1. Members \in SUBSET Address
    BY DEF Members, IInv, TypeOK, SignersConfig
  <1>2. config # Nil => config.threshold \in Nat \ {0}
    BY FS_CardinalityType
    DEF IInv, QuorumIsReachable, ValidThreshold, SignersAreFinite
  <1>3. Need \in [ProposalId -> Nat \ {0}]
    BY <1>2 DEF Need, required_threshold
  <1>4. Endorsed \in [ProposalId -> SUBSET Address]
    BY RangeOfList DEF Endorsed, IInv, TypeOK
  <1>5. executions \in [ProposalId -> {0, 1}]
    BY DEF IInv, TypeOK, ExecutedOnce
  <1>6. QED
    BY <1>1, <1>3, <1>4, <1>5 DEF AbstractTypeOK

LEMMA AbstractTypeNext == IInv' => AbstractTypeOK'
  BY AbstractType, PTL

LEMMA QuorumInit == Init => Quorum!QInit
  BY InitIInv, AbstractType
  DEF Quorum!QInit, AbstractTypeOK, Members, Need, Endorsed

\* A call that leaves the events and the proposals' values alone reconfigures.
LEMMA ReconfigureMaps ==
    ASSUME IInv, IInv', UNCHANGED <<approvals, executions>>
    PROVE  Quorum!Reconfigure
  BY AbstractTypeNext
  DEF Quorum!Reconfigure, AbstractTypeOK, Members, Need, Endorsed

\* Proposing and signing both endorse.
LEMMA EndorseMaps ==
    ASSUME IInv, IInv', NEW who \in Address, NEW id \in ProposalId,
           \/ \E value \in Values : Propose(who, id, value)
           \/ Sign(who, id)
    PROVE  Quorum!Endorse(id, who)
  <1>1. approvals' = [approvals EXCEPT ![id] = Append(approvals[id], who)]
    BY DEF Propose, Sign
  <1>2. approvals[id] \in Seq(Address) /\ IsInjective(approvals[id])
    BY DEF IInv, TypeOK, AuditTrailMatches
  <1>3. who \notin Range(approvals[id]) /\ executions[id] = 0
    <2>1. CASE \E value \in Values : Propose(who, id, value)
      <3>1. approvals[id] = <<>> /\ executions[id] = 0
        BY <2>1 DEF Propose, IInv, AuditTrailMatches, ExecutedOnce
      <3>2. QED
        BY <3>1 DEF Range
    <2>2. CASE Sign(who, id)
      BY <2>2 DEF Sign, Open, IInv, AuditTrailMatches, ExecutedOnce
    <2>3. QED
      BY <2>1, <2>2
  <1>4. Range(Append(approvals[id], who)) = Range(approvals[id]) \cup {who}
    BY <1>2, <1>3, AppendDistinct
  <1>5. Endorsed' = [Endorsed EXCEPT ![id] = Endorsed[id] \cup {who}]
    BY <1>1, <1>4 DEF Endorsed, IInv, TypeOK
  <1>6. who \in Members /\ UNCHANGED <<config, executions>>
    BY DEF Propose, Sign, assert_is_signer, Members
  <1>7. \A k \in ProposalId : k # id \/ Endorsed[id] # {} => Need'[k] = Need[k]
    <2>1. CASE \E value \in Values : Propose(who, id, value)
      <3>1. Endorsed[id] = {}
        BY <2>1 DEF Propose, IInv, AuditTrailMatches, Endorsed, Range
      <3>2. \A k \in ProposalId : k # id => proposals'[k] = proposals[k]
        BY <2>1 DEF Propose, IInv, TypeOK
      <3>3. QED
        BY <1>6, <3>1, <3>2 DEF Need, required_threshold
    <2>2. CASE Sign(who, id)
      <3>1. proposals[id] # Nil /\ proposals[id] \in Proposal
        BY <2>2 DEF Sign, require_current_schema, SchemaVersion, IInv, TypeOK
      <3>2. proposals'[id] # Nil
        <4>1. proposals'[id] = [proposals[id] EXCEPT !.signatures =
                                   Append(proposals[id].signatures, who)]
          BY <2>2 DEF Sign, IInv, TypeOK
        <4>2. Append(proposals[id].signatures, who) \in Seq(Address)
          BY <3>1 DEF Proposal
        <4>3. proposals'[id] \in Proposal
          BY <3>1, <4>1, <4>2 DEF Proposal
        <4>4. QED
          BY <4>3, MultisigAssumption
      <3>3. proposals'[id].value = proposals[id].value
        BY <2>2, <3>1 DEF Sign, IInv, TypeOK, Proposal
      <3>4. \A k \in ProposalId : k # id => proposals'[k] = proposals[k]
        BY <2>2 DEF Sign, IInv, TypeOK
      <3>5. QED
        BY <1>6, <3>1, <3>2, <3>3, <3>4 DEF Need, required_threshold
    <2>3. QED
      BY <2>1, <2>2
  <1>8. Need' \in [ProposalId -> Nat \ {0}] /\ Members' = Members
    BY <1>6, AbstractTypeNext DEF AbstractTypeOK, Members
  <1>9. Endorsed[id] = Range(approvals[id])
    BY DEF Endorsed
  <1>10. QED
    BY <1>3, <1>5, <1>6, <1>7, <1>8, <1>9
    DEF Quorum!Endorse, Members, Need, Endorsed

\* An execution decides: the entries it counts are distinct members.
LEMMA DecideMaps ==
    ASSUME IInv, IInv', NEW who \in Address, NEW id \in ProposalId, Execute(who, id)
    PROVE  Quorum!Decide(id)
  <1>1. /\ config # Nil /\ proposals[id] # Nil
        /\ schema = SchemaVersion
        /\ UNCHANGED <<config, approvals>>
        /\ ~proposals[id].executed
        /\ proposals[id] \in Proposal
    BY DEF Execute, assert_is_signer, Open, require_current_schema, IInv, TypeOK,
           SchemaVersion
  <1>2. executions[id] = 0 /\ executions' = [executions EXCEPT ![id] = 1]
    <2>1. executions[id] = IF proposals[id] # Nil /\ proposals[id].executed
                           THEN 1 ELSE 0
      BY DEF IInv, ExecutedOnce
    <2>2. executions[id] = 0
      BY <1>1, <2>1, Zenon
    <2>3. QED
      BY <2>2 DEF Execute
  <1>3. approvals[id] = proposals[id].signatures
        /\ approvals[id] \in Seq(Address) /\ IsInjective(approvals[id])
    BY <1>1 DEF IInv, AuditTrailMatches, TypeOK
  <1>4. live_signature_count(approvals[id])
           = Cardinality(Range(approvals[id]) \cap config.signers)
    BY <1>3, LiveCountIsDistinct DEF live_signature_count
  <1>5. \E backer \in [1 .. Need[id] -> Endorsed[id] \cap Members] :
           \A i, j \in 1 .. Need[id] : backer[i] = backer[j] => i = j
    <2>1. Cardinality(Endorsed[id] \cap Members) >= Need[id]
      BY <1>1, <1>3, <1>4 DEF Execute, Endorsed, Members, Need
    <2>2. Endorsed[id] = Range(approvals[id]) /\ IsFiniteSet(Range(approvals[id]))
      BY <1>3, RangeOfList DEF Endorsed
    <2>3. IsFiniteSet(Endorsed[id] \cap Members)
      BY <2>2, FS_Subset
    <2>4. Need[id] \in Nat
      BY AbstractType DEF AbstractTypeOK
    <2>5. QED
      BY <2>1, <2>3, <2>4, DistinctMembers
  <1>6. UNCHANGED Need
    <2>2. proposals' = [proposals EXCEPT ![id] =
                           [proposals[id] EXCEPT !.executed = TRUE]]
      BY DEF Execute, IInv, TypeOK
    <2>3. /\ [proposals[id] EXCEPT !.executed = TRUE] \in Proposal
          /\ [proposals[id] EXCEPT !.executed = TRUE] # Nil
          /\ [proposals[id] EXCEPT !.executed = TRUE].value = proposals[id].value
      BY <1>1, MultisigAssumption DEF Proposal
    <2>4. \A k \in ProposalId :
             /\ proposals'[k] = Nil <=> proposals[k] = Nil
             /\ proposals[k] # Nil => proposals'[k].value = proposals[k].value
      BY <1>1, <2>2, <2>3 DEF IInv, TypeOK
    <2>5. QED
      BY <1>1, <2>4 DEF Need, required_threshold
  <1>7. QED
    <2>1. UNCHANGED <<Members, Need, Endorsed>>
      BY <1>1, <1>6 DEF Members, Endorsed
    <2>2. QED
      BY <1>2, <1>5, <2>1, Zenon
      DEF Quorum!Decide, Quorum!Backed, Members, Need, Endorsed

LEMMA QuorumStep ==
    ASSUME IInv, IInv', [Next]_vars
    PROVE  [Quorum!QNext]_(Quorum!qvars)
  <1>1. CASE UNCHANGED <<approvals, executions>>
    BY <1>1, ReconfigureMaps DEF Quorum!QNext
  <1>2. ASSUME NEW who \in Address, NEW id \in ProposalId,
               \/ \E value \in Values : Propose(who, id, value)
               \/ Sign(who, id)
        PROVE  Quorum!QNext
    BY <1>2, EndorseMaps DEF Quorum!QNext
  <1>3. ASSUME NEW who \in Address, NEW id \in ProposalId, Execute(who, id)
        PROVE  Quorum!QNext
    BY <1>3, DecideMaps DEF Quorum!QNext
  <1>4. QED
    BY <1>1, <1>2, <1>3
    DEF Next, vars, Initialize, AddSigner, RemoveSigner, SetThreshold,
        SetHighValueLimit, Reconfigure, Upgrade, Migrate, CloseLedger, Restore,
        history

\* The contract implements QuorumDecision for any signer set, threshold, limit
\* and window: at most one execution, backed by a quorum of that moment.
THEOREM MultisigRefinesQuorum == Spec => ImplementsQuorum
  <1>1. IInv /\ IInv' /\ [Next]_vars => [Quorum!QNext]_(Quorum!qvars)
    BY QuorumStep
  <1>2. QED
    BY QuorumInit, <1>1, Invariance, PTL
    DEF Spec, ImplementsQuorum, Quorum!QSpec
=============================================================================
