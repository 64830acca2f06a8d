------------------------- MODULE MultisigSettlement -------------------------
(***************************************************************************)
(* MultisigSettlementService: proposals and signatures in PostgreSQL, and  *)
(* a copy of the signers and the threshold of the multisig-authority       *)
(* contract, which sign and execute fetch before they look at either if    *)
(* the service was given a reader of the contract.  The copy is one field  *)
(* of the service: every request in the process writes and reads it, and   *)
(* there is an await between the two.                                      *)
(*                                                                         *)
(* The value of a proposal counts only as above the limit or not.          *)
(***************************************************************************)
EXTENDS Naturals, FiniteSets

CONSTANTS
    Signer, Proposal, Request,
    HighValue,    \* proposals that need the full threshold
    Authorities,  \* what the contract may show: its signers and threshold
    Configured,   \* the config the service is constructed with
    Readers,      \* the readers of the contract it may be constructed with
    None

\* A copy of the signers and the threshold.
Copies == [signers : SUBSET Signer, threshold : Nat]

Valid(c) == c.threshold \in 1 .. Cardinality(c.signers)

ASSUME AuthoritiesAssumption ==
    /\ Authorities \subseteq Copies
    /\ Configured \in Copies
    /\ \A c \in Authorities \cup {Configured} : IsFiniteSet(c.signers) /\ Valid(c)
ASSUME NoneAssumption == None \notin Proposal \cup Signer \cup Copies

\* No reader; one that asks for signers and threshold in one call; or one that
\* asks for each in a call of its own, as the contract offers them.
ASSUME ReadersAssumption == Readers \subseteq {"none", "whole", "parts"}

VARIABLES
    onChainReader,  \* the service's reader
    authority,   \* the contract's signers and threshold
    config,      \* the service's copy
    proposals,   \* multisig_proposals
    signatures,  \* multisig_signatures: who has signed each proposal
    request,     \* the locals of each request
    settled      \* history: the proposals whose value execute has returned

chain == <<onChainReader, authority>>
vars == <<chain, config, proposals, signatures, request, settled>>

\* pc names what a request does next: the call of the contract and what
\* follows its answer (chain, sync), the two SELECTs of getProposal and what
\* follows them (row, signatures, check), and the writes (persist, insert,
\* mark).  A request that has returned a value keeps its locals (returned).
\* No variables of the code: since, what the contract has shown since the call;
\* late, the call came after the proposal had been settled or had expired;
\* outdated, the copy was seen with an answer that left before the call: one that
\* replaced its own, or one that was kept because its own was invalid.
Requests ==
    [kind : {"propose", "sign", "execute", "none"},
     pc : {"none", "persist", "chain", "sync", "row", "signatures", "check", "insert",
           "mark", "returned"},
     on : Proposal \cup {None}, by : Signer \cup {None},
     answer : Copies \cup {None}, executed : BOOLEAN, seen : SUBSET Signer,
     since : SUBSET Authorities, late : BOOLEAN, outdated : BOOLEAN]

TypeOK ==
    /\ onChainReader \in Readers
    /\ authority \in Authorities
    /\ config \in Copies
    /\ proposals \in [Proposal -> [created : BOOLEAN, executed : BOOLEAN, expired : BOOLEAN]]
    /\ signatures \in [Proposal -> SUBSET Signer]
    /\ request \in [Request -> Requests]
    /\ settled \in SUBSET Proposal

Idle == [kind |-> "none", pc |-> "none", on |-> None, by |-> None, answer |-> None,
         executed |-> FALSE, seen |-> {}, since |-> {}, late |-> FALSE, outdated |-> FALSE]

Init ==
    /\ onChainReader \in Readers
    /\ authority \in Authorities
    /\ config = Configured
    /\ proposals = [p \in Proposal |-> [created |-> FALSE, executed |-> FALSE, expired |-> FALSE]]
    /\ signatures = [p \in Proposal |-> {}]
    /\ request = [r \in Request |-> Idle]
    /\ settled = {}

Free(r) == request[r].pc \in {"none", "returned"}
At(r, pc) == request[r].pc = pc
requiredThreshold(p, a) == IF p \in HighValue THEN a.threshold ELSE 1

\* A request throws, or returns what nobody keeps.
Ends(r) == request' = [request EXCEPT ![r] = Idle]
GoesTo(r, pc) == request' = [request EXCEPT ![r].pc = pc]
-----------------------------------------------------------------------------
(* Calls *)

Called(r, kind, pc, p, s) ==
    request' = [request EXCEPT ![r] =
      [Idle EXCEPT !.kind = kind, !.pc = pc, !.on = p, !.by = s, !.since = {authority},
                   !.late = p \in settled \/ proposals[p].expired]]

\* The proposer is looked for in the copy as it is.  Ids are fresh.
propose(r, p, s) ==
    /\ Free(r)
    /\ ~proposals[p].created /\ \A q \in Request : ~(At(q, "persist") /\ request[q].on = p)
    /\ s \in config.signers
    /\ Called(r, "propose", "persist", p, s)
    /\ UNCHANGED <<chain, config, proposals, signatures, settled>>

\* sign and execute begin alike.
callWith(r, kind, p, s) ==
    /\ Free(r)
    /\ Called(r, kind, "chain", p, s)
    /\ UNCHANGED <<chain, config, proposals, signatures, settled>>
-----------------------------------------------------------------------------
(* syncFromChain and assertIsSigner *)

\* What a reader may answer when the contract has shown these meanwhile; without
\* a reader the service goes by its config.
Answers(reader, shown) ==
    CASE reader = "none"  -> {Configured}
      [] reader = "whole" -> shown
      [] reader = "parts" -> {[signers |-> a.signers, threshold |-> b.threshold] :
                                 a \in shown, b \in shown}

ReadChain(r) ==
    /\ At(r, "chain")
    /\ onChainReader # "none"
    /\ \E live \in Answers(onChainReader, request[r].since) :
          request' = [request EXCEPT ![r].pc = "sync", ![r].answer = live]
    /\ UNCHANGED <<chain, config, proposals, signatures, settled>>

AfterSync == {"row", "signatures", "check"}

\* An invalid answer, or none, leaves the copy as it is.
syncFromChain(r) ==
    LET live == request[r].answer
        copy == IF At(r, "sync") /\ Valid(live) THEN live ELSE config
        Told(s) == [s EXCEPT !.outdated = @ \/ copy \notin Answers(onChainReader, s.since)]
        own == IF request[r].by \in copy.signers
               THEN Told([request[r] EXCEPT !.pc = "row", !.answer = None])
               ELSE Idle
    IN /\ At(r, IF onChainReader = "none" THEN "chain" ELSE "sync")
       /\ config' = copy
       /\ request' = [q \in Request |-> IF q = r THEN own
                                        ELSE IF request[q].pc \in AfterSync THEN Told(request[q])
                                        ELSE request[q]]
       /\ UNCHANGED <<chain, proposals, signatures, settled>>
-----------------------------------------------------------------------------
(* getProposal and the checks *)

ReadRow(r) ==
    /\ At(r, "row")
    /\ IF proposals[request[r].on].created
       THEN request' = [request EXCEPT ![r].pc = "signatures",
                                       ![r].executed = proposals[request[r].on].executed]
       ELSE Ends(r)
    /\ UNCHANGED <<chain, config, proposals, signatures, settled>>

ReadSignatures(r) ==
    /\ At(r, "signatures")
    /\ request' = [request EXCEPT ![r].pc = "check", ![r].seen = signatures[request[r].on]]
    /\ UNCHANGED <<chain, config, proposals, signatures, settled>>

Over_Unexpiring(r) == request[r].executed

\* The row was read before the await, the clock is read after it.
Over(r) == request[r].executed \/ proposals[request[r].on].expired

liveSignatures_All(r) == request[r].seen

liveSignatures(r) == request[r].seen \cap config.signers

Check(r) ==
    LET quorum == Cardinality(liveSignatures(r)) >= requiredThreshold(request[r].on, config)
    IN /\ At(r, "check")
       /\ \/ /\ request[r].kind = "sign" /\ ~Over(r) /\ request[r].by \notin request[r].seen
             /\ GoesTo(r, "insert")
          \/ /\ request[r].kind = "execute" /\ ~Over(r) /\ quorum
             /\ GoesTo(r, "mark")
          \/ /\ \/ Over(r)
                \/ request[r].kind = "sign" /\ request[r].by \in request[r].seen
                \/ request[r].kind = "execute" /\ ~quorum
             /\ Ends(r)
       /\ UNCHANGED <<chain, config, proposals, signatures, settled>>
-----------------------------------------------------------------------------
(* The writes *)

persistProposal(r) ==
    /\ At(r, "persist")
    /\ proposals' = [proposals EXCEPT ![request[r].on].created = TRUE]
    /\ GoesTo(r, "insert")
    /\ UNCHANGED <<chain, config, signatures, settled>>

\* UNIQUE (proposal_id, signer) refuses a second row.
recordSignature(r) ==
    /\ At(r, "insert")
    /\ signatures' = [signatures EXCEPT ![request[r].on] = @ \cup {request[r].by}]
    /\ Ends(r)
    /\ UNCHANGED <<chain, config, proposals, settled>>

\* The UPDATE has no condition but the id.
Executed(r) == proposals' = [proposals EXCEPT ![request[r].on].executed = TRUE]

MarkExecuted(r) ==
    /\ At(r, "mark")
    /\ Executed(r)
    /\ settled' = settled \cup {request[r].on}
    /\ GoesTo(r, "returned")
    /\ UNCHANGED <<chain, config, signatures>>

\* A call or statement fails; a failed write may have been done all the same.
Fails(r) ==
    /\ ~Free(r)
    /\ Ends(r)
    /\ \/ UNCHANGED proposals
       \/ At(r, "mark") /\ Executed(r)
       \/ At(r, "persist") /\ proposals' = [proposals EXCEPT ![request[r].on].created = TRUE]
    /\ UNCHANGED <<chain, config, signatures, settled>>
-----------------------------------------------------------------------------
(* The world *)

Restart ==
    /\ config' = Configured
    /\ request' = [r \in Request |-> Idle]
    /\ UNCHANGED <<chain, proposals, signatures, settled>>

\* An admin of the contract adds or removes a signer, or sets the threshold.
Reconfigure(a) ==
    /\ authority' = a
    /\ request' = [r \in Request |-> IF Free(r) THEN request[r]
                                     ELSE [request[r] EXCEPT !.since = @ \cup {a}]]
    /\ UNCHANGED <<onChainReader, config, proposals, signatures, settled>>

Expire(p) ==
    /\ proposals[p].created
    /\ proposals' = [proposals EXCEPT ![p].expired = TRUE]
    /\ UNCHANGED <<chain, config, signatures, request, settled>>

Next ==
    \/ \E r \in Request :
          \/ \E p \in Proposal, s \in Signer :
                \/ propose(r, p, s)
                \/ \E kind \in {"sign", "execute"} : callWith(r, kind, p, s)
          \/ ReadChain(r) \/ syncFromChain(r)
          \/ ReadRow(r) \/ ReadSignatures(r) \/ Check(r)
          \/ persistProposal(r) \/ recordSignature(r) \/ MarkExecuted(r) \/ Fails(r)
    \/ Restart
    \/ \E a \in Authorities : Reconfigure(a)
    \/ \E p \in Proposal : Expire(p)

Spec == Init /\ [][Next]_vars
-----------------------------------------------------------------------------
(* Properties *)

\* A call of sign or execute that comes after the value has been handed out,
\* or after the proposal has expired, writes nothing and returns no value,
\* although both are read long before they are acted on (execute, lines 195-217).
LateCallsChangeNothing ==
    \A r \in Request :
       request[r].pc \in {"insert", "mark", "returned"} /\ request[r].kind # "propose"
          => ~request[r].late

\* When execute returns a value, enough of the contract's signers of one moment
\* since the call had signed, by the threshold of that moment (of another moment
\* since the call, if the reader asks for it separately), whoever was removed or
\* added meanwhile; unless the copy was an answer from before the call, because
\* another request's came late or because its own was invalid.  Without a reader
\* the service goes by the config it was constructed with (syncFromChain, lines
\* 103-114; execute, lines 199-215).
LiveQuorum ==
    \A r \in Request :
       request[r].pc = "returned" /\ ~request[r].outdated
          => \E a \in Answers(onChainReader, request[r].since) :
                Cardinality(request[r].seen \cap a.signers)
                   >= requiredThreshold(request[r].on, a)
=============================================================================
