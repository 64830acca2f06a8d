---------------------- MODULE MultisigSettlementProofs ----------------------
(***************************************************************************)
(* What MultisigSettlement keeps for any number of signers, proposals and  *)
(* requests and any sequence of signer sets.  A call that comes late finds *)
(* the row executed or the proposal expired, whatever it reads first; and  *)
(* a call whose copy is not an older answer judges by what the contract    *)
(* has shown since it came.                                                *)
(***************************************************************************)
EXTENDS MultisigSettlement, TLAPS

Rows == [Proposal -> [created : BOOLEAN, executed : BOOLEAN, expired : BOOLEAN]]

IsOver(ps, p) == ps[p].executed \/ ps[p].expired

\* Enough signers of one moment since the call are among those it has read.
Backed(s, reader) ==
    \E a \in Answers(reader, s.since) :
       Cardinality(s.seen \cap a.signers) >= requiredThreshold(s.on, a)

\* What the locals s of a request say about the reader, the authority a, the
\* copy c and the rows ps.
RequestOK(s, reader, a, c, ps) ==
    /\ s \in Requests
    /\ s.pc # "none" => s.on \in Proposal /\ s.by \in Signer
    /\ s.late => s.on \in Proposal /\ IsOver(ps, s.on)
    /\ s.pc \in {"signatures", "check"} /\ s.late => s.executed \/ ps[s.on].expired
    /\ s.pc \in {"insert", "mark", "returned"} /\ s.kind # "propose" => ~s.late
    /\ s.pc \notin {"none", "returned"} => a \in s.since
    /\ s.pc = "persist" => s.kind = "propose"
    /\ s.pc = "sync" => s.answer \in Copies
    /\ s.pc \in AfterSync /\ ~s.outdated => c \in Answers(reader, s.since)
    /\ s.pc \in {"mark", "returned"} /\ ~s.outdated => Backed(s, reader)

Inv ==
    /\ onChainReader \in Readers
    /\ authority \in Authorities /\ config \in Copies
    /\ proposals \in Rows
    /\ signatures \in [Proposal -> SUBSET Signer]
    /\ settled \in SUBSET Proposal
    /\ \A p \in settled : proposals[p].executed
    /\ request \in [Request -> Requests]
    /\ \A r \in Request : RequestOK(request[r], onChainReader, authority, config, proposals)

\* The inductive invariant is at least as strong as what the runs check.
LEMMA InvImplies == Inv => TypeOK /\ LateCallsChangeNothing /\ LiveQuorum
<1> SUFFICES ASSUME Inv PROVE TypeOK /\ LateCallsChangeNothing /\ LiveQuorum
  OBVIOUS
<1>1. TypeOK
  BY DEF Inv, Rows, TypeOK
<1>2. LateCallsChangeNothing
  BY DEF Inv, RequestOK, LateCallsChangeNothing
<1>3. LiveQuorum
  BY DEF Inv, RequestOK, Backed, LiveQuorum
<1> QED
  BY <1>1, <1>2, <1>3

\* What a reader makes of the contract's authorities is a copy,
LEMMA AnswersAreCopies ==
  ASSUME NEW reader \in Readers, NEW shown \in SUBSET Authorities
  PROVE  Answers(reader, shown) \subseteq Copies
<1>1. shown \subseteq Copies /\ Configured \in Copies
  BY AuthoritiesAssumption
<1>2. reader \in {"none", "whole", "parts"}
  BY ReadersAssumption
<1>3. \A a \in shown, b \in shown :
         [signers |-> a.signers, threshold |-> b.threshold] \in Copies
  BY <1>1 DEF Copies
<1> QED
  BY <1>1, <1>2, <1>3 DEF Answers

\* and the more the contract has shown, the more it may answer.
LEMMA AnswersGrow ==
  ASSUME NEW reader \in Readers, NEW shown, NEW more, shown \subseteq more
  PROVE  Answers(reader, shown) \subseteq Answers(reader, more)
  BY ReadersAssumption DEF Answers

LEMMA IdleOK ==
  ASSUME NEW reader, NEW a, NEW c, NEW ps
  PROVE  Idle \in Requests /\ RequestOK(Idle, reader, a, c, ps)
  BY DEF Idle, Requests, RequestOK, AfterSync

LEMMA InitInv == Init => Inv
<1> SUFFICES ASSUME Init PROVE Inv
  OBVIOUS
<1>1. \A r \in Request : RequestOK(request[r], onChainReader, authority, config, proposals)
  BY IdleOK DEF Init
<1>2. request \in [Request -> Requests]
  BY IdleOK DEF Init
<1> QED
  BY <1>1, <1>2, AuthoritiesAssumption DEF Init, Inv, Rows
-----------------------------------------------------------------------------
\* Rows only ever become executed or expired.
Later(ps, qs) ==
    \A p \in Proposal : /\ ps[p].executed => qs[p].executed
                        /\ ps[p].expired => qs[p].expired

LEMMA LaterKeeps ==
  ASSUME NEW s, NEW reader, NEW a, NEW c, NEW ps, NEW qs,
         RequestOK(s, reader, a, c, ps), Later(ps, qs)
  PROVE  RequestOK(s, reader, a, c, qs)
  BY DEF RequestOK, Later, IsOver, Requests

\* A step of one request that leaves the authority and the copy alone.
LEMMA OwnStep ==
  ASSUME Inv, NEW r \in Request, NEW s,
         request' = [request EXCEPT ![r] = s],
         RequestOK(s, onChainReader, authority, config, proposals'),
         UNCHANGED <<chain, config>>,
         proposals' \in Rows, Later(proposals, proposals'),
         signatures' \in [Proposal -> SUBSET Signer],
         settled' \in SUBSET Proposal, \A p \in settled' : proposals'[p].executed
  PROVE  Inv'
<1>1. s \in Requests
  BY DEF RequestOK
<1>2. request' \in [Request -> Requests]
  BY <1>1 DEF Inv
<1>3. \A q \in Request : RequestOK(request'[q], onChainReader, authority, config, proposals')
  BY LaterKeeps DEF Inv
<1> QED
  BY <1>2, <1>3 DEF Inv, chain

LEMMA SameRows ==
  ASSUME Inv, UNCHANGED proposals
  PROVE  /\ proposals' \in Rows /\ Later(proposals, proposals')
         /\ \A p \in settled : proposals'[p].executed
  BY DEF Inv, Later

LEMMA CalledInv ==
  ASSUME Inv, NEW r \in Request, NEW kind \in {"propose", "sign", "execute"},
         NEW pc \in {"persist", "chain"}, NEW p \in Proposal, NEW s \in Signer,
         pc = "persist" => kind = "propose", Called(r, kind, pc, p, s),
         UNCHANGED <<chain, config, proposals, signatures, settled>>
  PROVE  Inv'
<1>1. PICK late \in BOOLEAN : late = (p \in settled \/ proposals[p].expired)
  OBVIOUS
<1> DEFINE t == [kind |-> kind, pc |-> pc, on |-> p, by |-> s, answer |-> None,
                 executed |-> FALSE, seen |-> {}, since |-> {authority}, late |-> late,
                 outdated |-> FALSE]
<1> DEFINE u == [Idle EXCEPT !.kind = kind, !.pc = pc, !.on = p, !.by = s, !.since = {authority},
                             !.late = p \in settled \/ proposals[p].expired]
<1>2. request' = [request EXCEPT ![r] = t]
  <2>1. u = [Idle EXCEPT !.kind = kind, !.pc = pc, !.on = p, !.by = s, !.since = {authority},
                         !.late = late]
    BY <1>1, Zenon
  <2>. HIDE DEF u
  <2>3. u = t
    BY <2>1 DEF Idle
  <2>2. request' = [request EXCEPT ![r] = u]
    BY DEF Called, u
  <2>. HIDE DEF t
  <2> QED
    BY <2>2, <2>3
<1>3. t \in Requests
  BY DEF Inv, Requests
<1>4. late => IsOver(proposals, p)
  BY <1>1 DEF Inv, IsOver
<1>5. RequestOK(t, onChainReader, authority, config, proposals')
  BY <1>3, <1>4 DEF RequestOK, AfterSync
<1> HIDE DEF t
<1> QED
  BY <1>2, <1>5, OwnStep, SameRows DEF Inv

LEMMA ReadChainInv == ASSUME Inv, NEW r \in Request, ReadChain(r) PROVE Inv'
<1>1. PICK live \in Answers(onChainReader, request[r].since) :
         request' = [request EXCEPT ![r].pc = "sync", ![r].answer = live]
  BY DEF ReadChain
<1> DEFINE t == [request[r] EXCEPT !.pc = "sync", !.answer = live]
<1>2. request' = [request EXCEPT ![r] = t]
  BY <1>1
<1>3. RequestOK(request[r], onChainReader, authority, config, proposals)
  BY DEF Inv
<1>4. live \in Copies
  <2>1. request[r].since \in SUBSET Authorities /\ onChainReader \in Readers
    BY <1>3 DEF RequestOK, Requests, Inv
  <2> QED
    BY <2>1, AnswersAreCopies
<1>5. RequestOK(t, onChainReader, authority, config, proposals')
  BY <1>3, <1>4 DEF ReadChain, At, RequestOK, Requests, AfterSync
<1> HIDE DEF t
<1> QED
  BY <1>2, <1>5, OwnStep, SameRows DEF Inv, ReadChain

LEMMA syncFromChainInv == ASSUME Inv, NEW r \in Request, syncFromChain(r) PROVE Inv'
<1> DEFINE live == request[r].answer
           copy == IF At(r, "sync") /\ Valid(live) THEN live ELSE config
           Told(s) == [s EXCEPT !.outdated = @ \/ copy \notin Answers(onChainReader, s.since)]
           on == [request[r] EXCEPT !.pc = "row", !.answer = None]
           own == IF request[r].by \in copy.signers THEN Told(on) ELSE Idle
<1>1. /\ config' = copy
      /\ request' = [q \in Request |-> IF q = r THEN own
                                       ELSE IF request[q].pc \in AfterSync THEN Told(request[q])
                                       ELSE request[q]]
      /\ UNCHANGED <<chain, proposals, signatures, settled>>
  BY DEF syncFromChain
<1>2. \A q \in Request : /\ RequestOK(request[q], onChainReader, authority, config, proposals)
                         /\ request[q] \in Requests
  BY DEF Inv
<1>3. copy \in Copies
  BY <1>2 DEF At, RequestOK, Inv
<1>4. request[r].pc \in {"chain", "sync"}
  BY DEF syncFromChain, At
<1> HIDE DEF copy
\* A request that has seen the copy, or sees it now, is told of its age: whatever
\* else is true of it is true of it outdated.
<1>5. ASSUME NEW s \in Requests, s.pc \in AfterSync,
             RequestOK([s EXCEPT !.outdated = TRUE], onChainReader, authority, copy, proposals)
      PROVE  /\ Told(s) \in Requests
             /\ RequestOK(Told(s), onChainReader, authority, copy, proposals)
  <2>1. PICK b \in BOOLEAN :
           b = (s.outdated \/ copy \notin Answers(onChainReader, s.since))
    OBVIOUS
  <2> DEFINE t == [s EXCEPT !.outdated = b]
  <2>2. Told(s) = t
    BY <2>1
  <2>3. t \in Requests
    BY <1>5 DEF Requests
  <2>4. ~b => copy \in Answers(onChainReader, s.since)
    BY <2>1
  <2>5. RequestOK(t, onChainReader, authority, copy, proposals)
    BY <1>5, <2>3, <2>4 DEF RequestOK, Requests, AfterSync
  <2> QED
    BY <2>2, <2>3, <2>5
<1>6. own \in Requests /\ RequestOK(own, onChainReader, authority, copy, proposals)
  <2>1. CASE request[r].by \in copy.signers
    <3>1. on \in Requests /\ on.pc = "row" /\ on.pc \in AfterSync
      BY <1>2, <1>4 DEF Requests, AfterSync
    <3>2. RequestOK([on EXCEPT !.outdated = TRUE], onChainReader, authority, copy, proposals)
      BY <1>2, <1>4, <3>1 DEF RequestOK, Requests, AfterSync
    <3> HIDE DEF on
    <3>3. Told(on) \in Requests /\ RequestOK(Told(on), onChainReader, authority, copy, proposals)
      BY <1>5, <3>1, <3>2
    <3> QED
      BY <2>1, <3>3
  <2>2. CASE request[r].by \notin copy.signers
    BY <2>2, IdleOK
  <2> QED
    BY <2>1, <2>2
<1>7. ASSUME NEW q \in Request, request[q].pc \in AfterSync
      PROVE  /\ Told(request[q]) \in Requests
             /\ RequestOK(Told(request[q]), onChainReader, authority, copy, proposals)
  <2>1. RequestOK([request[q] EXCEPT !.outdated = TRUE], onChainReader, authority, copy, proposals)
    BY <1>2, <1>7 DEF RequestOK, Requests, AfterSync
  <2> QED
    BY <1>2, <1>5, <1>7, <2>1
<1>8. ASSUME NEW q \in Request, request[q].pc \notin AfterSync
      PROVE  RequestOK(request[q], onChainReader, authority, copy, proposals)
  BY <1>2, <1>8 DEF RequestOK
<1> HIDE DEF Told, own
<1>9. request' \in [Request -> Requests]
  BY <1>1, <1>2, <1>6, <1>7
<1>10. \A q \in Request : RequestOK(request'[q], onChainReader, authority, copy, proposals)
  BY <1>1, <1>6, <1>7, <1>8
<1> QED
  BY <1>1, <1>3, <1>9, <1>10 DEF Inv, chain

LEMMA EndsInv ==
  ASSUME Inv, NEW r \in Request, Ends(r), UNCHANGED <<chain, config, settled>>,
         proposals' \in Rows, Later(proposals, proposals'),
         signatures' \in [Proposal -> SUBSET Signer]
  PROVE  Inv'
<1>1. \A p \in settled' : proposals'[p].executed
  BY DEF Inv, Later
<1> QED
  BY <1>1, IdleOK, OwnStep DEF Ends, Inv

LEMMA ReadRowInv == ASSUME Inv, NEW r \in Request, ReadRow(r) PROVE Inv'
<1> DEFINE p == request[r].on
           t == [request[r] EXCEPT !.pc = "signatures", !.executed = proposals[p].executed]
<1>1. RequestOK(request[r], onChainReader, authority, config, proposals) /\ request[r].pc = "row"
  BY DEF Inv, ReadRow, At
<1>2. p \in Proposal /\ proposals[p].executed \in BOOLEAN
  BY <1>1 DEF RequestOK, Inv, Rows
<1>3. RequestOK(t, onChainReader, authority, config, proposals')
  BY <1>1, <1>2 DEF ReadRow, RequestOK, Requests, AfterSync, IsOver
<1>4. CASE request' = [request EXCEPT ![r] = t]
  <2> HIDE DEF t
  <2> QED
    BY <1>3, <1>4, OwnStep, SameRows DEF Inv, ReadRow
<1>5. CASE Ends(r)
  BY <1>5, EndsInv, SameRows DEF Inv, ReadRow
<1> QED
  BY <1>4, <1>5 DEF ReadRow

LEMMA ReadSignaturesInv == ASSUME Inv, NEW r \in Request, ReadSignatures(r) PROVE Inv'
<1> DEFINE p == request[r].on
           t == [request[r] EXCEPT !.pc = "check", !.seen = signatures[p]]
<1>1. /\ RequestOK(request[r], onChainReader, authority, config, proposals)
      /\ request[r].pc = "signatures"
  BY DEF Inv, ReadSignatures, At
<1>2. p \in Proposal /\ signatures[p] \in SUBSET Signer
  BY <1>1 DEF RequestOK, Inv
<1>3. RequestOK(t, onChainReader, authority, config, proposals')
  BY <1>1, <1>2 DEF ReadSignatures, RequestOK, Requests, AfterSync, IsOver
<1>4. request' = [request EXCEPT ![r] = t]
  BY DEF ReadSignatures
<1> HIDE DEF t
<1> QED
  BY <1>3, <1>4, OwnStep, SameRows DEF Inv, ReadSignatures

LEMMA CheckInv == ASSUME Inv, NEW r \in Request, Check(r) PROVE Inv'
<1> DEFINE s == request[r]
           t(pc) == [s EXCEPT !.pc = pc]
<1>1. RequestOK(s, onChainReader, authority, config, proposals) /\ s.pc = "check" /\ s \in Requests
  BY DEF Inv, Check, At
<1>2. UNCHANGED <<chain, config, proposals, signatures, settled>>
  BY DEF Check
<1>3. ASSUME ~Over(r) PROVE ~s.late
  BY <1>1, <1>3 DEF RequestOK, Over
<1>4. CASE s.kind = "sign" /\ ~Over(r) /\ GoesTo(r, "insert")
  <2>1. RequestOK(t("insert"), onChainReader, authority, config, proposals')
    BY <1>1, <1>2, <1>3, <1>4 DEF RequestOK, Requests, AfterSync, IsOver
  <2> QED
    BY <1>2, <1>4, <2>1, OwnStep, SameRows DEF Inv, GoesTo
<1>5. CASE /\ s.kind = "execute" /\ ~Over(r) /\ GoesTo(r, "mark")
           /\ Cardinality(liveSignatures(r)) >= requiredThreshold(s.on, config)
  <2>1. ~s.outdated => Backed(s, onChainReader)
    BY <1>1, <1>5 DEF RequestOK, AfterSync, Backed, liveSignatures
  <2>2. Backed(s, onChainReader) <=> Backed(t("mark"), onChainReader)
    BY <1>1 DEF Backed, Requests
  <2>3. RequestOK(t("mark"), onChainReader, authority, config, proposals')
    BY <1>1, <1>2, <1>3, <1>5, <2>1, <2>2 DEF RequestOK, Requests, AfterSync, IsOver
  <2> QED
    BY <1>2, <1>5, <2>3, OwnStep, SameRows DEF Inv, GoesTo
<1>6. CASE Ends(r)
  BY <1>2, <1>6, EndsInv, SameRows DEF Inv
<1> QED
  BY <1>4, <1>5, <1>6 DEF Check
-----------------------------------------------------------------------------
LEMMA RowWrites ==
  ASSUME Inv, NEW p \in Proposal,
         \/ proposals' = [proposals EXCEPT ![p].created = TRUE]
         \/ proposals' = [proposals EXCEPT ![p].executed = TRUE]
         \/ proposals' = [proposals EXCEPT ![p].expired = TRUE]
  PROVE  /\ proposals' \in Rows /\ Later(proposals, proposals')
         /\ \A q \in settled : proposals'[q].executed
<1>1. proposals \in Rows /\ settled \subseteq Proposal /\ \A q \in settled : proposals[q].executed
  BY DEF Inv
<1>2. CASE proposals' = [proposals EXCEPT ![p].created = TRUE]
  <2>1. proposals' \in Rows /\ Later(proposals, proposals')
    BY <1>1, <1>2 DEF Rows, Later
  <2> QED
    BY <1>1, <2>1 DEF Later
<1>3. CASE proposals' = [proposals EXCEPT ![p].executed = TRUE]
  <2>1. proposals' \in Rows /\ Later(proposals, proposals')
    BY <1>1, <1>3 DEF Rows, Later
  <2> QED
    BY <1>1, <2>1 DEF Later
<1>4. CASE proposals' = [proposals EXCEPT ![p].expired = TRUE]
  <2>1. proposals' \in Rows /\ Later(proposals, proposals')
    BY <1>1, <1>4 DEF Rows, Later
  <2> QED
    BY <1>1, <2>1 DEF Later
<1> QED
  BY <1>2, <1>3, <1>4

LEMMA persistProposalInv == ASSUME Inv, NEW r \in Request, persistProposal(r) PROVE Inv'
<1> DEFINE s == request[r]
           t == [s EXCEPT !.pc = "insert"]
<1>1. RequestOK(s, onChainReader, authority, config, proposals) /\ s.pc = "persist"
  BY DEF Inv, persistProposal, At
<1>2. s.on \in Proposal
  BY <1>1 DEF RequestOK
<1>3. proposals' \in Rows /\ Later(proposals, proposals') /\ \A q \in settled : proposals'[q].executed
  BY <1>2, RowWrites DEF persistProposal
<1>4. RequestOK(s, onChainReader, authority, config, proposals')
  BY <1>1, <1>3, LaterKeeps
<1>5. RequestOK(t, onChainReader, authority, config, proposals')
  BY <1>1, <1>4 DEF RequestOK, Requests, AfterSync, IsOver
<1>6. request' = [request EXCEPT ![r] = t]
  BY DEF persistProposal, GoesTo
<1> HIDE DEF t
<1> QED
  BY <1>3, <1>5, <1>6, OwnStep DEF Inv, persistProposal

LEMMA recordSignatureInv == ASSUME Inv, NEW r \in Request, recordSignature(r) PROVE Inv'
<1>1. RequestOK(request[r], onChainReader, authority, config, proposals) /\ request[r].pc = "insert"
  BY DEF Inv, recordSignature, At
<1>2. signatures' \in [Proposal -> SUBSET Signer]
  BY <1>1 DEF RequestOK, recordSignature, Inv
<1> QED
  BY <1>2, EndsInv, SameRows DEF Inv, recordSignature

LEMMA MarkExecutedInv == ASSUME Inv, NEW r \in Request, MarkExecuted(r) PROVE Inv'
<1> DEFINE s == request[r]
           t == [s EXCEPT !.pc = "returned"]
<1>1. RequestOK(s, onChainReader, authority, config, proposals) /\ s.pc = "mark"
  BY DEF Inv, MarkExecuted, At
<1>2. s.on \in Proposal
  BY <1>1 DEF RequestOK
<1>3. /\ proposals' \in Rows /\ Later(proposals, proposals')
      /\ \A q \in settled' : proposals'[q].executed
  <2>1. proposals'[s.on].executed
    BY <1>2 DEF MarkExecuted, Executed, Inv, Rows
  <2> QED
    BY <1>2, <2>1, RowWrites DEF MarkExecuted, Executed
<1>4. RequestOK(s, onChainReader, authority, config, proposals')
  BY <1>1, <1>3, LaterKeeps
<1>5. Backed(s, onChainReader) <=> Backed(t, onChainReader)
  BY <1>1 DEF Backed, Requests, RequestOK
<1>6. RequestOK(t, onChainReader, authority, config, proposals')
  BY <1>1, <1>4, <1>5 DEF RequestOK, Requests, AfterSync, IsOver
<1>7. request' = [request EXCEPT ![r] = t] /\ settled' \in SUBSET Proposal
  BY <1>2 DEF MarkExecuted, GoesTo, Inv
<1> HIDE DEF t
<1> QED
  BY <1>3, <1>6, <1>7, OwnStep DEF Inv, MarkExecuted

LEMMA FailsInv == ASSUME Inv, NEW r \in Request, Fails(r) PROVE Inv'
<1>1. request[r].on \in Proposal
  BY DEF Inv, RequestOK, Fails, Free
<1>2. proposals' \in Rows /\ Later(proposals, proposals')
  BY <1>1, RowWrites, SameRows DEF Fails, Executed
<1> QED
  BY <1>2, EndsInv DEF Fails, Inv

LEMMA RestartInv == ASSUME Inv, Restart PROVE Inv'
<1>1. \A r \in Request : request'[r] = Idle
  BY DEF Restart
<1>2. \A r \in Request : RequestOK(request'[r], onChainReader', authority', config', proposals')
  BY <1>1, IdleOK
<1>3. request' \in [Request -> Requests]
  BY IdleOK DEF Restart
<1> QED
  BY <1>2, <1>3, AuthoritiesAssumption DEF Inv, Restart, chain

LEMMA ReconfigureInv ==
  ASSUME Inv, NEW a \in Authorities, Reconfigure(a)
  PROVE  Inv'
<1> DEFINE t(r) == [request[r] EXCEPT !.since = @ \cup {a}]
<1>1. ASSUME NEW r \in Request
      PROVE  /\ request'[r] \in Requests
             /\ RequestOK(request'[r], onChainReader, a, config, proposals)
  <2>1. RequestOK(request[r], onChainReader, authority, config, proposals) /\ request[r] \in Requests
    BY DEF Inv
  <2>2. CASE Free(r)
    BY <2>1, <2>2 DEF Reconfigure, Free, RequestOK
  <2>3. CASE ~Free(r)
    <3>1. request'[r] = t(r) /\ t(r) \in Requests
      BY <2>1, <2>3 DEF Reconfigure, Requests
    <3>2. Answers(onChainReader, request[r].since) \subseteq Answers(onChainReader, t(r).since)
      <4>1. request[r].since \subseteq t(r).since /\ onChainReader \in Readers
        BY <2>1 DEF Requests, Inv
      <4> HIDE DEF t
      <4> QED
        BY <4>1, AnswersGrow
    <3>3. Backed(request[r], onChainReader) => Backed(t(r), onChainReader)
      BY <2>1, <3>2 DEF Backed, Requests
    <3>4. RequestOK(t(r), onChainReader, a, config, proposals)
      BY <2>1, <2>3, <3>1, <3>2, <3>3 DEF RequestOK, Requests, AfterSync, IsOver
    <3> QED
      BY <3>1, <3>4
  <2> QED
    BY <2>2, <2>3
<1>2. request' \in [Request -> Requests]
  <2>1. request' = [r \in Request |-> IF Free(r) THEN request[r] ELSE t(r)]
    BY DEF Reconfigure
  <2> HIDE DEF t
  <2> QED
    BY <1>1, <2>1
<1> QED
  BY <1>1, <1>2 DEF Inv, Reconfigure

LEMMA ExpireInv == ASSUME Inv, NEW p \in Proposal, Expire(p) PROVE Inv'
<1>1. /\ proposals' \in Rows /\ Later(proposals, proposals')
      /\ \A q \in settled : proposals'[q].executed
  BY RowWrites DEF Expire
<1>2. \A r \in Request : RequestOK(request[r], onChainReader, authority, config, proposals')
  BY <1>1, LaterKeeps DEF Inv
<1> QED
  BY <1>1, <1>2 DEF Inv, Expire, chain

LEMMA NextInv == Inv /\ [Next]_vars => Inv'
<1> SUFFICES ASSUME Inv, [Next]_vars PROVE Inv'
  OBVIOUS
<1>1. CASE UNCHANGED vars
  BY <1>1 DEF vars, chain, Inv
<1>2. ASSUME NEW r \in Request, NEW p \in Proposal, NEW s \in Signer, propose(r, p, s)
      PROVE  Inv'
  BY <1>2, CalledInv DEF propose
<1>3. ASSUME NEW r \in Request, NEW p \in Proposal, NEW s \in Signer,
             NEW kind \in {"sign", "execute"}, callWith(r, kind, p, s)
      PROVE  Inv'
  BY <1>3, CalledInv DEF callWith
<1>4. CASE Next
  BY <1>2, <1>3, <1>4, ReadChainInv, syncFromChainInv, ReadRowInv, ReadSignaturesInv, CheckInv,
     persistProposalInv, recordSignatureInv, MarkExecutedInv, FailsInv, RestartInv,
     ReconfigureInv, ExpireInv
  DEF Next
<1> QED
  BY <1>1, <1>4

LEMMA Invariance == Spec => []Inv
  BY InitInv, NextInv, PTL DEF Spec

\* Tables, copy and locals keep their types.
THEOREM TypeCorrect == Spec => []TypeOK
  BY Invariance, InvImplies, PTL

\* However many requests overlap, one that comes after the value has been handed
\* out or after the expiry writes no signature and returns no value.
THEOREM LateCallsAreHarmless == Spec => []LateCallsChangeNothing
  BY Invariance, InvImplies, PTL

\* A call of execute whose copy is no older answer returns the value only with a
\* quorum of what the contract has shown since the call.
THEOREM QuorumIsLive == Spec => []LiveQuorum
  BY Invariance, InvImplies, PTL
=============================================================================
