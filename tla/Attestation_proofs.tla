-------------------------- MODULE Attestation_proofs --------------------------
(***************************************************************************)
(* What holds of the host and the contract for every network, every set of *)
(* calldata and every kind of receipt.                                     *)
(*                                                                         *)
(* AttestedIsBacked is not inductive: `attest` looks at a seal, not at the *)
(* network.  IInv carries the evidence along the way an answer takes, from *)
(* the journal over the receipts of our image to the storage.              *)
(***************************************************************************)
EXTENDS Attestation, OracleNetwork_proofs

JournalsBacked == \A j \in journals : Backed(j.epoch, j.query, j.digest)

ReceiptsBacked ==
    \A r \in receipts : r.image = "IMAGE_ID" =>
        Backed(r.journal.epoch, r.journal.query, r.journal.digest)

IInv ==
    /\ TypeOK
    /\ events \in Seq([digest : Digest, epoch : Nat, queryId : QueryId])
    /\ IsFiniteSet(isAttested)
    /\ EventsMirrorStorage
    /\ JournalsBacked
    /\ ReceiptsBacked
    /\ AttestedIsBacked

USE NetworkAssumption, AttestationAssumption

-----------------------------------------------------------------------------
LEMMA InitInv == Init => IInv
<1> SUFFICES ASSUME Init PROVE IInv
  OBVIOUS
<1>1. /\ signedPackets = {} /\ signedTxs = {} /\ journals = {} /\ receipts = {}
      /\ routerStopped = FALSE /\ isAttested = {} /\ events = <<>>
      /\ attestedQueryId = [x \in Pair |-> 0]
  BY DEF Init, StInit, NetInit
<1>2. TypeOK
  <2>1. attestedQueryId \in [Pair -> QueryId \cup {0}]
    BY <1>1
  <2>2. 1 .. Len(events) = {}
    BY <1>1
  <2>3. QED
    BY <1>1, <2>1, <2>2 DEF TypeOK
<1>3. IsFiniteSet(isAttested) /\ Cardinality(isAttested) = 0
  BY <1>1, FS_EmptySet
<1>4. EventsMirrorStorage
  BY <1>1, <1>3 DEF EventsMirrorStorage
<1>5. QED
  BY <1>1, <1>2, <1>3, <1>4 DEF IInv, JournalsBacked, ReceiptsBacked, AttestedIsBacked

\* The environment: a network step, or a journal that the statement allows.
LEMMA StatementInv ==
    ASSUME IInv, StNext, UNCHANGED <<receipts, routerStopped, chainVars>>
    PROVE  IInv'
<1>1. CASE NetNext /\ UNCHANGED journals
  <2>1. NetTypeOK' /\ signedPackets \subseteq signedPackets' /\ signedTxs \subseteq signedTxs'
    BY <1>1 DEF IInv, TypeOK, NetTypeOK, NetNext, ArbitratorSigns, TxSigned
  <2>2. TypeOK' /\ EventsMirrorStorage'
    BY <1>1, <2>1 DEF IInv, TypeOK, NetTypeOK, chainVars, EventsMirrorStorage
  <2>3. JournalsBacked' /\ ReceiptsBacked' /\ AttestedIsBacked'
    BY <1>1, <2>1, EvidenceGrows DEF IInv, JournalsBacked, ReceiptsBacked, AttestedIsBacked,
       chainVars
  <2>4. QED
    BY <2>2, <2>3 DEF IInv, chainVars
<1>2. ASSUME NEW p \in signedPackets, NEW q \in QueryId, NEW r \in Reply,
             Prove([epoch |-> p.epoch, query |-> q, digest |-> K12(r)])
      PROVE  IInv'
  <2> DEFINE j == [epoch |-> p.epoch, query |-> q, digest |-> K12(r)]
  <2>1. /\ Backed(p.epoch, q, K12(r)) /\ journals' = journals \cup {j}
        /\ UNCHANGED <<signedPackets, signedTxs>>
    BY <1>2 DEF Prove, netVars
  <2>2. j \in Journal
    BY <1>2 DEF Journal, IInv, TypeOK
  <2>3. TypeOK' /\ EventsMirrorStorage'
    BY <2>1, <2>2 DEF IInv, TypeOK, chainVars, EventsMirrorStorage
  <2>4. JournalsBacked' /\ ReceiptsBacked' /\ AttestedIsBacked'
    BY <2>1, EvidenceGrows DEF IInv, JournalsBacked, ReceiptsBacked, AttestedIsBacked, chainVars
  <2>5. QED
    BY <2>3, <2>4 DEF IInv, chainVars
<1>3. QED
  BY <1>1, <1>2 DEF StNext

\* A receipt of our image needs a journal of the guest; a foreign one proves nothing.
LEMMA HostInv ==
    ASSUME IInv,
           \/ \E j \in journals, k \in RealKind : HostProve(j, k)
           \/ \E j \in Calldata : ForeignProve(j)
    PROVE  IInv'
<1>1. PICK r \in [image : Image, journal : Calldata \cup Journal, kind : RealKind] :
          /\ receipts' = receipts \cup {r}
          /\ r.image = "IMAGE_ID" => r.journal \in journals
          /\ UNCHANGED <<netVars, journals, routerStopped, chainVars>>
  BY DEF HostProve, ForeignProve, Image, IInv, TypeOK
<1>2. TypeOK' /\ EventsMirrorStorage'
  BY <1>1 DEF IInv, TypeOK, netVars, chainVars, EventsMirrorStorage
<1>3. JournalsBacked' /\ ReceiptsBacked' /\ AttestedIsBacked'
  BY <1>1, EvidenceGrows DEF IInv, JournalsBacked, ReceiptsBacked, AttestedIsBacked,
     netVars, chainVars
<1>4. QED
  BY <1>1, <1>2, <1>3 DEF IInv, chainVars

\* A seal the router accepts for our image is that of a receipt of our image.
LEMMA AcceptedIsBacked ==
    ASSUME IInv, NEW j, NEW s, SealAccepted(s, j)
    PROVE  Backed(j.epoch, j.query, j.digest)
<1>1. [image |-> "IMAGE_ID", journal |-> j, kind |-> "groth16"] \in receipts
  BY DEF SealAccepted, RouterAccepts
<1>2. QED
  BY <1>1 DEF IInv, ReceiptsBacked

LEMMA AttestInv ==
    ASSUME IInv, NEW j \in Calldata, NEW s \in Seal, Attest(j, s)
    PROVE  IInv'
<1> DEFINE pair == <<j.digest, j.epoch>>
           event == [digest |-> j.digest, epoch |-> j.epoch, queryId |-> j.query]
<1>1. /\ pair \notin isAttested
      /\ isAttested' = isAttested \cup {pair}
      /\ attestedQueryId' = [attestedQueryId EXCEPT ![pair] = j.query]
      /\ events' = Append(events, event)
      /\ UNCHANGED <<signedPackets, signedTxs, journals, receipts, routerStopped>>
      /\ SealAccepted(s, j)
  BY DEF Attest, netVars
<1>2. pair \in Pair /\ j.query \in QueryId /\ event \in [digest : Digest, epoch : Nat, queryId : QueryId]
  BY AttestationAssumption DEF Pair
<1>3. attestedQueryId \in [Pair -> QueryId \cup {0}] /\ isAttested \subseteq Pair
  BY DEF IInv, TypeOK
<1>4. /\ attestedQueryId' \in [Pair -> QueryId \cup {0}]
      /\ attestedQueryId'[pair] = j.query
      /\ \A x \in isAttested : attestedQueryId'[x] = attestedQueryId[x]
  BY <1>1, <1>2, <1>3
<1>5. /\ events' \in Seq([digest : Digest, epoch : Nat, queryId : QueryId])
      /\ Len(events') = Len(events) + 1
      /\ Len(events) \in Nat
      /\ events'[Len(events) + 1] = event
      /\ \A i \in 1 .. Len(events) : events'[i] = events[i]
  BY <1>1, <1>2 DEF IInv
<1>6. TypeOK'
  <2>1. \A i \in 1 .. Len(events') : <<events'[i].digest, events'[i].epoch>> \in isAttested'
    BY <1>1, <1>5 DEF IInv, TypeOK
  <2>2. /\ signedPackets' \subseteq Packet /\ signedTxs' \subseteq Signable
        /\ journals' \subseteq Journal /\ routerStopped' \in BOOLEAN
        /\ receipts' \subseteq [image : Image, journal : Calldata \cup Journal, kind : RealKind]
    BY <1>1 DEF IInv, TypeOK
  <2>3. isAttested' \subseteq Pair
    BY <1>1, <1>2, <1>3
  <2>4. QED
    BY <1>4, <2>1, <2>2, <2>3 DEF TypeOK
<1>7. IsFiniteSet(isAttested') /\ Cardinality(isAttested') = Cardinality(isAttested) + 1
  BY <1>1, FS_AddElement DEF IInv
<1>8. EventsMirrorStorage'
  <2>1. Len(events') = Cardinality(isAttested')
    BY <1>5, <1>7 DEF IInv, EventsMirrorStorage
  <2>2. ASSUME NEW x \in isAttested'
        PROVE  \E i \in 1 .. Len(events') :
                 events'[i] = [digest |-> x[1], epoch |-> x[2], queryId |-> attestedQueryId'[x]]
    <3>1. CASE x = pair
      BY <3>1, <1>4, <1>5
    <3>2. CASE x \in isAttested
      <4>1. PICK i \in 1 .. Len(events) :
              events[i] = [digest |-> x[1], epoch |-> x[2], queryId |-> attestedQueryId[x]]
        BY <3>2 DEF IInv, EventsMirrorStorage
      <4>2. i \in 1 .. Len(events') /\ events'[i] = events[i]
        BY <1>5
      <4>3. QED
        BY <4>1, <4>2, <3>2, <1>4
    <3>3. QED
      BY <3>1, <3>2, <2>2, <1>1
  <2>3. QED
    BY <2>1, <2>2 DEF EventsMirrorStorage
<1>9. JournalsBacked' /\ ReceiptsBacked'
  BY <1>1, EvidenceGrows DEF IInv, JournalsBacked, ReceiptsBacked
<1>10. AttestedIsBacked'
  <2>1. Backed(j.epoch, j.query, j.digest)
    BY <1>1, AcceptedIsBacked
  <2>2. \A e, q, d : Backed(e, q, d) => Backed(e, q, d)'
    BY <1>1, EvidenceGrows
  <2>3. ASSUME NEW x \in isAttested', NEW q, q = attestedQueryId'[x]
        PROVE  Backed(x[2], q, x[1])'
    <3>1. CASE x = pair
      BY <3>1, <2>1, <2>2, <2>3, <1>4
    <3>2. CASE x \in isAttested
      BY <3>2, <2>2, <2>3, <1>4 DEF IInv, AttestedIsBacked
    <3>3. QED
      BY <3>1, <3>2, <2>3, <1>1
  <2>4. QED
    BY <2>3 DEF AttestedIsBacked
<1>11. QED
  BY <1>5, <1>6, <1>7, <1>8, <1>9, <1>10 DEF IInv

LEMMA NextInv == IInv /\ [Next]_vars => IInv'
<1> SUFFICES ASSUME IInv, [Next]_vars PROVE IInv'
  OBVIOUS
<1>1. CASE StNext /\ UNCHANGED <<receipts, routerStopped, chainVars>>
  BY <1>1, StatementInv
<1>2. CASE \/ \E j \in journals, k \in RealKind : HostProve(j, k)
           \/ \E j \in Calldata : ForeignProve(j)
  BY <1>2, HostInv
<1>3. CASE \E j \in Calldata, s \in Seal : Attest(j, s)
  BY <1>3, AttestInv
<1>4. ASSUME UNCHANGED <<netVars, journals, receipts, chainVars>>, routerStopped' \in BOOLEAN
      PROVE  IInv'
  <2>1. TypeOK' /\ EventsMirrorStorage'
    BY <1>4 DEF IInv, TypeOK, EventsMirrorStorage, netVars, chainVars
  <2>2. JournalsBacked' /\ ReceiptsBacked' /\ AttestedIsBacked'
    BY <1>4, EvidenceGrows DEF IInv, JournalsBacked, ReceiptsBacked, AttestedIsBacked,
       netVars, chainVars
  <2>3. QED
    BY <1>4, <2>1, <2>2 DEF IInv, chainVars
<1>5. QED
  BY <1>1, <1>2, <1>3, <1>4 DEF Next, vars, ToggleRouter, netVars, IInv, TypeOK

\* The inductive invariant holds of every run.
THEOREM Invariance == Spec => []IInv
BY InitInv, NextInv, PTL DEF Spec

\* Receipts, storage and events keep their types, and no event lacks its storage.
THEOREM TypeCorrect == Spec => []TypeOK
<1>1. IInv => TypeOK
  BY DEF IInv
<1>2. QED
  BY <1>1, Invariance, PTL

\* Whatever proofs, receipts and calldata anyone makes, `isAttested` is set only for
\* answers that a quorum of the signed list backs.
THEOREM OnlyBackedIsAttested == Spec => []AttestedIsBacked
<1>1. IInv => AttestedIsBacked
  BY DEF IInv
<1>2. QED
  BY <1>1, Invariance, PTL

\* There is exactly one event for each attested pair, and it still tells the storage.
THEOREM EventsTellStorage == Spec => []EventsMirrorStorage
<1>1. IInv => EventsMirrorStorage
  BY DEF IInv
<1>2. QED
  BY <1>1, Invariance, PTL

\* What the network promises, proofs and calldata cannot touch.
THEOREM NetworkPromises == Spec => []NetInvariant
<1>1. Init => NetInvariant
  BY NetStart DEF Init, StInit
<1>2. [Next]_vars => [NetNext]_netVars
  BY DEF Next, vars, netVars, StNext, Prove, HostProve, ForeignProve, Attest, ToggleRouter
<1>3. NetInvariant /\ [Next]_vars => NetInvariant'
  BY <1>2, NetStep
<1>4. QED
  BY <1>1, <1>3, PTL DEF Spec

\* With fewer than 2 * Quorum - N Byzantine computors, and one list signed per epoch, the
\* chain never holds two answers to one query of one epoch.
THEOREM NoTwoAttestedAnswers == FewByzantine /\ ~ Equivocates => (Spec => []OneAnswerOnChain)
<1>1. ASSUME FewByzantine, ~ Equivocates PROVE NetInvariant /\ AttestedIsBacked => OneAnswerOnChain
  <2>1. SUFFICES ASSUME NetInvariant, AttestedIsBacked,
                        NEW x \in isAttested, NEW y \in isAttested,
                        x[2] = y[2], attestedQueryId[x] = attestedQueryId[y]
                 PROVE  x[1] = y[1]
    BY DEF OneAnswerOnChain
  <2>2. /\ Backed(x[2], attestedQueryId[x], x[1])
        /\ Backed(y[2], attestedQueryId[y], y[1])
    BY <2>1 DEF AttestedIsBacked
  <2>3. Backed(x[2], attestedQueryId[x], y[1])
    BY <2>1, <2>2
  <2>4. QED
    BY <1>1, <2>1, <2>2, <2>3, QuorumsAgree
<1>2. ASSUME FewByzantine, ~ Equivocates PROVE Spec => []OneAnswerOnChain
  BY <1>1, <1>2, NetworkPromises, OnlyBackedIsAttested, PTL
<1>3. QED
  BY <1>2

\* A proof.json that verify accepts without --allow-fake states a backed answer, and a
\* running router accepts the seal and the journal of its fields.
THEOREM AcceptedFileIsGood == Spec => []VerifiedProofIsGood
<1>1. ASSUME IInv PROVE VerifiedProofIsGood
  <2>1. SUFFICES ASSUME NEW f \in ProofFile, Verify(f, FALSE, TRUE)
                 PROVE  /\ Backed(f.journal_hex.epoch, f.journal_hex.query, f.journal_hex.digest)
                        /\ f.receipt_kind = "groth16" /\ ~ routerStopped
                             => SealAccepted(f.seal_hex, f.journal_hex)
    BY DEF VerifiedProofIsGood
  <2> DEFINE r == f.receipt
  <2>2. /\ r \in receipts /\ r.image = "IMAGE_ID" /\ r.kind # "fake"
        /\ f.journal_hex = r.journal /\ f.receipt_kind = r.kind
        /\ f.seal_hex = encode_seal(r)
    BY <2>1 DEF Verify, ReceiptVerifies
  <2>3. Backed(r.journal.epoch, r.journal.query, r.journal.digest)
    BY <1>1, <2>2 DEF IInv, ReceiptsBacked
  <2>4. ASSUME r.kind = "groth16", ~ routerStopped
        PROVE  SealAccepted(f.seal_hex, f.journal_hex)
    <3>1. r = [image |-> "IMAGE_ID", journal |-> r.journal, kind |-> "groth16"]
      BY <1>1, <2>2, <2>4 DEF IInv, TypeOK
    <3>2. encode_seal(r) = [kind |-> "groth16", image |-> "IMAGE_ID", journal |-> r.journal]
      BY <2>2, <2>4 DEF encode_seal
    <3>3. QED
      BY <2>2, <2>4, <3>1, <3>2 DEF SealAccepted, RouterAccepts
  <2>5. QED
    BY <2>2, <2>3, <2>4
<1>2. QED
  BY <1>1, Invariance, PTL

-----------------------------------------------------------------------------
(* The register.                                                           *)

\* Storage as the register sees it.
Stored == [x \in isAttested |-> attestedQueryId[x]]

\* The register's own notion of a backed answer is the network's.
LEMMA SameBacked == \A e, q, d : Register!Backed(e, q, d) <=> Backed(e, q, d)
<1>1. \A S : Register!Cardinality(S) = Cardinality(S)
  BY DEF Register!Cardinality, Cardinality
<1>2. \A q : Register!Asked(q) <=> Asked(q)
  BY DEF Register!Asked, Asked, Register!QUERY_INPUT_TYPE, QUERY_INPUT_TYPE,
         Register!QueryTick, QueryTick
<1>3. \A list, q, r : Register!Revealed(list, q, r) <=> Revealed(list, q, r)
  BY DEF Register!Revealed, Revealed, Register!REVEAL_INPUT_TYPE, REVEAL_INPUT_TYPE,
         Register!Index, Index
<1>4. \A list, i, q, r : Register!Committed(list, i, q, r) <=> Committed(list, i, q, r)
  BY DEF Register!Committed, Committed, Register!COMMIT_INPUT_TYPE, COMMIT_INPUT_TYPE,
         Register!QueryTick, QueryTick, Register!CommitItem, CommitItem, Register!K12, K12,
         Register!KnowledgeProof, KnowledgeProof
<1>5. /\ Register!Index = Index
      /\ \A list : Register!Injective(list) <=> Injective(list)
      /\ \A r : Register!K12(r) = K12(r)
  BY DEF Register!Index, Index, Register!Injective, Injective, Register!K12, K12
<1>6. QED
  BY <1>1, <1>2, <1>3, <1>4, <1>5 DEF Register!Backed, Backed

\* And so are its network steps.
LEMMA SameNetwork == NetNext => Register!NetNext
BY DEF Register!NetNext, NetNext, Register!ArbitratorSigns, ArbitratorSigns,
       Register!TxSigned, TxSigned, Register!Conflict, Conflict,
       Register!Commitments, Commitments, Register!COMMIT_INPUT_TYPE, COMMIT_INPUT_TYPE

\* An attestation writes one new answer, which a quorum backs.
LEMMA AttestRecords ==
    ASSUME IInv, NEW j \in Calldata, NEW s \in Seal, Attest(j, s)
    PROVE  \E r \in Reply, p \in signedPackets, q \in QueryId :
               Register!Record(K12(r), p.epoch, q)
<1> DEFINE pair == <<j.digest, j.epoch>>
<1>1. Backed(j.epoch, j.query, j.digest)
  BY AcceptedIsBacked DEF Attest
<1>2. PICK p \in signedPackets, r \in Reply : p.epoch = j.epoch /\ K12(r) = j.digest
  BY <1>1 DEF Backed
<1>3. j.query \in QueryId /\ pair \in Pair
  BY DEF Pair
<1>4. pair \notin isAttested /\ isAttested' = isAttested \cup {pair}
  BY DEF Attest
<1>5. /\ attestedQueryId'[pair] = j.query
      /\ \A x \in isAttested : attestedQueryId'[x] = attestedQueryId[x]
  BY <1>3, <1>4 DEF Attest, IInv, TypeOK
<1>6. Stored' = [x \in DOMAIN Stored \cup {pair} |-> IF x = pair THEN j.query ELSE Stored[x]]
  BY <1>4, <1>5 DEF Stored
<1>7. Register!Backed(j.epoch, j.query, K12(r))
  BY <1>1, <1>2, SameBacked
<1>8. Register!Record(K12(r), p.epoch, j.query)
  <2>1. pair = <<K12(r), p.epoch>> /\ pair \notin DOMAIN Stored /\ UNCHANGED netVars
    BY <1>2, <1>4 DEF Attest, Stored
  <2>2. QED
    BY <1>2, <1>6, <1>7, <2>1 DEF Register!Record, Stored, netVars, Register!netVars
<1>9. QED
  BY <1>2, <1>3, <1>8

\* The contract, under whatever is proven and sent to it, is the write-once register:
\* it starts empty, and a step adds one backed answer for a new pair or changes nothing.
THEOREM ContractIsRegister == Spec => ImplementsRegister
<1>1. Init => Register!RegInit
  <2> SUFFICES ASSUME Init PROVE Register!RegInit
    OBVIOUS
  <2>1. [x \in {} |-> attestedQueryId[x]] = <<>>
    OBVIOUS
  <2>2. isAttested = {}
    BY DEF Init
  <2>3. QED
    BY <2>1, <2>2 DEF Init, StInit, NetInit, Register!RegInit, Register!NetInit
<1>2. IInv /\ [Next]_vars => [Register!RegNext]_<<signedPackets, signedTxs, Stored>>
  <2>1. SUFFICES ASSUME IInv, [Next]_vars
                 PROVE  [Register!RegNext]_<<signedPackets, signedTxs, Stored>>
    OBVIOUS
  <2>2. CASE \E j \in Calldata, s \in Seal : Attest(j, s)
    <3>1. PICK r \in Reply, p \in signedPackets, q \in QueryId :
              Register!Record(K12(r), p.epoch, q)
      BY <2>1, <2>2, AttestRecords
    <3>2. Register!K12(r) = K12(r)
      BY DEF Register!K12, K12
    <3>3. QED
      BY <3>1, <3>2 DEF Register!RegNext
  <2>3. CASE NetNext /\ UNCHANGED chainVars
    <3>1. Register!NetNext
      BY <2>3, SameNetwork
    <3>2. UNCHANGED Stored
      BY <2>3 DEF chainVars, Stored
    <3>3. QED
      BY <3>1, <3>2 DEF Register!RegNext, Stored
  <2>4. CASE UNCHANGED <<netVars, chainVars>>
    BY <2>4 DEF netVars, chainVars, Stored
  <2>5. QED
    BY <2>1, <2>2, <2>3, <2>4 DEF Next, vars, netVars, StNext, Prove, HostProve, ForeignProve,
       ToggleRouter
<1>3. QED
  BY <1>1, <1>2, Invariance, PTL DEF Spec, ImplementsRegister, Register!RegSpec, Stored
=============================================================================
