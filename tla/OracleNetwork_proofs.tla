------------------------- MODULE OracleNetwork_proofs -------------------------
(***************************************************************************)
(* Facts about signed statements that the proofs of the guest and of the   *)
(* chain rest on: evidence only grows, the network keeps its two promises, *)
(* and two quorums of one list cannot back two answers to one query.       *)
(***************************************************************************)
EXTENDS OracleNetwork, TLAPS, FiniteSetTheorems

USE NetworkAssumption

\* An arbitrator that does not equivocate signs one list per epoch; a correct computor
\* gives one answer.
NetTypeOK == signedPackets \subseteq Packet /\ signedTxs \subseteq Signable
OneListPerEpoch ==
    ~ Equivocates => \A p, o \in signedPackets : p.epoch = o.epoch => p = o
OneAnswerEach ==
    \A t, o \in signedTxs : t.source \notin Byzantine => ~ Conflict(t, o)
NetInvariant == NetTypeOK /\ OneListPerEpoch /\ OneAnswerEach

\* Too few Byzantine computors to fill the overlap of two quorums.
FewByzantine == IsFiniteSet(Byzantine) /\ Cardinality(Byzantine) < 2 * Quorum - N

\* The evidence behind a statement is never lost: the signed sets only grow.
LEMMA EvidenceGrows ==
    ASSUME signedPackets \subseteq signedPackets', signedTxs \subseteq signedTxs'
    PROVE  /\ \A q : Asked(q) => Asked(q)'
           /\ \A list, q, r : Revealed(list, q, r) => Revealed(list, q, r)'
           /\ \A list, i, q, r : Committed(list, i, q, r) => Committed(list, i, q, r)'
           /\ \A e, q, d : Backed(e, q, d) => Backed(e, q, d)'
<1>1. \A q : Asked(q) => Asked(q)'
  BY DEF Asked
<1>2. \A list, q, r : Revealed(list, q, r) => Revealed(list, q, r)'
  BY DEF Revealed
<1>3. \A list, i, q, r : Committed(list, i, q, r) => Committed(list, i, q, r)'
  BY DEF Committed
<1>4. \A e, q, d : Backed(e, q, d) => Backed(e, q, d)'
  BY <1>1, <1>2, <1>3 DEF Backed
<1>5. QED
  BY <1>1, <1>2, <1>3, <1>4

\* Nothing is signed at the start.
LEMMA NetStart == NetInit => NetInvariant
BY DEF NetInit, NetInvariant, NetTypeOK, OneListPerEpoch, OneAnswerEach

\* A step of the network keeps its promises.
LEMMA NetStep == NetInvariant /\ [NetNext]_netVars => NetInvariant'
<1> SUFFICES ASSUME NetInvariant, [NetNext]_netVars PROVE NetInvariant'
  OBVIOUS
<1>1. ASSUME NEW p \in Packet, ArbitratorSigns(p) PROVE NetInvariant'
  <2>1. signedPackets' = signedPackets \cup {p} /\ signedTxs' = signedTxs
    BY <1>1, Zenon DEF ArbitratorSigns
  <2>2. NetTypeOK' /\ OneAnswerEach'
    BY <2>1 DEF NetInvariant, NetTypeOK, OneAnswerEach, Conflict, Commitments
  <2>3. OneListPerEpoch'
    <3>1. CASE Equivocates
      BY <3>1, Zenon DEF OneListPerEpoch
    <3>2. CASE ~ Equivocates
      <4>1. \A q, o \in signedPackets : q.epoch = o.epoch => q = o
        BY <3>2, Zenon DEF NetInvariant, OneListPerEpoch
      <4>2. \A o \in signedPackets : o.epoch # p.epoch
        BY <1>1, <3>2, Zenon DEF ArbitratorSigns
      <4>3. \A q, o \in signedPackets' : q.epoch = o.epoch => q = o
        BY <2>1, <4>1, <4>2, Zenon
      <4>4. QED
        BY <4>3, Zenon DEF OneListPerEpoch
    <3>3. QED
      BY <3>1, <3>2
  <2>4. QED
    BY <2>2, <2>3 DEF NetInvariant
<1>2. ASSUME NEW tx \in Signable, TxSigned(tx) PROVE NetInvariant'
  <2>1. signedTxs' = signedTxs \cup {tx} /\ signedPackets' = signedPackets
    BY <1>2 DEF TxSigned
  <2>2. ASSUME NEW t \in signedTxs', NEW o \in signedTxs', t.source \notin Byzantine
        PROVE  ~ Conflict(t, o)
    <3>1. CASE t \in signedTxs /\ o \in signedTxs
      BY <3>1, <2>2 DEF NetInvariant, OneAnswerEach
    <3>2. CASE t = tx
      BY <3>2, <2>1, <2>2, <1>2 DEF TxSigned
    <3>3. CASE o = tx /\ t \in signedTxs
      <4>1. CASE t.source # tx.source
        BY <4>1, <3>3 DEF Conflict
      <4>2. CASE t.source = tx.source
        BY <4>2, <3>3, <2>2, <1>2 DEF TxSigned
      <4>3. QED
        BY <4>1, <4>2
    <3>4. QED
      BY <2>1, <2>2, <3>1, <3>2, <3>3
  <2>3. QED
    BY <2>1, <2>2 DEF NetInvariant, NetTypeOK, OneListPerEpoch, OneAnswerEach
<1>3. CASE UNCHANGED netVars
  BY <1>3 DEF netVars, NetInvariant, NetTypeOK, OneListPerEpoch, OneAnswerEach
<1>4. QED
  BY <1>1, <1>2, <1>3 DEF NetNext

\* The computor indices are a finite set of N elements.
LEMMA IndexFinite == IsFiniteSet(Index) /\ Cardinality(Index) = N
<1>1. N \in Nat /\ 0 \in Int /\ N - 1 \in Int
  OBVIOUS
<1>2. IsFiniteSet(0 .. N - 1)
      /\ Cardinality(0 .. N - 1) = IF 0 > N - 1 THEN 0 ELSE (N - 1) - 0 + 1
  BY <1>1, FS_Interval
<1>3. QED
  BY <1>1, <1>2 DEF Index

\* Two quorums of computors share at least 2 * Quorum - N of them.
LEMMA QuorumOverlap ==
    ASSUME NEW S, NEW T, S \subseteq Index, T \subseteq Index,
           Cardinality(S) >= Quorum, Cardinality(T) >= Quorum
    PROVE  /\ IsFiniteSet(S \cap T)
           /\ Cardinality(S \cap T) >= 2 * Quorum - N
<1>1. IsFiniteSet(S) /\ IsFiniteSet(T)
  BY IndexFinite, FS_Subset
<1>2. IsFiniteSet(S \cap T)
  BY <1>1, FS_Intersection
<1>3. /\ Cardinality(S) \in Nat /\ Cardinality(T) \in Nat
      /\ Cardinality(S \cap T) \in Nat
  BY <1>1, <1>2, FS_CardinalityType
<1>4. Cardinality(S \cup T) = Cardinality(S) + Cardinality(T) - Cardinality(S \cap T)
  BY <1>1, FS_Union
<1>5. Cardinality(S \cup T) <= N
  <2>1. S \cup T \in SUBSET Index
    OBVIOUS
  <2>2. QED
    BY <2>1, IndexFinite, FS_Subset
<1>6. QED
  BY <1>2, <1>3, <1>4, <1>5

\* More computors of a duplicate-free list than there are Byzantine keys include a
\* correct one.
LEMMA CorrectMember ==
    ASSUME FewByzantine, NEW list \in [Index -> Key], Injective(list),
           NEW S, S \subseteq Index, IsFiniteSet(S), Cardinality(S) >= 2 * Quorum - N
    PROVE  \E i \in S : list[i] \notin Byzantine
<1> SUFFICES ASSUME \A i \in S : list[i] \in Byzantine PROVE FALSE
  OBVIOUS
<1> DEFINE f == [i \in S |-> list[i]]
<1>1. f \in [S -> Byzantine]
  OBVIOUS
<1>2. Cardinality(Byzantine) < Cardinality(S) /\ IsFiniteSet(Byzantine)
  <2>1. Cardinality(S) \in Nat /\ Cardinality(Byzantine) \in Nat
    BY FS_CardinalityType DEF FewByzantine
  <2>2. QED
    BY <2>1 DEF FewByzantine
<1>3. PICK x, y \in S : x # y /\ f[x] = f[y]
  <2> HIDE DEF f
  <2>1. QED
    BY <1>1, <1>2, FS_PigeonHole
<1>4. list[x] = list[y]
  BY <1>3
<1>5. QED
  BY <1>3, <1>4 DEF Injective

\* Two answers to one query cannot both be backed in one epoch, if the arbitrator signed
\* one list for it and too few computors are Byzantine.
LEMMA QuorumsAgree ==
    ASSUME FewByzantine, ~ Equivocates, NetInvariant, NEW e, NEW q, NEW d1, NEW d2,
           Backed(e, q, d1), Backed(e, q, d2)
    PROVE  d1 = d2
<1>1. PICK p1 \in signedPackets, r1 \in Reply, S1 \in SUBSET Index :
          /\ p1.epoch = e /\ Injective(p1.pubkeys) /\ d1 = K12(r1)
          /\ Cardinality(S1) >= Quorum
          /\ \A i \in S1 : Committed(p1.pubkeys, i, q, r1)
  BY DEF Backed
<1>2. PICK p2 \in signedPackets, r2 \in Reply, S2 \in SUBSET Index :
          /\ p2.epoch = e /\ d2 = K12(r2)
          /\ Cardinality(S2) >= Quorum
          /\ \A i \in S2 : Committed(p2.pubkeys, i, q, r2)
  BY DEF Backed
<1>3. p1 = p2 /\ p1.pubkeys \in [Index -> Key]
  BY <1>1, <1>2 DEF NetInvariant, NetTypeOK, OneListPerEpoch
<1>4. PICK i \in S1 \cap S2 : p1.pubkeys[i] \notin Byzantine
  BY <1>1, <1>2, <1>3, QuorumOverlap, CorrectMember
<1>5. PICK t \in signedTxs :
          /\ t.source = p1.pubkeys[i] /\ t.input_type = COMMIT_INPUT_TYPE
          /\ CommitItem(q, K12(r1), KnowledgeProof(r1, i)) \in t.input.items
  BY <1>1, <1>4 DEF Committed
<1>6. PICK o \in signedTxs :
          /\ o.source = p1.pubkeys[i] /\ o.input_type = COMMIT_INPUT_TYPE
          /\ CommitItem(q, K12(r2), KnowledgeProof(r2, i)) \in o.input.items
  BY <1>2, <1>3, <1>4 DEF Committed
<1>7. ~ Conflict(t, o)
  BY <1>4, <1>5 DEF NetInvariant, OneAnswerEach
<1>8. K12(r1) = K12(r2)
  BY <1>5, <1>6, <1>7 DEF Conflict, Commitments, CommitItem
<1>9. QED
  BY <1>1, <1>2, <1>8
=============================================================================
