------------------------- MODULE QuorumGuest_proofs -------------------------
(***************************************************************************)
(* What holds of the guest for every number of computors, every quorum,    *)
(* every set of keys, packets and transactions.                            *)
(*                                                                         *)
(* The inductive invariant IInv says, for each control state, which of the *)
(* checks are behind the run and what they left in memory; JournalSound is *)
(* not inductive without it, since the step that commits a journal looks   *)
(* at nothing but the run's own variables.                                 *)
(***************************************************************************)
EXTENDS QuorumGuest, OracleNetwork_proofs

AfterFrames == {"packet", "query", "reveal", "commits", "journal", "no_quorum", "done"}
AfterPacket == {"query", "reveal", "commits", "journal", "no_quorum", "done"}
AfterQuery  == {"reveal", "commits", "journal", "no_quorum", "done"}
AfterReveal == {"commits", "journal", "no_quorum", "done"}

FramesRead == pc \in AfterFrames => query_id \in QueryId /\ reply \in Reply

PacketChecked ==
    pc \in AfterPacket =>
        /\ pubkeys \in [Index -> Key]
        /\ epoch # 0
        /\ Injective(pubkeys)
        /\ \E p \in signedPackets : p.epoch = epoch /\ p.pubkeys = pubkeys

QueryChecked == pc \in AfterQuery => Asked(query_id)

RevealChecked == pc \in AfterReveal => Revealed(pubkeys, query_id, reply)

CommitsChecked ==
    pc \in AfterReveal => \A i \in seen : Committed(pubkeys, i, query_id, reply)

Counting ==
    /\ seen = eligible
    /\ count = Cardinality(seen)
    /\ pc \in {"commits", "no_quorum"} => count < Quorum
    /\ pc \in {"journal", "done"} => count = Quorum
    /\ pc \notin AfterReveal => seen = {}

IInv ==
    /\ TypeOK
    /\ FramesRead
    /\ PacketChecked
    /\ QueryChecked
    /\ RevealChecked
    /\ CommitsChecked
    /\ Counting
    /\ JournalSound

USE NetworkAssumption, GuestAssumption

-----------------------------------------------------------------------------
\* Every step of the guest and of the network keeps what was signed.
LEMMA SignedGrow ==
    [Next]_vars => signedPackets \subseteq signedPackets' /\ signedTxs \subseteq signedTxs'
BY DEF Next, vars, NetNext, ArbitratorSigns, TxSigned, netVars, ReadFrames, CheckPacket,
       CheckQuery, CheckReveal, ReadCommit, TruncatedCommits, EndCommits, CommitJournal,
       NextRun, Panic

\* Marking one more computor adds one to the count.
LEMMA CountOneMore ==
    ASSUME NEW S, S \subseteq Index, NEW i \in Index, i \notin S
    PROVE  Cardinality(S \cup {i}) = Cardinality(S) + 1
<1>1. IsFiniteSet(S)
  BY IndexFinite, FS_Subset
<1>2. QED
  BY <1>1, FS_AddElement

-----------------------------------------------------------------------------
\* What the run keeps in memory is settled by the checks behind it: a step that
\* leaves the run's variables alone cannot falsify it.
LEMMA StutteringRun ==
    ASSUME IInv, [Next]_vars, UNCHANGED <<pc, runVars, journals>>
    PROVE  /\ FramesRead' /\ PacketChecked' /\ QueryChecked' /\ RevealChecked'
           /\ CommitsChecked' /\ Counting' /\ JournalSound'
<1>1. signedPackets \subseteq signedPackets' /\ signedTxs \subseteq signedTxs'
  BY SignedGrow
<1>2. UNCHANGED <<pc, epoch, pubkeys, query_id, reply, left, seen, count, eligible, journals>>
  BY DEF runVars
<1>3. FramesRead' /\ Counting'
  BY <1>2 DEF IInv, FramesRead, Counting
<1>4. PacketChecked'
  BY <1>1, <1>2 DEF IInv, PacketChecked
<1>5. QueryChecked' /\ RevealChecked' /\ CommitsChecked'
  BY <1>1, <1>2, EvidenceGrows DEF IInv, QueryChecked, RevealChecked, CommitsChecked
<1>6. JournalSound'
  BY <1>1, <1>2, EvidenceGrows DEF IInv, JournalSound
<1>7. QED
  BY <1>3, <1>4, <1>5, <1>6

\* A panic, or a new run, forgets everything the run had checked.
LEMMA FreshRun ==
    ASSUME IInv, [Next]_vars, Forget, pc' \in {"panicked", "idle"}, UNCHANGED <<netVars, journals>>
    PROVE  IInv'
<1>1. TypeOK'
  BY FS_EmptySet DEF IInv, TypeOK, Forget, Ended, netVars
<1>2. FramesRead' /\ PacketChecked' /\ QueryChecked' /\ RevealChecked' /\ CommitsChecked'
  BY DEF FramesRead, PacketChecked, QueryChecked, RevealChecked, CommitsChecked,
         AfterFrames, AfterPacket, AfterQuery, AfterReveal
<1>3. Counting'
  BY FS_EmptySet DEF Counting, Forget, AfterReveal
<1>4. JournalSound'
  <2>1. signedPackets \subseteq signedPackets' /\ signedTxs \subseteq signedTxs' /\ journals' = journals
    BY DEF netVars
  <2>2. QED
    BY <2>1, EvidenceGrows DEF IInv, JournalSound
<1>5. QED
  BY <1>1, <1>2, <1>3, <1>4 DEF IInv

\* Before anything is signed nothing is claimed.
LEMMA InitInv == Init => IInv
<1> SUFFICES ASSUME Init PROVE IInv
  OBVIOUS
<1>1. TypeOK
  BY DEF Init, NetInit, Fresh, TypeOK, Ended
<1>2. FramesRead /\ PacketChecked /\ QueryChecked /\ RevealChecked /\ CommitsChecked
  BY DEF Init, FramesRead, PacketChecked, QueryChecked, RevealChecked, CommitsChecked,
         AfterFrames, AfterPacket, AfterQuery, AfterReveal
<1>3. Counting
  BY FS_EmptySet DEF Init, Fresh, Counting, AfterReveal
<1>4. JournalSound
  BY DEF Init, JournalSound
<1>5. QED
  BY <1>1, <1>2, <1>3, <1>4 DEF IInv

-----------------------------------------------------------------------------
(* One lemma per action: it preserves the inductive invariant.             *)

LEMMA NetInv ==
    ASSUME IInv, NetNext, UNCHANGED <<journals, pc, runVars>>
    PROVE  IInv'
<1>1. [Next]_vars
  BY DEF Next
<1>2. TypeOK'
  BY DEF IInv, TypeOK, NetNext, ArbitratorSigns, TxSigned, runVars
<1>3. QED
  BY <1>1, <1>2, StutteringRun DEF IInv

LEMMA ReadFramesInv ==
    ASSUME IInv, NEW q \in QueryId, NEW r \in Reply, NEW ok \in BOOLEAN, ReadFrames(q, r, ok)
    PROVE  IInv'
<1>1. [Next]_vars
  BY DEF Next
<1>2. CASE ~ ok
  BY <1>1, <1>2, FreshRun DEF ReadFrames, Panic
<1>3. CASE ok
  <2>1. /\ pc = "idle" /\ pc' = "packet" /\ query_id' = q /\ reply' = r
        /\ UNCHANGED <<epoch, pubkeys, left, seen, count, eligible, journals, netVars>>
    BY <1>3 DEF ReadFrames
  <2>2. TypeOK'
    BY <2>1 DEF IInv, TypeOK, netVars
  <2>3. FramesRead' /\ PacketChecked' /\ QueryChecked' /\ RevealChecked' /\ CommitsChecked'
    BY <2>1 DEF FramesRead, PacketChecked, QueryChecked, RevealChecked, CommitsChecked,
                AfterPacket, AfterQuery, AfterReveal
  <2>4. Counting'
    BY <2>1 DEF IInv, Counting, AfterReveal
  <2>5. JournalSound'
    BY <2>1, EvidenceGrows DEF IInv, JournalSound, netVars
  <2>6. QED
    BY <2>2, <2>3, <2>4, <2>5 DEF IInv
<1>4. QED
  BY <1>2, <1>3

LEMMA CheckPacketInv ==
    ASSUME IInv, NEW p \in Packet, NEW g \in BOOLEAN, CheckPacket(p, g)
    PROVE  IInv'
<1>1. [Next]_vars
  BY DEF Next
<1>2. CASE ~ PacketAccepted(p, g)
  BY <1>1, <1>2, FreshRun DEF CheckPacket, Panic
<1>3. CASE PacketAccepted(p, g)
  <2>1. /\ pc = "packet" /\ pc' = "query" /\ epoch' = p.epoch /\ pubkeys' = p.pubkeys
        /\ p \in signedPackets
        /\ UNCHANGED <<query_id, reply, left, seen, count, eligible, journals,
                       signedPackets, signedTxs>>
    BY <1>3 DEF CheckPacket, PacketAccepted, netVars
  <2>2. p.epoch \in Nat /\ p.pubkeys \in [Index -> Key]
    OBVIOUS
  <2>3. TypeOK'
    BY <2>1, <2>2 DEF IInv, TypeOK
  <2>4. PacketChecked'
    BY <1>3, <2>1, <2>2 DEF PacketChecked, PacketAccepted
  <2>5. FramesRead' /\ QueryChecked' /\ RevealChecked' /\ CommitsChecked'
    BY <2>1 DEF IInv, FramesRead, QueryChecked, RevealChecked, CommitsChecked,
                AfterFrames, AfterQuery, AfterReveal
  <2>6. Counting'
    BY <2>1 DEF IInv, Counting, AfterReveal
  <2>7. JournalSound'
    BY <2>1, EvidenceGrows DEF IInv, JournalSound
  <2>8. QED
    BY <2>3, <2>4, <2>5, <2>6, <2>7 DEF IInv
<1>4. QED
  BY <1>2, <1>3

LEMMA CheckQueryInv ==
    ASSUME IInv, NEW raw \in Raw, CheckQuery(raw)
    PROVE  IInv'
<1>1. [Next]_vars
  BY DEF Next
<1>2. CASE ~ QueryAccepted(raw)
  BY <1>1, <1>2, FreshRun DEF CheckQuery, Panic
<1>3. CASE QueryAccepted(raw)
  <2>1. /\ pc = "query" /\ pc' = "reveal"
        /\ raw.tx \in signedTxs
        /\ UNCHANGED <<epoch, pubkeys, query_id, reply, left, seen, count, eligible, journals,
                       signedPackets, signedTxs>>
    BY <1>3 DEF CheckQuery, QueryAccepted, Presentable, netVars, runVars
  <2>2. TypeOK'
    BY <2>1 DEF IInv, TypeOK
  <2>3. QueryChecked'
    BY <1>3, <2>1 DEF QueryChecked, QueryAccepted, Asked
  <2>4. FramesRead' /\ PacketChecked' /\ RevealChecked' /\ CommitsChecked'
    BY <2>1 DEF IInv, FramesRead, PacketChecked, RevealChecked, CommitsChecked,
                AfterFrames, AfterPacket, AfterReveal
  <2>5. Counting'
    BY <2>1 DEF IInv, Counting, AfterReveal
  <2>6. JournalSound'
    BY <2>1, EvidenceGrows DEF IInv, JournalSound
  <2>7. QED
    BY <2>2, <2>3, <2>4, <2>5, <2>6 DEF IInv
<1>4. QED
  BY <1>2, <1>3

LEMMA CheckRevealInv ==
    ASSUME IInv, NEW raw \in Raw, NEW n \in 0 .. MaxCommits, CheckReveal(raw, n)
    PROVE  IInv'
<1>1. [Next]_vars
  BY DEF Next
<1>2. CASE ~ RevealAccepted(raw)
  BY <1>1, <1>2, FreshRun DEF CheckReveal, Panic
<1>3. CASE RevealAccepted(raw)
  <2>1. /\ pc = "reveal" /\ pc' = "commits" /\ left' = n
        /\ raw.tx \in signedTxs
        /\ UNCHANGED <<epoch, pubkeys, query_id, reply, seen, count, eligible, journals,
                       signedPackets, signedTxs>>
    BY <1>3 DEF CheckReveal, RevealAccepted, Presentable, netVars
  <2>2. TypeOK'
    BY <2>1 DEF IInv, TypeOK
  <2>3. RevealChecked'
    BY <1>3, <2>1 DEF RevealChecked, RevealAccepted, Revealed, FindComputor
  <2>4. FramesRead' /\ PacketChecked' /\ QueryChecked'
    BY <2>1, EvidenceGrows DEF IInv, FramesRead, PacketChecked, QueryChecked, AfterFrames, AfterPacket, AfterQuery
  <2>5. Counting' /\ seen' = {}
    <3>1. seen = {} /\ eligible = {} /\ count = 0
      BY <2>1, FS_EmptySet DEF IInv, Counting, AfterReveal
    <3>2. QED
      BY <2>1, <3>1, FS_EmptySet DEF Counting, AfterReveal
  <2>6. CommitsChecked'
    BY <2>5 DEF CommitsChecked
  <2>7. JournalSound'
    BY <2>1, EvidenceGrows DEF IInv, JournalSound
  <2>8. QED
    BY <2>2, <2>3, <2>4, <2>5, <2>6, <2>7 DEF IInv
<1>4. QED
  BY <1>2, <1>3

\* A commit belongs to at most one computor of a duplicate-free list, so one iteration
\* makes at most one more computor eligible.
LEMMA OneOwner ==
    ASSUME Injective(pubkeys), pubkeys \in [Index -> Key],
           NEW raw, NEW i \in Index, Eligible(raw, i), NEW k \in Index, Eligible(raw, k)
    PROVE  i = k
BY DEF Injective, Eligible, FindComputor

LEMMA ReadCommitInv ==
    ASSUME IInv, NEW raw \in Raw, ReadCommit(raw)
    PROVE  IInv'
<1>1. /\ pc = "commits" /\ left > 0 /\ left' = left - 1
      /\ Presentable(raw)
      /\ eligible' = eligible \cup {i \in Index : Eligible(raw, i)}
      /\ UNCHANGED <<epoch, pubkeys, query_id, reply, journals, signedPackets, signedTxs>>
  BY DEF ReadCommit, netVars
<1>2. /\ Injective(pubkeys) /\ pubkeys \in [Index -> Key]
      /\ count = Cardinality(seen) /\ seen = eligible /\ count < Quorum /\ count \in Nat
      /\ seen \subseteq Index
  BY <1>1 DEF IInv, PacketChecked, Counting, AfterPacket, TypeOK
<1>3. left' \in 0 .. MaxCommits
  BY <1>1 DEF IInv, TypeOK
<1>4. FramesRead' /\ PacketChecked' /\ QueryChecked' /\ RevealChecked'
  <2>1. pc' \in {"commits", "journal"}
    BY <1>1 DEF ReadCommit, AfterCount
  <2>2. QED
    BY <1>1, <2>1, EvidenceGrows DEF IInv, FramesRead, PacketChecked, QueryChecked, RevealChecked,
                           AfterFrames, AfterPacket, AfterQuery, AfterReveal
<1>5. JournalSound'
  BY <1>1, EvidenceGrows DEF IInv, JournalSound
<1>6. CASE \E i \in Index : Counts(raw, i) /\ seen' = seen \cup {i} /\ count' = count + 1
                           /\ pc' = AfterCount(count + 1)
  <2>1. PICK i \in Index : /\ Counts(raw, i) /\ seen' = seen \cup {i} /\ count' = count + 1
                          /\ pc' = AfterCount(count + 1)
    BY <1>6
  <2>2. Eligible(raw, i) /\ i \notin seen
    BY <2>1 DEF Counts
  <2>3. {k \in Index : Eligible(raw, k)} = {i}
    BY <1>2, <2>2, OneOwner
  <2>4. seen' = eligible' /\ seen' \subseteq Index
    BY <1>1, <1>2, <2>1, <2>3
  <2>5. count' = Cardinality(seen')
    BY <1>2, <2>1, <2>2, CountOneMore
  <2>6. /\ count' \in 0 .. Quorum
        /\ pc' = "commits" => count' < Quorum
        /\ pc' = "journal" => count' = Quorum
        /\ pc' \in {"commits", "journal"}
    BY <1>2, <2>1 DEF AfterCount
  <2>7. Committed(pubkeys, i, query_id, reply)
    BY <1>1, <2>2 DEF Eligible, Presentable, Committed, FindComputor
  <2>8. CommitsChecked'
    <3>1. \A k \in seen : Committed(pubkeys, k, query_id, reply)
      BY <1>1 DEF IInv, CommitsChecked, AfterReveal
    <3>2. \A k \in seen' : Committed(pubkeys, k, query_id, reply)
      BY <2>1, <2>7, <3>1
    <3>3. QED
      BY <1>1, <3>2, EvidenceGrows DEF CommitsChecked
  <2>9. TypeOK'
    BY <1>1, <1>3, <2>4, <2>6 DEF IInv, TypeOK
  <2>10. Counting'
    BY <2>4, <2>5, <2>6 DEF Counting, AfterReveal
  <2>11. QED
    BY <1>4, <1>5, <2>8, <2>9, <2>10 DEF IInv
<1>7. CASE (\A i \in Index : ~ Counts(raw, i)) /\ UNCHANGED <<seen, count, pc>>
  <2>1. \A i \in Index : Eligible(raw, i) => i \in seen
    BY <1>7 DEF Counts
  <2>2. eligible' = eligible
    BY <1>1, <1>2, <2>1
  <2>3. TypeOK'
    BY <1>1, <1>3, <1>7, <2>2 DEF IInv, TypeOK
  <2>4. Counting'
    BY <1>7, <2>2 DEF IInv, Counting
  <2>5. CommitsChecked'
    BY <1>1, <1>7, EvidenceGrows DEF IInv, CommitsChecked
  <2>6. QED
    BY <1>4, <1>5, <2>3, <2>4, <2>5 DEF IInv
<1>8. QED
  BY <1>6, <1>7 DEF ReadCommit

\* The journal is committed only when the run holds every piece of evidence for it.
LEMMA JournalBacked ==
    ASSUME IInv, pc = "journal"
    PROVE  Backed(epoch, query_id, K12(reply))
<1>1. /\ reply \in Reply /\ epoch # 0 /\ Asked(query_id)
      /\ Injective(pubkeys) /\ Revealed(pubkeys, query_id, reply)
      /\ \A i \in seen : Committed(pubkeys, i, query_id, reply)
      /\ seen \subseteq Index
  BY DEF IInv, TypeOK, FramesRead, PacketChecked, QueryChecked, RevealChecked, CommitsChecked,
         AfterFrames, AfterPacket, AfterQuery, AfterReveal
<1>2. Cardinality(seen) >= Quorum
  BY DEF IInv, Counting, TypeOK
<1>3. PICK p \in signedPackets : p.epoch = epoch /\ p.pubkeys = pubkeys
  BY DEF IInv, PacketChecked, AfterPacket
<1>4. seen \in SUBSET Index
  BY <1>1
<1>5. QED
  BY <1>1, <1>2, <1>3, <1>4 DEF Backed

LEMMA CommitJournalInv ==
    ASSUME IInv, CommitJournal
    PROVE  IInv'
<1>1. /\ pc = "journal" /\ pc' = "done"
      /\ journals' = journals \cup
             {[epoch |-> epoch, query |-> query_id, digest |-> K12(reply)]}
      /\ UNCHANGED <<epoch, pubkeys, query_id, reply, left, seen, count, eligible,
                     signedPackets, signedTxs>>
  BY DEF CommitJournal, netVars, runVars
<1>2. query_id \in QueryId /\ reply \in Reply /\ epoch \in Nat
  BY <1>1 DEF IInv, TypeOK, FramesRead, AfterFrames
<1>3. TypeOK'
  BY <1>1, <1>2 DEF IInv, TypeOK, Ended
<1>4. FramesRead' /\ PacketChecked' /\ QueryChecked' /\ RevealChecked' /\ CommitsChecked'
  BY <1>1, EvidenceGrows DEF IInv, FramesRead, PacketChecked, QueryChecked, RevealChecked, CommitsChecked,
              AfterFrames, AfterPacket, AfterQuery, AfterReveal
<1>5. Counting'
  BY <1>1 DEF IInv, Counting, AfterReveal
<1>6. JournalSound'
  BY <1>1, JournalBacked, EvidenceGrows DEF IInv, JournalSound
<1>7. QED
  BY <1>3, <1>4, <1>5, <1>6 DEF IInv

LEMMA EndCommitsInv ==
    ASSUME IInv, EndCommits
    PROVE  IInv'
<1>1. /\ pc = "commits" /\ pc' = "no_quorum"
      /\ UNCHANGED <<epoch, pubkeys, query_id, reply, left, seen, count, eligible, journals,
                     signedPackets, signedTxs>>
  BY DEF EndCommits, netVars, runVars
<1>2. TypeOK'
  BY <1>1 DEF IInv, TypeOK, Ended
<1>3. FramesRead' /\ PacketChecked' /\ QueryChecked' /\ RevealChecked' /\ CommitsChecked'
  BY <1>1, EvidenceGrows DEF IInv, FramesRead, PacketChecked, QueryChecked, RevealChecked, CommitsChecked,
              AfterFrames, AfterPacket, AfterQuery, AfterReveal
<1>4. Counting'
  BY <1>1 DEF IInv, Counting, AfterReveal
<1>5. JournalSound'
  BY <1>1, EvidenceGrows DEF IInv, JournalSound
<1>6. QED
  BY <1>2, <1>3, <1>4, <1>5 DEF IInv

\* Every step preserves the inductive invariant.
LEMMA NextInv == IInv /\ [Next]_vars => IInv'
<1> SUFFICES ASSUME IInv, [Next]_vars PROVE IInv'
  OBVIOUS
<1>1. CASE NetNext /\ UNCHANGED <<journals, pc, runVars>>
  BY <1>1, NetInv
<1>2. CASE \E q \in QueryId, r \in Reply, ok \in BOOLEAN : ReadFrames(q, r, ok)
  BY <1>2, ReadFramesInv
<1>3. CASE \E p \in Packet, g \in BOOLEAN : CheckPacket(p, g)
  BY <1>3, CheckPacketInv
<1>4. CASE \E raw \in Raw : CheckQuery(raw)
  BY <1>4, CheckQueryInv
<1>5. CASE \E raw \in Raw, n \in 0 .. MaxCommits : CheckReveal(raw, n)
  BY <1>5, CheckRevealInv
<1>6. CASE \E raw \in Raw : ReadCommit(raw)
  BY <1>6, ReadCommitInv
<1>7. CASE TruncatedCommits
  BY <1>7, FreshRun DEF TruncatedCommits, Panic
<1>8. CASE EndCommits
  BY <1>8, EndCommitsInv
<1>9. CASE CommitJournal
  BY <1>9, CommitJournalInv
<1>10. CASE NextRun
  BY <1>10, FreshRun DEF NextRun
<1>11. CASE UNCHANGED vars
  <2>1. TypeOK'
    BY <1>11 DEF IInv, TypeOK, vars, runVars
  <2>2. UNCHANGED <<pc, runVars, journals>>
    BY <1>11 DEF vars
  <2>3. QED
    BY <2>1, <2>2, StutteringRun DEF IInv
<1>12. QED
  BY <1>1, <1>2, <1>3, <1>4, <1>5, <1>6, <1>7, <1>8, <1>9, <1>10, <1>11 DEF Next

\* The inductive invariant holds of every run.
THEOREM Invariance == Spec => []IInv
<1>1. Init => IInv
  BY InitInv
<1>2. IInv /\ [Next]_vars => IInv'
  BY NextInv
<1>3. QED
  BY <1>1, <1>2, PTL DEF Spec

\* Every variable of the guest keeps its type: the count never passes the quorum.
THEOREM TypeCorrect == Spec => []TypeOK
<1>1. IInv => TypeOK
  BY DEF IInv
<1>2. QED
  BY <1>1, Invariance, PTL

\* Whatever frames the host feeds, and in whatever order, the counted computors are
\* exactly those that own a good commit among the ones read.
THEOREM CountIsExact == Spec => []CountedExactly
<1>1. IInv => CountedExactly
  BY DEF IInv, Counting, CountedExactly
<1>2. QED
  BY <1>1, Invariance, PTL

\* The verdict is the quorum's: below it there is no journal, at it there is one.
THEOREM QuorumRules == Spec => []QuorumDecides
<1>1. IInv => QuorumDecides
  <2> SUFFICES ASSUME IInv PROVE QuorumDecides
    OBVIOUS
  <2>1. eligible = seen /\ count = Cardinality(eligible)
    BY DEF IInv, Counting
  <2>2. QED
    BY <2>1 DEF IInv, Counting, QuorumDecides
<1>2. QED
  BY <1>1, Invariance, PTL

\* Every journal the guest ever commits is backed by a quorum of the signed list.
THEOREM Soundness == Spec => []JournalSound
<1>1. IInv => JournalSound
  BY DEF IInv
<1>2. QED
  BY <1>1, Invariance, PTL

-----------------------------------------------------------------------------
(* Agreement: quorums of one list overlap in a correct computor.           *)

\* A step of the guest leaves the network alone; a network step is one of NetNext.
LEMMA NetworkSteps == [Next]_vars => [NetNext]_netVars
BY DEF Next, vars, netVars, ReadFrames, CheckPacket, CheckQuery, CheckReveal, ReadCommit,
       TruncatedCommits, EndCommits, CommitJournal, NextRun, Panic

\* What the network promises, the guest's runs keep.
THEOREM NetworkPromises == Spec => []NetInvariant
<1>1. Init => NetInvariant
  BY NetStart DEF Init
<1>2. NetInvariant /\ [Next]_vars => NetInvariant'
  BY NetworkSteps, NetStep
<1>3. QED
  BY <1>1, <1>2, PTL DEF Spec

\* No two journals of one epoch and query differ in their digest, if fewer than
\* 2 * Quorum - N computors are Byzantine and the arbitrator signs one list per epoch.
THEOREM NoTwoAnswers == FewByzantine /\ ~ Equivocates => (Spec => []Agreement)
<1>1. ASSUME FewByzantine, ~ Equivocates PROVE NetInvariant /\ JournalSound => Agreement
  <2>1. SUFFICES ASSUME NetInvariant, JournalSound,
                        NEW j \in journals, NEW k \in journals,
                        j.epoch = k.epoch, j.query = k.query
                 PROVE  j.digest = k.digest
    BY DEF Agreement
  <2>2. Backed(j.epoch, j.query, j.digest) /\ Backed(j.epoch, j.query, k.digest)
    <3>1. Backed(j.epoch, j.query, j.digest) /\ Backed(k.epoch, k.query, k.digest)
      BY <2>1 DEF JournalSound
    <3>2. QED
      BY <3>1, <2>1
  <2>3. QED
    BY <1>1, <2>1, <2>2, QuorumsAgree
<1>2. ASSUME FewByzantine, ~ Equivocates PROVE Spec => []Agreement
  BY <1>1, <1>2, NetworkPromises, Soundness, PTL
<1>3. QED
  BY <1>2

-----------------------------------------------------------------------------
(* Refinement: the guest implements QuorumStatement.                       *)

\* The statement's own notion of a backed answer is the network's.
LEMMA SameBacked == \A e, q, d : Statement!Backed(e, q, d) <=> Backed(e, q, d)
<1>1. \A S : Statement!Cardinality(S) = Cardinality(S)
  BY DEF Statement!Cardinality, Cardinality
<1>2. \A q : Statement!Asked(q) <=> Asked(q)
  BY DEF Statement!Asked, Asked, Statement!QUERY_INPUT_TYPE, QUERY_INPUT_TYPE,
         Statement!QueryTick, QueryTick
<1>3. \A list, q, r : Statement!Revealed(list, q, r) <=> Revealed(list, q, r)
  BY DEF Statement!Revealed, Revealed, Statement!REVEAL_INPUT_TYPE, REVEAL_INPUT_TYPE,
         Statement!Index, Index
<1>4. \A list, i, q, r : Statement!Committed(list, i, q, r) <=> Committed(list, i, q, r)
  BY DEF Statement!Committed, Committed, Statement!COMMIT_INPUT_TYPE, COMMIT_INPUT_TYPE,
         Statement!QueryTick, QueryTick, Statement!CommitItem, CommitItem, Statement!K12, K12,
         Statement!KnowledgeProof, KnowledgeProof
<1>5. /\ Statement!Index = Index
      /\ \A list : Statement!Injective(list) <=> Injective(list)
      /\ \A r : Statement!K12(r) = K12(r)
  BY DEF Statement!Index, Index, Statement!Injective, Injective, Statement!K12, K12
<1>6. QED
  BY <1>1, <1>2, <1>3, <1>4, <1>5 DEF Statement!Backed, Backed

\* And so are its network steps.
LEMMA SameNetwork == NetNext => Statement!NetNext
BY DEF Statement!NetNext, NetNext, Statement!ArbitratorSigns, ArbitratorSigns,
       Statement!TxSigned, TxSigned, Statement!Conflict, Conflict,
       Statement!Commitments, Commitments, Statement!COMMIT_INPUT_TYPE, COMMIT_INPUT_TYPE

\* A journal is committed by a step that the statement allows, and by no other.
LEMMA StepSimulation == IInv /\ [Next]_vars => [Statement!StNext]_(Statement!stVars)
<1> SUFFICES ASSUME IInv, [Next]_vars PROVE [Statement!StNext]_(Statement!stVars)
  OBVIOUS
<1>1. CASE NetNext /\ UNCHANGED <<journals, pc, runVars>>
  BY <1>1, SameNetwork DEF Statement!StNext
<1>2. CASE CommitJournal
  <2>1. PICK p \in signedPackets : p.epoch = epoch
    BY <1>2 DEF CommitJournal, IInv, PacketChecked, AfterPacket
  <2>2. query_id \in QueryId /\ reply \in Reply
    BY <1>2 DEF CommitJournal, IInv, FramesRead, AfterFrames
  <2>3. Backed(epoch, query_id, K12(reply))
    BY <1>2, JournalBacked DEF CommitJournal
  <2> DEFINE j == [epoch |-> p.epoch, query |-> query_id, digest |-> Statement!K12(reply)]
  <2>4. Statement!Prove(j)
    <3>1. Statement!K12(reply) = K12(reply)
      BY DEF Statement!K12, K12
    <3>2. Statement!Backed(j.epoch, j.query, j.digest)
      BY <2>1, <2>3, <3>1, SameBacked
    <3>3. journals' = journals \cup {j}
      BY <1>2, <2>1, <3>1 DEF CommitJournal
    <3>4. UNCHANGED netVars
      BY <1>2 DEF CommitJournal
    <3>5. QED
      BY <3>2, <3>3, <3>4 DEF Statement!Prove, Statement!netVars, netVars
  <2>5. QED
    BY <2>2, <2>4 DEF Statement!StNext
<1>3. CASE UNCHANGED <<signedPackets, signedTxs, journals>>
  BY <1>3 DEF Statement!stVars
<1>4. QED
  BY <1>1, <1>2, <1>3 DEF Next, vars, netVars, ReadFrames, CheckPacket, CheckQuery,
     CheckReveal, ReadCommit, TruncatedCommits, EndCommits, NextRun, Panic

\* The guest, with all its checks, is an implementation of the one-line promise.
THEOREM Refinement == Spec => ImplementsStatement
<1>1. Init => Statement!StInit
  BY DEF Init, NetInit, Statement!StInit, Statement!NetInit
<1>2. QED
  BY <1>1, StepSimulation, Invariance, PTL DEF Spec, ImplementsStatement, Statement!StSpec
=============================================================================
