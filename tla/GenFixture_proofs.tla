-------------------------- MODULE GenFixture_proofs --------------------------
(***************************************************************************)
(* What the generator writes, for every number of computors, every command *)
(* line and every draw of the shuffle.                                     *)
(*                                                                         *)
(* The properties look at the list of commits only.  They are inductive    *)
(* with two facts about what feeds the loop: the order never loses a       *)
(* computor, and the n-th commit is the one the loop makes for n.          *)
(***************************************************************************)
EXTENDS GenFixture, FiniteSetTheorems, FunctionTheorems,
        SequenceTheorems, TLAPS

Computor == 0 .. NUM_COMPUTORS - 1

CommitTx == [source : Computor, queryId : {0, 1}, digest : {<<>>, <<X>>},
             proof : Seq(Int), genuine : BOOLEAN]

TypeOK ==
    /\ opts \in Options
    /\ pc \in {"options", "shuffle", "commits", "written", "died"}
    /\ i \in Computor
    /\ order \in [Computor -> Computor]
    /\ buffer \in Seq(Int) /\ Len(buffer) = 3
    /\ commitTxs \in Seq(CommitTx)

\* The shuffle permutes the computors.
Shuffled == \A x, y \in Computor : order[x] = order[y] => x = y

\* Commits are made only of accepted options, and never more than asked for.
Bounded ==
    /\ pc \notin {"commits", "written"} => commitTxs = <<>>
    /\ pc \in {"shuffle", "commits", "written"} => OptionsAccepted
    /\ pc \in {"commits", "written"} => Len(commitTxs) <= opts.commits
    /\ pc = "written" => Len(commitTxs) = opts.commits

\* The n-th commit is of the computor at its place, damaged or not as the flags say.
AsOrdered ==
    \A n \in 1 .. Len(commitTxs) :
        LET tx == commitTxs[n] IN
        /\ tx.source = order[n - 1]
        /\ tx.queryId = IF opts.replay THEN 1 ELSE 0
        /\ tx.digest = IF IsWrong(n - 1) THEN <<X>> ELSE <<>>
        /\ tx.genuine = ~ IsBad(n - 1)
        /\ ~ IsWrong(n - 1) => tx.proof = LE16(tx.source)

IInv == TypeOK /\ Shuffled /\ Bounded /\ AsOrdered

\* An index fits the two bytes that put_u16 writes.
LEMMA NumbersOK ==
    /\ Base \in Nat \ {0} /\ NUM_COMPUTORS \in Nat \ {0} /\ X \in Int
    /\ \A v \in Computor : v % Base \in Int /\ v \div Base \in Int
    /\ \A o \in Options : /\ o.commits \in Nat /\ o.badCommits \in Nat
                          /\ o.wrongDigest \in Nat
<1>1. Base \in Nat \ {0} /\ X \in Int
  BY GenAssumption
<1>2. Base * Base \in Nat
  BY <1>1
<1>3. NUM_COMPUTORS \in Nat \ {0}
  BY <1>2, GenAssumption
<1>4. \A v \in Computor : v % Base \in Int /\ v \div Base \in Int
  BY <1>1, <1>3 DEF Computor
<1>5. QED
  BY <1>1, <1>3, <1>4, GenAssumption

\* Storing one byte of the buffer.
LEMMA ByteStored ==
    ASSUME NEW s \in Seq(Int), Len(s) = 3, NEW k \in Int, k \in 1 .. 3, NEW e \in Int
    PROVE  /\ [s EXCEPT ![k] = e] \in Seq(Int)
           /\ Len([s EXCEPT ![k] = e]) = 3
           /\ \A x \in 1 .. 3 : [s EXCEPT ![k] = e][x] = IF x = k THEN e ELSE s[x]
<1> DEFINE stored == [s EXCEPT ![k] = e]
<1>1. k \in 1 .. Len(s)
  OBVIOUS
<1>2. /\ stored \in Seq(Int) /\ Len(stored) = Len(s)
      /\ \A x \in 1 .. Len(s) : stored[x] = IF x = k THEN e ELSE s[x]
  BY <1>1, ExceptSeq
<1> HIDE DEF stored
<1>3. stored \in Seq(Int) /\ Len(stored) = 3 /\ \A x \in 1 .. 3 : stored[x] = IF x = k THEN e ELSE s[x]
  BY <1>2
<1>4. QED
  BY <1>3 DEF stored

LEMMA DigestsDiffer == <<X>> # <<>>
<1>1. Len(<<X>>) = 1 /\ Len(<<>>) = 0
  OBVIOUS
<1>2. QED
  BY <1>1, Zenon

LEMMA InitInv == Init => IInv
<1> SUFFICES ASSUME Init PROVE IInv
  OBVIOUS
<1>1. TypeOK
  BY NumbersOK DEF Init, TypeOK, Computor
<1>2. QED
  BY <1>1 DEF Init, IInv, Shuffled, Bounded, AsOrdered, Computor

LEMMA CheckOptionsInv ==
    ASSUME IInv, CheckOptions
    PROVE  IInv'
<1>1. /\ pc = "options" /\ commitTxs = <<>> /\ UNCHANGED <<opts, i, order, commitTxs>>
      /\ \/ /\ pc' \in {"shuffle", "commits"} /\ OptionsAccepted
            /\ buffer' = [buffer EXCEPT ![1] = X]
         \/ /\ pc' = "died" /\ buffer' = buffer
  BY DEF CheckOptions, IInv, Bounded
<1>2. /\ [buffer EXCEPT ![1] = X] \in Seq(Int)
      /\ Len([buffer EXCEPT ![1] = X]) = 3
  BY NumbersOK, ByteStored DEF IInv, TypeOK
<1>3. TypeOK'
  BY <1>1, <1>2 DEF IInv, TypeOK
<1>4. Bounded'
  <2>1. opts.commits \in Nat
    BY NumbersOK DEF IInv, TypeOK
  <2>2. QED
    BY <1>1, <2>1 DEF Bounded, OptionsAccepted
<1>5. QED
  BY <1>1, <1>3, <1>4 DEF IInv, Shuffled, AsOrdered

LEMMA ShuffleInv ==
    ASSUME IInv, NEW j \in 0 .. i, ShuffleStep(j)
    PROVE  IInv'
<1>1. /\ pc = "shuffle" /\ i >= 1 /\ i' = i - 1 /\ commitTxs = <<>>
      /\ order' = [order EXCEPT ![i] = order[j], ![j] = order[i]]
      /\ UNCHANGED <<opts, pc, buffer, commitTxs>>
  BY DEF ShuffleStep, IInv, Bounded
<1>2. i \in Computor /\ j \in Computor /\ i' \in Computor
  BY <1>1, NumbersOK DEF IInv, TypeOK, Computor
<1>3. /\ order' \in [Computor -> Computor]
      /\ \A x \in Computor : order'[x] = IF x = j THEN order[i]
                                         ELSE IF x = i THEN order[j] ELSE order[x]
  BY <1>1, <1>2 DEF IInv, TypeOK
<1>4. Shuffled'
  BY <1>2, <1>3 DEF IInv, Shuffled
<1>5. QED
  BY <1>1, <1>2, <1>3, <1>4 DEF IInv, TypeOK, Bounded, AsOrdered, OptionsAccepted

LEMMA ShuffleDoneInv ==
    ASSUME IInv, ShuffleDone
    PROVE  IInv'
<1>1. commitTxs = <<>> /\ UNCHANGED <<opts, i, order, buffer, commitTxs>>
      /\ pc = "shuffle" /\ pc' = "commits"
  BY DEF ShuffleDone, IInv, Bounded
<1>2. Len(commitTxs) <= opts.commits
  BY <1>1, NumbersOK DEF IInv, TypeOK
<1>3. QED
  BY <1>1, <1>2 DEF IInv, TypeOK, Shuffled, Bounded, AsOrdered, OptionsAccepted

\* The index is written inside the buffer, and a proof over the message alone, the two
\* bytes from where the message ends, is exactly the index just written.
LEMMA WrittenOK ==
    ASSUME TypeOK, NEW n \in Nat, NEW idx \in Computor
    PROVE  LET buf == Written(n, idx) IN
           /\ buf \in Seq(Int) /\ Len(buf) = 3
           /\ SubSeq(buf, 1, IndexAt(n) + 1) \in Seq(Int)
           /\ ~ IsWrong(n) => SubSeq(buf, 1, IndexAt(n) + 1) = LE16(idx)
<1> DEFINE low == idx % Base
           high == idx \div Base
           at == IndexAt(n)
           one == [buffer EXCEPT ![at] = low]
           buf == [one EXCEPT ![at + 1] = high]
<1>1. low \in Int /\ high \in Int
  BY NumbersOK
<1>2. at \in {1, 2} /\ (~ IsWrong(n) => at = 1)
  BY DEF IndexAt
<1>3. Written(n, idx) = buf /\ LE16(idx) = <<low, high>>
  BY DEF Written, LE16
<1> HIDE DEF low, high, at
<1>4. /\ one \in Seq(Int) /\ Len(one) = 3
      /\ \A k \in 1 .. 3 : one[k] = IF k = at THEN low ELSE buffer[k]
  BY <1>1, <1>2, ByteStored DEF TypeOK
<1> HIDE DEF one
<1>5. /\ buf \in Seq(Int) /\ Len(buf) = 3
      /\ \A k \in 1 .. 3 : buf[k] = IF k = at + 1 THEN high ELSE one[k]
  <2>1. at + 1 \in Int /\ at + 1 \in 1 .. 3
    BY <1>2
  <2>2. QED
    BY <1>1, <1>4, <2>1, ByteStored
<1> HIDE DEF buf
<1>6. /\ SubSeq(buf, 1, at + 1) \in Seq(Int)
      /\ Len(SubSeq(buf, 1, at + 1)) = at + 1
      /\ \A k \in 1 .. at + 1 : SubSeq(buf, 1, at + 1)[k] = buf[k]
  <2>1. at + 1 \in Int /\ 1 .. at + 1 \subseteq 1 .. 3
    BY <1>2
  <2>2. \A k \in 1 .. 3 : buf[k] \in Int
    BY <1>5, ElementOfSeq
  <2>3. \A k \in 1 .. at + 1 : buf[k] \in Int
    BY <2>1, <2>2
  <2>4. QED
    BY <1>2, <2>1, <2>3, SubSeqProperties
<1>7. ASSUME ~ IsWrong(n)
      PROVE  SubSeq(buf, 1, at + 1) = <<low, high>>
  <2>1. at = 1 /\ one[1] = low /\ buf[1] = low /\ buf[2] = high
    BY <1>2, <1>4, <1>5, <1>7
  <2>2. /\ Len(SubSeq(buf, 1, at + 1)) = 2
        /\ SubSeq(buf, 1, at + 1)[1] = low
        /\ SubSeq(buf, 1, at + 1)[2] = high
    BY <1>6, <2>1
  <2>3. <<low, high>> \in Seq(Int) /\ Len(<<low, high>>) = 2
    BY <1>1
  <2>4. \A k \in 1 .. 2 : SubSeq(buf, 1, at + 1)[k] = <<low, high>>[k]
    <3>1. <<low, high>>[1] = low /\ <<low, high>>[2] = high
      OBVIOUS
    <3>2. \A k \in 1 .. 2 : k = 1 \/ k = 2
      OBVIOUS
    <3>3. QED
      BY <2>2, <3>1, <3>2, Zenon
  <2>5. QED
    BY <1>6, <2>2, <2>3, <2>4, SeqEqual
<1>8. QED
  BY <1>3, <1>5, <1>6, <1>7 DEF at

LEMMA SignCommitInv ==
    ASSUME IInv, SignCommit
    PROVE  IInv'
<1> DEFINE n == Len(commitTxs)
           idx == order[n]
           buf == Written(n, idx)
           tx == [source |-> idx,
                  queryId |-> IF opts.replay THEN 1 ELSE 0,
                  digest |-> IF IsWrong(n) THEN <<X>> ELSE <<>>,
                  proof |-> SubSeq(buf, 1, IndexAt(n) + 1),
                  genuine |-> ~ IsBad(n)]
<1>1. /\ pc = "commits" /\ n < opts.commits
      /\ buffer' = buf /\ commitTxs' = Append(commitTxs, tx)
      /\ UNCHANGED <<opts, pc, i, order>>
  BY DEF SignCommit
<1>2. n \in Nat /\ n \in Computor
  <2>1. OptionsAccepted /\ commitTxs \in Seq(CommitTx) /\ opts.commits \in Nat
    BY <1>1, NumbersOK DEF IInv, Bounded, TypeOK
  <2>2. QED
    BY <1>1, <2>1, NumbersOK DEF OptionsAccepted, Computor
<1>3. idx \in Computor
  BY <1>2 DEF IInv, TypeOK
<1>4. /\ buf \in Seq(Int) /\ Len(buf) = 3 /\ tx.proof \in Seq(Int)
      /\ ~ IsWrong(n) => tx.proof = LE16(idx)
  BY <1>2, <1>3, WrittenOK DEF IInv
<1>5. tx \in CommitTx
  <2>1. IsBad(n) \in BOOLEAN
    BY DEF IsBad
  <2>2. QED
    BY <1>3, <1>4, <2>1 DEF CommitTx
<1>6. /\ tx.source = order[n] /\ tx.queryId = IF opts.replay THEN 1 ELSE 0
      /\ tx.digest = IF IsWrong(n) THEN <<X>> ELSE <<>>
      /\ tx.genuine = ~ IsBad(n)
      /\ ~ IsWrong(n) => tx.proof = LE16(tx.source)
  BY <1>4
<1> HIDE DEF tx, buf, idx
<1>7. /\ commitTxs' \in Seq(CommitTx)
      /\ Len(commitTxs') = n + 1
      /\ \A k \in 1 .. n : commitTxs'[k] = commitTxs[k]
      /\ commitTxs'[n + 1] = tx
  BY <1>1, <1>5, AppendProperties DEF IInv, TypeOK
<1>8. TypeOK'
  BY <1>1, <1>4, <1>7 DEF IInv, TypeOK
<1>9. Shuffled' /\ Bounded'
  <2>1. Shuffled'
    BY <1>1 DEF IInv, Shuffled
  <2>2. n + 1 <= opts.commits
    BY <1>1, <1>2, NumbersOK DEF IInv, TypeOK
  <2>3. Bounded'
    BY <1>1, <1>7, <2>2 DEF IInv, Bounded, OptionsAccepted
  <2>4. QED
    BY <2>1, <2>3
<1>10. AsOrdered'
  <2> SUFFICES ASSUME NEW k \in 1 .. n + 1
               PROVE  LET t == commitTxs'[k] IN
                      /\ t.source = order[k - 1]
                      /\ t.queryId = IF opts.replay THEN 1 ELSE 0
                      /\ t.digest = IF IsWrong(k - 1) THEN <<X>> ELSE <<>>
                      /\ t.genuine = ~ IsBad(k - 1)
                      /\ ~ IsWrong(k - 1) => t.proof = LE16(t.source)
    BY <1>1, <1>7 DEF AsOrdered, IsWrong, IsBad
  <2>1. CASE k = n + 1
    <3>1. k - 1 = n /\ commitTxs'[k] = tx
      BY <1>2, <1>7, <2>1
    <3>2. QED
      BY <1>6, <3>1
  <2>2. CASE k \in 1 .. n
    BY <1>7, <2>2 DEF IInv, AsOrdered
  <2>3. QED
    BY <1>2, <2>1, <2>2
<1>11. QED
  BY <1>8, <1>9, <1>10 DEF IInv

LEMMA WriteFixtureInv ==
    ASSUME IInv, WriteFixture
    PROVE  IInv'
BY DEF WriteFixture, IInv, TypeOK, Shuffled, Bounded, AsOrdered, OptionsAccepted, IsWrong, IsBad

LEMMA NextInv == IInv /\ [Next]_vars => IInv'
<1> SUFFICES ASSUME IInv, [Next]_vars PROVE IInv'
  OBVIOUS
<1>1. CASE CheckOptions
  BY <1>1, CheckOptionsInv
<1>2. CASE \E j \in 0 .. i : ShuffleStep(j)
  BY <1>2, ShuffleInv
<1>3. CASE ShuffleDone
  BY <1>3, ShuffleDoneInv
<1>4. CASE SignCommit
  BY <1>4, SignCommitInv
<1>5. CASE WriteFixture
  BY <1>5, WriteFixtureInv
<1>6. CASE Exit \/ UNCHANGED vars
  BY <1>6 DEF Exit, vars, IInv, TypeOK, Shuffled, Bounded, AsOrdered, OptionsAccepted,
              IsWrong, IsBad
<1>7. QED
  BY <1>1, <1>2, <1>3, <1>4, <1>5, <1>6 DEF Next

\* The commits are made in an order that never loses a computor, each one as the loop
\* of gen_fixture.c makes it for its place.
THEOREM Invariance == Spec => []IInv
<1>1. Init => IInv
  BY InitInv
<1>2. IInv /\ [Next]_vars => IInv'
  BY NextInv
<1>3. QED
  BY <1>1, <1>2, PTL DEF Spec

LEMMA CommitsDiffer ==
    ASSUME IInv
    PROVE  \A m, n \in 1 .. Len(commitTxs) :
               /\ m - 1 \in Computor
               /\ commitTxs[m].source = commitTxs[n].source => m = n
<1>1. Len(commitTxs) \in Nat /\ Len(commitTxs) <= NUM_COMPUTORS
  <2>1. commitTxs \in Seq(CommitTx) /\ opts \in Options /\ opts.commits \in Nat
    BY NumbersOK DEF IInv, TypeOK
  <2>2. CASE commitTxs = <<>>
    BY <2>2, NumbersOK
  <2>3. CASE commitTxs # <<>>
    BY <2>1, <2>3, NumbersOK DEF IInv, Bounded, OptionsAccepted
  <2>4. QED
    BY <2>2, <2>3
<1>2. \A m \in 1 .. Len(commitTxs) : m - 1 \in Computor
  BY <1>1, NumbersOK DEF Computor
<1>3. \A m, n \in 1 .. Len(commitTxs) :
          commitTxs[m].source = commitTxs[n].source => m - 1 = n - 1
  BY <1>2 DEF IInv, Shuffled, AsOrdered
<1>4. QED
  BY <1>1, <1>2, <1>3

\* Whatever earlier commits left behind in the reply buffer, the proof of a commit to
\* the right digest is over the message and the signer's own index, and no computor
\* signs twice (the commit loop of gen_fixture.c).
THEOREM ProofsStayIntact == Spec => []GoodProofsIntact
<1>1. IInv => GoodProofsIntact
  <2> SUFFICES ASSUME IInv PROVE GoodProofsIntact
    OBVIOUS
  <2>1. \A n \in 1 .. Len(commitTxs) :
            commitTxs[n].digest = <<>> => commitTxs[n].proof = LE16(commitTxs[n].source)
    BY DigestsDiffer DEF IInv, AsOrdered
  <2>2. QED
    BY <2>1, CommitsDiffer DEF GoodProofsIntact
<1>2. QED
  BY <1>1, Invariance, PTL

\* How many commits the flags leave alone.
Spared == opts.commits - MaxOf(opts.badCommits, opts.wrongDigest)

LEMMA SparedBounds ==
    ASSUME IInv, pc = "written"
    PROVE  /\ Spared \in 0 .. opts.commits /\ Len(commitTxs) = opts.commits
           /\ opts.commits \in Nat
           /\ \A n \in 1 .. opts.commits :
                  ~ IsBad(n - 1) /\ ~ IsWrong(n - 1) <=> n <= Spared
<1>1. /\ opts.commits \in Nat /\ opts.badCommits \in Nat /\ opts.wrongDigest \in Nat
      /\ opts.badCommits <= opts.commits /\ opts.wrongDigest <= opts.commits
      /\ Len(commitTxs) = opts.commits
  BY NumbersOK DEF IInv, TypeOK, Bounded, OptionsAccepted
<1>2. QED
  BY <1>1 DEF Spared, MaxOf, IsBad, IsWrong

\* The two groups share the tail of the list, so what is left to count is its head.
LEMMA HeadIsCounted ==
    ASSUME IInv, pc = "written", NEW n \in 1 .. Len(commitTxs)
    PROVE  GuestCounts(commitTxs[n]) <=> ~ opts.replay /\ n <= Spared
<1>1. LET tx == commitTxs[n] IN
      /\ tx.queryId = IF opts.replay THEN 1 ELSE 0
      /\ tx.digest = IF IsWrong(n - 1) THEN <<X>> ELSE <<>>
      /\ tx.genuine = ~ IsBad(n - 1)
      /\ ~ IsWrong(n - 1) => tx.proof = LE16(tx.source)
  BY DEF IInv, AsOrdered
<1>2. ~ IsBad(n - 1) /\ ~ IsWrong(n - 1) <=> n <= Spared
  BY SparedBounds
<1>3. opts.replay \in BOOLEAN
  BY GenAssumption DEF IInv, TypeOK
<1>4. commitTxs[n].queryId = 0 <=> ~ opts.replay
  BY <1>1, <1>3
<1>5. commitTxs[n].digest = <<>> <=> ~ IsWrong(n - 1)
  BY <1>1, DigestsDiffer
<1>6. QED
  BY <1>1, <1>2, <1>4, <1>5, Zenon DEF GuestCounts

\* --bad-commits and --wrong-digest both spoil the end of the list: of a written
\* fixture the guest counts nothing after a replay, and otherwise every commit but
\* the larger of the two groups (gen_fixture.c, the commit loop).
THEOREM SparedAreCounted == Spec => []FlagsSpoilTheTail
<1>1. IInv => FlagsSpoilTheTail
  <2> SUFFICES ASSUME IInv, pc = "written"
               PROVE  Cardinality(Counted) = IF opts.replay THEN 0 ELSE Spared
    BY DEF FlagsSpoilTheTail, Spared
  <2>1. Spared \in Nat /\ 1 .. Spared \subseteq 1 .. Len(commitTxs)
    BY SparedBounds
  <2>2. CASE opts.replay
    <3>1. Counted = {}
      BY <2>2, HeadIsCounted DEF Counted
    <3>2. QED
      BY <2>2, <3>1, FS_EmptySet
  <2>3. CASE ~ opts.replay
    <3> DEFINE signer == [k \in 1 .. Spared |-> commitTxs[k].source]
    <3>1. {n \in 1 .. Len(commitTxs) : GuestCounts(commitTxs[n])} = 1 .. Spared
      <4>1. \A n \in 1 .. Len(commitTxs) : n <= Spared <=> n \in 1 .. Spared
        BY <2>1
      <4>2. QED
        BY <2>1, <2>3, <4>1, HeadIsCounted
    <3>2. Counted = {commitTxs[k].source : k \in 1 .. Spared}
      BY <3>1 DEF Counted
    <3>3. signer \in [1 .. Spared -> Counted]
      BY <3>2
    <3>4. \A m, n \in 1 .. Spared : signer[m] = signer[n] => m = n
      BY <2>1, CommitsDiffer
    <3>5. \A c \in Counted : \E k \in 1 .. Spared : signer[k] = c
      BY <3>2
    <3> HIDE DEF signer
    <3>6. ExistsBijection(1 .. Spared, Counted)
      BY <3>3, <3>4, <3>5, Fun_IsBij, Fun_ExistsBij
    <3>7. IsFiniteSet(1 .. Spared) /\ Cardinality(1 .. Spared) = Spared
      BY <2>1, FS_Interval
    <3>8. QED
      BY <2>3, <3>6, <3>7, FS_Bijection
  <2>4. QED
    BY <2>2, <2>3
<1>2. QED
  BY <1>1, Invariance, PTL
=============================================================================
