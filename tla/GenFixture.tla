------------------------------ MODULE GenFixture ------------------------------
(***************************************************************************)
(* The fixture generator crypto/tools/gen_fixture.c: option checks, the    *)
(* shuffle, the loop that signs the commit transactions over one reused    *)
(* reply buffer, and the summary it prints.                                *)
(*                                                                         *)
(* The message is fixed, so a byte string is written as what follows it:   *)
(* K12(message | s) is s itself.  `buffer` is reply[rLen .. rLen + 2].     *)
(* A signature is genuine unless --bad-commits damaged it; the packet, the *)
(* query and the reveal are always good.                                   *)
(***************************************************************************)
EXTENDS Integers, Sequences, FiniteSets

CONSTANTS
    NUM_COMPUTORS,   \* 676
    Base,            \* values of a byte, 256
    X,               \* the byte 'x', 120
    Options          \* the command lines looked at

ASSUME GenAssumption ==
    /\ Base \in Nat /\ Base > 1 /\ X \in 0 .. Base - 1
    /\ NUM_COMPUTORS \in 1 .. Base * Base
    /\ Options \subseteq [commits : Nat, badCommits : Nat, wrongDigest : Nat, revealBy : Nat,
                          replay : BOOLEAN, shuffle : BOOLEAN, othersInRange : BOOLEAN]

VARIABLES
    opts,
    pc,          \* "options", "shuffle", "commits", "written" or "died"
    i,           \* Fisher-Yates position
    order,       \* computor index per file position
    buffer,
    commitTxs    \* commits so far; its length is the loop counter n

vars == <<opts, pc, i, order, buffer, commitTxs>>

\* put_u16, little endian
LE16(v) == <<v % Base, v \div Base>>

MaxOf(a, b) == IF a >= b THEN a ELSE b

Init ==
    /\ opts \in Options
    /\ pc = "options"
    /\ i = NUM_COMPUTORS - 1
    /\ order = [k \in 0 .. NUM_COMPUTORS - 1 |-> k]
    /\ buffer = <<0, 0, 0>>
    /\ commitTxs = <<>>

\* othersInRange: every option needed is given, epoch, ticks and the message's length are
\* in their ranges, and the commits are ticked after the query.
OptionsAccepted ==
    /\ opts.commits <= NUM_COMPUTORS
    /\ opts.badCommits <= opts.commits
    /\ opts.wrongDigest <= opts.commits
    /\ opts.revealBy < NUM_COMPUTORS
    /\ opts.othersInRange

\* Option checks, then the digests: the wrong one is K12(message | 'x'), and the
\* 'x' stays behind in the buffer.
CheckOptions ==
    /\ pc = "options"
    /\ IF OptionsAccepted
       THEN /\ pc' = IF opts.shuffle THEN "shuffle" ELSE "commits"
            /\ buffer' = [buffer EXCEPT ![1] = X]
       ELSE pc' = "died" /\ UNCHANGED buffer
    /\ UNCHANGED <<opts, i, order, commitTxs>>

\* One Fisher-Yates exchange; the xorshift draw is any j in 0 .. i.
ShuffleStep(j) ==
    /\ pc = "shuffle"
    /\ i >= 1
    /\ order' = [order EXCEPT ![i] = order[j], ![j] = order[i]]
    /\ i' = i - 1
    /\ UNCHANGED <<opts, pc, buffer, commitTxs>>

ShuffleDone ==
    /\ pc = "shuffle"
    /\ i = 0
    /\ pc' = "commits"
    /\ UNCHANGED <<opts, i, order, buffer, commitTxs>>

\* Mutant: the wrong commits come first.
WrongAtHead(n) == n < opts.wrongDigest

\* Both kinds are taken from the end of the list.
IsWrong(n) == n >= opts.commits - opts.wrongDigest
IsBad(n) == n >= opts.commits - opts.badCommits

\* Mutant: the index is always written after the 'x'.
IndexAfterX(n) == 2

\* Position in the buffer that put_u16(reply + wl, idx) writes to.
IndexAt(n) == IF IsWrong(n) THEN 2 ELSE 1

\* The buffer after put_u16(reply + wl, idx).
Written(n, idx) ==
    LET le == LE16(idx) at == IndexAt(n) IN
    [buffer EXCEPT ![at] = le[1], ![at + 1] = le[2]]

\* One iteration of the commit loop.
SignCommit ==
    LET n == Len(commitTxs)
        idx == order[n]
        buf == Written(n, idx) IN
    /\ pc = "commits"
    /\ n < opts.commits
    /\ buffer' = buf
    /\ commitTxs' = Append(commitTxs,
           [source |-> idx,
            queryId |-> IF opts.replay THEN 1 ELSE 0,
            digest |-> IF IsWrong(n) THEN <<X>> ELSE <<>>,
            proof |-> SubSeq(buf, 1, IndexAt(n) + 1),
            genuine |-> ~ IsBad(n)])
    /\ UNCHANGED <<opts, pc, i, order>>

\* The reveal, the file and the summary.
WriteFixture ==
    /\ pc = "commits"
    /\ Len(commitTxs) = opts.commits
    /\ pc' = "written"
    /\ UNCHANGED <<opts, i, order, buffer, commitTxs>>

\* The process has ended.
Exit == pc \in {"written", "died"} /\ UNCHANGED vars

Next ==
    \/ CheckOptions
    \/ \E j \in 0 .. i : ShuffleStep(j)
    \/ ShuffleDone
    \/ SignCommit
    \/ WriteFixture
    \/ Exit

Spec == Init /\ [][Next]_vars

-----------------------------------------------------------------------------
\* What the guest counts of the written commits (query id 0, reply = message).
GuestCounts(tx) ==
    /\ tx.genuine
    /\ tx.queryId = 0
    /\ tx.digest = <<>>
    /\ tx.proof = LE16(tx.source)

Counted == {commitTxs[k].source : k \in {n \in 1 .. Len(commitTxs) : GuestCounts(commitTxs[n])}}

\* The number printed as "good", line 207.
PrintedGood ==
    LET overlap == MaxOf(opts.badCommits + opts.wrongDigest - opts.commits, 0) IN
    opts.commits - opts.badCommits - opts.wrongDigest + overlap

-----------------------------------------------------------------------------
\* The reused buffer never leaks into a commit to the right digest: whatever was
\* written past the message before, its proof is K12(message | own index), and no
\* computor signs twice, whatever the shuffle drew.
GoodProofsIntact ==
    /\ \A n \in 1 .. Len(commitTxs) :
           commitTxs[n].digest = <<>> => commitTxs[n].proof = LE16(commitTxs[n].source)
    /\ \A m, n \in 1 .. Len(commitTxs) :
           commitTxs[m].source = commitTxs[n].source => m = n

\* The guest counts every commit that no flag spoiled: the bad and the wrong ones share
\* the tail of the list, so the smaller group is inside the larger.
FlagsSpoilTheTail ==
    pc = "written" =>
        Cardinality(Counted) =
            IF opts.replay THEN 0 ELSE opts.commits - MaxOf(opts.badCommits, opts.wrongDigest)

\* The summary: short of a replay, the "good" it prints is the number of commits the
\* guest would count.
PrintedGoodIsTrue == pc = "written" /\ ~ opts.replay => PrintedGood = Cardinality(Counted)
=============================================================================
