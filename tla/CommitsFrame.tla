---------------------------- MODULE CommitsFrame ----------------------------
(***************************************************************************)
(* How the guest walks the commits frame (methods/guest/src/main.rs, step  *)
(* 4).  usize has the width of a u32 there, and a release build wraps: an  *)
(* offset is a number below Modulus.                                       *)
(* Which transactions count is decided in module QuorumGuest; here a       *)
(* transaction may count or not.                                           *)
(***************************************************************************)
EXTENDS Words

CONSTANT Quorum

ASSUME FrameAssumption == Quorum \in Nat \ {0}

VARIABLES
    commits,     \* the frame, any bytes
    pos,         \* off
    turns,       \* turns of the loop left
    raws,        \* the transactions given to check_commit so far
    count,
    verdict      \* "start", "walk", "panic", "quorum", "none"

frameVars == <<commits, pos, turns, raws, count, verdict>>

-----------------------------------------------------------------------------
\* A sum on a 32-bit usize.
Plus(x, y) == (x + y) % Modulus

\* Mutant: a range whose end wrapped is cut at its start and counts as empty.
LoosePresent(from, to) == to <= Len(commits)

\* commits.get(from..to): None unless from <= to <= len.
Present(from, to) == from <= to /\ to <= Len(commits)

FrameInit(frames) ==
    /\ commits \in frames
    /\ pos = 0 /\ turns = 0 /\ count = 0
    /\ raws = <<>>
    /\ verdict = "start"

ReadCount ==
    /\ verdict = "start" /\ Len(commits) >= Field
    /\ turns' = Number(SubSeq(commits, 1, Field))
    /\ pos' = Field
    /\ verdict' = "walk"
    /\ UNCHANGED <<commits, raws, count>>

MissingCount ==
    /\ verdict = "start" /\ Len(commits) < Field
    /\ verdict' = "panic"
    /\ UNCHANGED <<commits, pos, turns, raws, count>>

LengthAt == Number(SubSeq(commits, pos + 1, pos + Field))
Start == Plus(pos, Field)
End == Plus(Start, LengthAt)

TurnFits == Present(pos, Start) /\ Present(Start, End)

\* One turn: length, bytes, check_commit, and the break at the quorum.
Turn(counts) ==
    /\ verdict = "walk" /\ turns > 0 /\ TurnFits
    /\ raws' = Append(raws, SubSeq(commits, Start + 1, End))
    /\ pos' = End
    /\ turns' = turns - 1
    /\ count' = IF counts THEN count + 1 ELSE count
    /\ verdict' = IF counts /\ count + 1 >= Quorum THEN "quorum" ELSE "walk"
    /\ UNCHANGED commits

Overrun ==
    /\ verdict = "walk" /\ turns > 0 /\ ~TurnFits
    /\ verdict' = "panic"
    /\ UNCHANGED <<commits, pos, turns, raws, count>>

OutOfTurns ==
    /\ verdict = "walk" /\ turns = 0
    /\ verdict' = "none"
    /\ UNCHANGED <<commits, pos, turns, raws, count>>

FrameNext ==
    \/ ReadCount \/ MissingCount
    \/ \E counts \in BOOLEAN : Turn(counts)
    \/ Overrun \/ OutOfTurns

-----------------------------------------------------------------------------
(* Properties.                                                             *)

\* A slice of 2^32 bytes or more does not fit the guest's memory.
FitsMemory == Len(commits) < Modulus

\* A transaction of the frame as it is defined, with lengths that do not wrap: what was
\* decoded and where, and the same with the next transaction, if that is complete.
Decode(frame, sofar) ==
    LET from == sofar.at + Field
        to == from + Number(SubSeq(frame, sofar.at + 1, from))
    IN  IF from > Len(frame) \/ to > Len(frame) THEN sofar
        ELSE [at |-> to, txs |-> Append(sofar.txs, SubSeq(frame, from + 1, to))]

\* n transactions or as many as are complete.
Decoded(frame, n) ==
    LET first[k \in 0 .. n] ==
            IF k = 0 THEN [at |-> Field, txs |-> <<>>] ELSE Decode(frame, first[k - 1])
    IN  first[n]

\* Whatever the bytes, and though offsets may wrap, what reaches check_commit is a
\* beginning of what the frame encodes: nothing is skipped, repeated or invented.  The
\* walk gives up only where the frame does: before the quorum it has read all that is
\* complete, and a panic means that announced transactions are missing.
WalkIsExact ==
    verdict # "start" /\ Len(commits) >= Field /\ FitsMemory =>
        LET n == Number(SubSeq(commits, 1, Field))
            all == Decoded(commits, n).txs
        IN  /\ IsPrefix(raws, all)
            /\ verdict \in {"none", "panic"} => raws = all
            /\ verdict = "none" => Len(all) = n
            /\ verdict = "panic" => Len(all) < n
=============================================================================
