----------------------------- MODULE StockKeccak -----------------------------
(***************************************************************************)
(* KeccakP1600_Permute_12rounds of crypto/src/stock_qubic.c (its generic   *)
(* build), one action per plane the macro writes.  Two banks of lanes take *)
(* turns: a round XORs the difference D into the lanes of one bank in      *)
(* place, just before it reads them, and writes the other bank; meanwhile  *)
(* the parities C, which D was made from, are overwritten by those of the  *)
(* next round.  A lane is the set of its one bits.                         *)
(***************************************************************************)
EXTENDS Integers, FiniteSetsExt

CONSTANTS StockInputs     \* states to permute

ASSUME StockKeccakAssumption == StockInputs \subseteq [0 .. 24 -> SUBSET (0 .. 63)]

VARIABLES
    state,       \* the caller's 25 lanes
    bank,        \* bank[0] is Aba .. Asu, bank[1] is Eba .. Esu
    Cs,           \* Ca .. Cu
    Ds,           \* Da .. Du
    plane,       \* the plane the round writes next
    turn         \* rounds done

stockVars == <<state, bank, Cs, Ds, plane, turn>>

-----------------------------------------------------------------------------
Rol64(lane, n) == {(b + n) % 64 : b \in lane}

\* (~x) & y
AndNot(x, y) == y \ x

StockConstant == <<
    {0, 1, 3, 7, 15, 31}, {0, 1, 3, 7, 63}, {0, 3, 7, 15, 63}, {0, 1, 15, 63},
    {1, 15, 63}, {7, 63}, {1, 3, 15}, {1, 3, 31, 63},
    {0, 7, 15, 31, 63}, {7, 15, 63}, {0, 31}, {3, 15, 31, 63}>>

\* What plane p reads for its columns a e i o u: the lane, and how far it turns.
Reads == << << 0,  6, 12, 18, 24>>, << 3,  9, 10, 16, 22>>, << 1,  7, 13, 19, 20>>,
            << 4,  5, 11, 17, 23>>, << 2,  8, 14, 15, 21>> >>

Rolls == << << 0, 44, 43, 21, 14>>, <<28, 20,  3, 45, 61>>, << 1,  6, 25,  8, 18>>,
            <<27, 36, 10, 15, 56>>, <<62, 55, 39, 41,  2>> >>

\* The lanes plane p reads, as a set: each is XORed with its column's D.
Touched(p) == {Reads[p + 1][x + 1] : x \in 0 .. 4}

\* The bank a round reads, and the one it writes.
Old == turn % 2
New == 1 - Old

Mixed == [i \in 0 .. 24 |->
            IF i \in Touched(plane) THEN SymDiff(bank[Old][i], Ds[i % 5]) ELSE bank[Old][i]]

Turned(x) == Rol64(Mixed[Reads[plane + 1][x + 1]], Rolls[plane + 1][x + 1])

\* The lane of column x that is written to this plane; lane 0 takes the constant.
Written64(x) ==
    LET chi == SymDiff(Turned(x), AndNot(Turned((x + 1) % 5), Turned((x + 2) % 5)))
    IN  IF plane = 0 /\ x = 0 THEN SymDiff(chi, StockConstant[turn + 1]) ELSE chi

ColumnParity(lanes, x) ==
    {b \in 0 .. 63 : Cardinality({p \in 0 .. 4 : b \in lanes[5 * p + x]}) % 2 = 1}

-----------------------------------------------------------------------------
\* What E and D hold before they are written: whatever the stack held.
Unwritten == 0 .. 63

\* copyFromState and the parities.
StockInit ==
    /\ state \in StockInputs
    /\ bank = [k \in 0 .. 1 |-> [i \in 0 .. 24 |-> IF k = 0 THEN state[i] ELSE Unwritten]]
    /\ Cs = [x \in 0 .. 4 |-> ColumnParity(state, x)]
    /\ Ds = [x \in 0 .. 4 |-> Unwritten]
    /\ plane = -1
    /\ turn = 0

\* Da .. Du at the head of the macro.
Differences ==
    /\ turn < 12 /\ plane = -1
    /\ Ds' = [x \in 0 .. 4 |-> SymDiff(Cs[(x + 4) % 5], Rol64(Cs[(x + 1) % 5], 1))]
    /\ plane' = 0
    /\ UNCHANGED <<state, bank, Cs, turn>>

\* Mutant: the parities are added to those of the round before.
AccumulatedStale(x) == SymDiff(Cs[x], Written64(x))

\* The first plane starts the new parities, the others are added to them.
Accumulated(x) == IF plane = 0 THEN Written64(x) ELSE SymDiff(Cs[x], Written64(x))

\* The banks after plane was written, and what comes next.
BankWritten ==
    [bank EXCEPT ![Old] = Mixed,
                 ![New] = [i \in 0 .. 24 |-> IF i \div 5 = plane THEN Written64(i % 5) ELSE @[i]]]

PlaneDone == IF plane < 4 THEN plane' = plane + 1 /\ UNCHANGED turn
             ELSE plane' = -1 /\ turn' = turn + 1

WritePlane ==
    /\ turn < 11 /\ plane \in 0 .. 4
    /\ bank' = BankWritten
    /\ Cs' = [x \in 0 .. 4 |-> Accumulated(x)]
    /\ PlaneDone
    /\ UNCHANGED <<state, Ds>>

\* The twelfth round is written out in rounds12; no parities are needed after it.
WriteLastPlane ==
    /\ turn = 11 /\ plane \in 0 .. 4
    /\ bank' = BankWritten
    /\ PlaneDone
    /\ UNCHANGED <<state, Cs, Ds>>

\* copyToState: after an even number of rounds the lanes are in bank A.
CopyToState ==
    /\ turn = 12 /\ plane = -1
    /\ state' = bank[0]
    /\ plane' = 5
    /\ UNCHANGED <<bank, Cs, Ds, turn>>

StockNext == Differences \/ WritePlane \/ WriteLastPlane \/ CopyToState

StockSpec == StockInit /\ [][StockNext]_stockVars

-----------------------------------------------------------------------------
(* Properties.                                                             *)

\* The state a round started from: D is taken back out of the lanes that have it.
RoundStart ==
    LET done == UNION {Touched(p) : p \in 0 .. plane - 1}
    IN  [i \in 0 .. 24 |-> IF i \in done THEN SymDiff(bank[Old][i], Ds[i % 5]) ELSE bank[Old][i]]

StockMatrix(lanes) == [q \in (0 .. 4) \X (0 .. 4) |-> lanes[5 * q[2] + q[1]]]

StockReference ==
    INSTANCE KeccakReference
    WITH s <- StockMatrix(IF plane = 5 THEN state ELSE RoundStart), round <- turn,
         Inputs <- {StockMatrix(lanes) : lanes \in StockInputs}

\* The macro computes Keccak-p[1600, 12] although it destroys one bank while it
\* fills the other and the parities of one round while it makes the next one's,
\* and the caller's lanes receive the bank that holds the result.
StockImplementsKeccak == StockReference!Spec
=============================================================================
