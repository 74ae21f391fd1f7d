---------------------------- MODULE KeccakP1600 ----------------------------
(***************************************************************************)
(* The permutation of crypto/src/riscv_fourq_verify.c at its real width,   *)
(* one action per round.  A lane is the set of its one bits.  The code     *)
(* unrolls the rounds over two banks of variables and computes the column  *)
(* parities of the next round while it writes this one; the model keeps    *)
(* the live bank a and the parities c.  Lanes are numbered as state[] is:  *)
(* plane (b g k m s) times five plus column (a e i o u).                   *)
(***************************************************************************)
EXTENDS Integers, FiniteSetsExt

CONSTANTS Inputs     \* states to permute

ASSUME KeccakAssumption == Inputs \subseteq [0 .. 24 -> SUBSET (0 .. 63)]


VARIABLES
    start,       \* the state on entry
    a,           \* the lanes of the live bank
    c,           \* Ca .. Cu
    round        \* rounds done

permVars == <<start, a, c, round>>

-----------------------------------------------------------------------------
ROL64(lane, n) == {(b + n) % 64 : b \in lane}

\* Mutant: the other operand is complemented.
andnOther(x, y) == x \ y

andn64(x, y) == y \ x

\* KeccakF1600RoundConstant0 .. 10, and the one written out in the last round.
RoundConstant == <<
    {0, 1, 3, 7, 15, 31}, {0, 1, 3, 7, 63}, {0, 3, 7, 15, 63}, {0, 1, 15, 63},
    {1, 15, 63}, {7, 63}, {1, 3, 15}, {1, 3, 31, 63},
    {0, 7, 15, 31, 63}, {7, 15, 63}, {0, 31}, {3, 15, 31, 63}>>

\* The lanes that feed Bba .. Bbu, Bga .. Bgu, Bka .. Bku, Bma .. Bmu, Bsa .. Bsu,
\* and by how much each is rotated.
Feeds == << 0,  6, 12, 18, 24,    3,  9, 10, 16, 22,    1,  7, 13, 19, 20,
            4,  5, 11, 17, 23,    2,  8, 14, 15, 21>>

Turns == << 0, 44, 43, 21, 14,   28, 20,  3, 45, 61,    1,  6, 25,  8, 18,
           27, 36, 10, 15, 56,   62, 55, 39, 41,  2>>

\* Da .. Du, from the parities.
D(col) == SymDiff(c[(col + 4) % 5], ROL64(c[(col + 1) % 5], 1))

\* A##xy ^= D; B = ROL64(A##xy, n)
B(i) == LET from == Feeds[i + 1] IN ROL64(SymDiff(a[from], D(from % 5)), Turns[i + 1])

\* E = B ^ andn64(next B, B after it), within a plane.
E(i) ==
    LET plane == (i \div 5) * 5
        At(k) == B(plane + ((i + k) % 5))
    IN  SymDiff(At(0), andn64(At(1), At(2)))

\* Lane 0 also takes the round's constant.
Written(i) == IF i = 0 THEN SymDiff(E(0), RoundConstant[round + 1]) ELSE E(i)

Parity(lanes, col) ==
    {b \in 0 .. 63 : Cardinality({p \in 0 .. 4 : b \in lanes[5 * p + col]}) % 2 = 1}

-----------------------------------------------------------------------------
PermInit ==
    /\ start \in Inputs
    /\ a = start
    /\ c = [col \in 0 .. 4 |-> Parity(start, col)]
    /\ round = 0

\* Mutant: the constant is added after the parity of its column was taken.
RoundParityFirst ==
    /\ round < 11
    /\ a' = [i \in 0 .. 24 |-> Written(i)]
    /\ c' = [col \in 0 .. 4 |-> Parity([i \in 0 .. 24 |-> E(i)], col)]
    /\ round' = round + 1
    /\ UNCHANGED start

\* thetaRhoPiChiIotaPrepareTheta(round, A, E): the parities of what is written
\* replace those that were used.
Round ==
    /\ round < 11
    /\ a' = [i \in 0 .. 24 |-> Written(i)]
    /\ c' = [col \in 0 .. 4 |-> Parity(a', col)]
    /\ round' = round + 1
    /\ UNCHANGED start

\* The twelfth round needs no parities after it.
LastRound ==
    /\ round = 11
    /\ a' = [i \in 0 .. 24 |-> Written(i)]
    /\ round' = 12
    /\ UNCHANGED <<start, c>>

PermNext == Round \/ LastRound

PermSpec == PermInit /\ [][PermNext]_permVars

-----------------------------------------------------------------------------
(* Properties.                                                             *)

\* Lanes by column and plane.
Matrix(lanes) == [q \in (0 .. 4) \X (0 .. 4) |-> lanes[5 * q[2] + q[1]]]

Keccak == INSTANCE KeccakReference
          WITH s <- Matrix(a), Inputs <- {Matrix(lanes) : lanes \in Inputs}

\* The unrolled tables of lanes, rotations and constants compute Keccak-p[1600]
\* round by round: the macros' literals agree with the walk, the triangular
\* numbers and the register that define them, and the parities carried from
\* round to round are those of the lanes as written, constant included.
ImplementsKeccak == Keccak!Spec
=============================================================================
