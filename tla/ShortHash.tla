------------------------------ MODULE ShortHash ------------------------------
(***************************************************************************)
(* KangarooTwelve64To32 of crypto/src/stock_qubic.c, which makes keys and  *)
(* nonces: KangarooTwelve of 64 bytes into 32, as one permutation written  *)
(* for this length.  The first round leaves out the lanes that are zero in *)
(* the padded block, the eleventh keeps only the lanes and parities that   *)
(* the twelfth needs for four lanes of output.  The rounds between repeat  *)
(* the lanes, rotations and differences of the macro.  One action a round. *)
(***************************************************************************)
EXTENDS StockKeccak

CONSTANTS Messages     \* eight lanes each

ASSUME ShortAssumption == Messages \subseteq [0 .. 7 -> SUBSET (0 .. 63)]

VARIABLES
    input,       \* the eight lanes of the message
    short,       \* the lanes of the bank written last
    parity,      \* Ca .. Cu
    shortRound,  \* rounds done
    output,      \* the four lanes returned
    general      \* (history) the state of Keccak-p on the padded block

shortVars == <<input, short, parity, shortRound, output, general>>

-----------------------------------------------------------------------------
\* The literals of its rounds.
ShortConstant == <<
    {0, 1, 3, 7, 15, 31}, {0, 1, 3, 7, 63}, {0, 3, 7, 15, 63}, {0, 1, 15, 63},
    {1, 15, 63}, {7, 63}, {1, 3, 15}, {1, 3, 31, 63},
    {0, 7, 15, 31, 63}, {7, 15, 63}, {0, 31}, {3, 15, 31, 63}>>

\* The XOR of f[i], i \in S
Xored(f, S) == {b \in 0 .. 63 : Cardinality({i \in S : b \in f[i]}) % 2 = 1}

\* Da .. Du, from the parities c.
Difference(c, x) == SymDiff(c[(x + 4) % 5], Rol64(c[(x + 1) % 5], 1))

\* Bba .. Bsu, of plane p and column x.
ShortB(lanes, c, p, x) ==
    LET from == Reads[p + 1][(x % 5) + 1]
    IN  Rol64(SymDiff(lanes[from], Difference(c, from % 5)), Rolls[p + 1][(x % 5) + 1])

\* The and-not that is XORed to ShortB(.., x), and the lane this makes.
Nonlinear(lanes, c, p, x) == AndNot(ShortB(lanes, c, p, x + 1), ShortB(lanes, c, p, x + 2))

ShortE(lanes, c, p, x) ==
    LET chi == SymDiff(ShortB(lanes, c, p, x), Nonlinear(lanes, c, p, x))
    IN  IF p = 0 /\ x = 0 THEN SymDiff(chi, ShortConstant[shortRound + 1]) ELSE chi

AllLanes(lanes, c) == [i \in 0 .. 24 |-> ShortE(lanes, c, i \div 5, i % 5)]

Columns(lanes) == [x \in 0 .. 4 |-> Xored(lanes, {5 * p + x : p \in 0 .. 4})]

-----------------------------------------------------------------------------
(* The function it is to compute.                                          *)

\* Byte j of the block KangarooTwelve makes of 64 bytes, as its bits: the message,
\* the zero that ends it, 0x07, and 0x80 in the last byte of the rate.
BlockByte(j) ==
    IF j < 64 THEN {b \in 0 .. 7 : 8 * (j % 8) + b \in input[j \div 8]}
    ELSE IF j = 65 THEN 0 .. 2
    ELSE IF j = 167 THEN {7}
    ELSE {}

Block == [i \in 0 .. 24 |-> {b \in 0 .. 63 : b % 8 \in BlockByte(8 * i + b \div 8)}]

ShortReference ==
    INSTANCE KeccakReference
    WITH s <- StockMatrix(Block), round <- shortRound, Inputs <- {}

\* Each step of the code is a round of Keccak-p.
OneRound ==
    /\ shortRound' = shortRound + 1
    /\ general' = ShortReference!KeccakRound(general, shortRound)

-----------------------------------------------------------------------------
ShortInit ==
    /\ input \in Messages
    /\ short = [i \in 0 .. 24 |-> Unwritten]
    /\ parity = [x \in 0 .. 4 |-> Unwritten]
    /\ shortRound = 0
    /\ output = <<>>
    /\ general = StockMatrix(Block)

\* Mutant: 0x07 is missing from the lane, as if only its column knew of it.
FirstLanesNoSuffix ==
    [i \in 0 .. 24 |-> IF i \in 0 .. 7 THEN input[i] ELSE IF i = 20 THEN {63} ELSE {}]

\* What the first round XORs with D: the message, 0x0700, the last rate bit; the
\* other lanes of the padded block are zero and do not appear.
FirstLanes ==
    [i \in 0 .. 24 |-> IF i \in 0 .. 7 THEN input[i]
                       ELSE IF i = 8 THEN {8, 9, 10}
                       ELSE IF i = 20 THEN {63}
                       ELSE {}]

\* The terms of its Ca .. Co; where the others use Cu it uses input[4].
FirstParity ==
    LET term == [i \in 0 .. 9 |-> IF i < 8 THEN input[i] ELSE IF i = 8 THEN {8, 9, 10} ELSE {63}]
        terms == <<{0, 5, 9}, {1, 6}, {2, 7}, {3, 8}, {4}>>
    IN  [x \in 0 .. 4 |-> Xored(term, terms[x + 1])]

FirstRound ==
    /\ shortRound = 0
    /\ short' = AllLanes(FirstLanes, FirstParity)
    /\ parity' = Columns(short')
    /\ OneRound
    /\ UNCHANGED <<input, output>>

\* Rounds 2 to 10, in turn from E to A and from A to E.
MiddleRound ==
    /\ shortRound \in 1 .. 9
    /\ short' = AllLanes(short, parity)
    /\ parity' = Columns(short')
    /\ OneRound
    /\ UNCHANGED <<input, output>>

\* Eba, Ege, Eki, Emo, Esu, the lanes the last round reads for its first plane.
Diagonal == {6 * x : x \in 0 .. 4}

\* A column's parity from its one written lane and the terms of the other four.
EleventhParity(x) ==
    LET own == ShortE(short, parity, x, x)
        other(p) == SymDiff(ShortB(short, parity, p, x), Nonlinear(short, parity, p, x))
        lane == [p \in 0 .. 4 |-> IF p = x THEN own ELSE other(p)]
    IN  Xored(lane, 0 .. 4)

EleventhRound ==
    /\ shortRound = 10
    /\ short' = [i \in Diagonal |-> ShortE(short, parity, i \div 5, i % 5)]
    /\ parity' = [x \in 0 .. 4 |-> EleventhParity(x)]
    /\ OneRound
    /\ UNCHANGED <<input, output>>

TwelfthRound ==
    /\ shortRound = 11
    /\ output' = [x \in 0 .. 3 |-> ShortE(short, parity, 0, x)]
    /\ OneRound
    /\ UNCHANGED <<input, short, parity>>

ShortNext == FirstRound \/ MiddleRound \/ EleventhRound \/ TwelfthRound

ShortSpec == ShortInit /\ [][ShortNext]_shortVars

-----------------------------------------------------------------------------
(* Properties.                                                             *)

\* The function written for 64 bytes is KangarooTwelve of 64 bytes: leaving out
\* zero lanes and unneeded lanes changes no bit of the output, in any round.
ShortIsGeneral ==
    /\ shortRound \in 1 .. 11 =>
        /\ \A i \in DOMAIN short : short[i] = general[<<i % 5, i \div 5>>]
        /\ \A x \in 0 .. 4 : parity[x] = Xored([p \in 0 .. 4 |-> general[<<x, p>>]], 0 .. 4)
    /\ shortRound = 12 => \A x \in 0 .. 3 : output[x] = general[<<x, 0>>]
=============================================================================
