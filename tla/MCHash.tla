------------------------------- MODULE MCHash -------------------------------
(***************************************************************************)
(* The hashes, in parts side by side: KangarooTwelve with the real rate,   *)
(* chunk and lane over a symbolic permutation, single calls of the absorb  *)
(* loop, the permutation of either program and the hash of 64 bytes.  A    *)
(* behaviour runs one of them; the others stay where they started.         *)
(***************************************************************************)
EXTENDS StockHash, KeccakP1600, ShortHash

VARIABLE part

allVars == <<vars, permVars, stockVars, shortVars, part>>

-----------------------------------------------------------------------------
(* Inputs.                                                                 *)

\* Every length up to two rates, and those around each chunk up to the fourth,
\* in the last leaf as far as its first rate.
MCLengths ==
    0 .. 2 * Rate + 1
    \cup {k * Chunk + d : k \in 1 .. 4, d \in -3 .. 2}
    \cup {k * Chunk + Rate + d : k \in {1, 3}, d \in -2 .. 1}

\* Calls of the absorb loop: positions in the first, a middle and the last lane,
\* pieces of up to two lanes and around one and two rates.
MCPositions == {0, 1, 5, Lane - 1, Lane, 83, Rate - Lane, Rate - 1}

MCPieces == (0 .. 2 * Lane + 1) \cup {Rate + d : d \in {-9, -8, -5, -1, 0, 1, 8}} \cup {2 * Rate, 2 * Rate + 1}

MCZero == [i \in 0 .. 24 |-> {}]

\* The one block of an empty message: 0x07 after the zero that ends it, 0x80 in
\* the last rate byte.
MCEmptyMessage == [MCZero EXCEPT ![0] = {8, 9, 10}, ![20] = {63}]

MCStripe == [i \in 0 .. 24 |-> {b \in 0 .. 63 : (b * (i + 1)) % 7 < 3}]

\* Zero, ones, two stripes, single bits.
MCInputs ==
    {MCZero, MCEmptyMessage, MCStripe, [i \in 0 .. 24 |-> 0 .. 63],
     [i \in 0 .. 24 |-> {b \in 0 .. 63 : (b + i) % 3 = 0}]}
    \cup {[MCZero EXCEPT ![i] = {(11 * i) % 64}] : i \in 0 .. 24}

MCStockInputs == {MCZero, MCStripe, [MCZero EXCEPT ![13] = {21}]}

\* The bits of a number below 256.
Bits(v) == {b \in 0 .. 7 : (v \div 2 ^ b) % 2 = 1}

\* Bytes 0 .. 63, the input of the repository's vector of this length.
MCCounting == [i \in 0 .. 7 |-> {b \in 0 .. 63 : b % 8 \in Bits(8 * i + b \div 8)}]

\* Zero, ones, and a single bit in each lane besides.
MCMessages ==
    LET zero == [i \in 0 .. 7 |-> {}]
    IN  {MCCounting, zero, [i \in 0 .. 7 |-> 0 .. 63]}
        \cup {[zero EXCEPT ![i] = {(11 * i) % 64}] : i \in 0 .. 7}

-----------------------------------------------------------------------------
HashIdle ==
    /\ pc = "done" /\ total = 0 /\ pos = 0
    /\ final = Sponge(<<{}>>, 7) @@ [byteIOIndex |-> 1]
    /\ queue = Garbage /\ blockNumber = 0 /\ queueAbsorbedLen = 0

PermIdle ==
    /\ start = MCZero /\ a = MCZero /\ c = [col \in 0 .. 4 |-> {}] /\ round = 0

StockIdle ==
    /\ state = MCZero /\ bank = <<>> /\ Cs = <<>> /\ Ds = <<>> /\ plane = 5 /\ turn = 0

ShortIdle ==
    /\ input = <<>> /\ short = <<>> /\ parity = <<>> /\ shortRound = -1
    /\ output = <<>> /\ general = <<>>

\* A node in the middle of a message, with a token in every byte.
AbsorbInit ==
    /\ pc = "absorb" /\ total \in MCPieces /\ pos = 0
    /\ \E at \in MCPositions :
        queue = [past |-> <<>>, cur |-> [i \in 0 .. Rate - 1 |-> {<<"old", i>>}],
                 byteIOIndex |-> at]
    /\ final = Fresh /\ blockNumber = 0 /\ queueAbsorbedLen = 0

MCInit ==
    \/ part = "hash" /\ Init /\ PermIdle /\ StockIdle /\ ShortIdle
    \/ part = "absorb" /\ AbsorbInit /\ PermIdle /\ StockIdle /\ ShortIdle
    \/ part = "permutation" /\ PermInit /\ HashIdle /\ StockIdle /\ ShortIdle
    \/ part = "stock" /\ StockInit /\ HashIdle /\ PermIdle /\ ShortIdle
    \/ part = "short" /\ ShortInit /\ HashIdle /\ PermIdle /\ StockIdle

MCNext ==
    /\ \/ part = "hash" /\ Next /\ UNCHANGED <<permVars, stockVars, shortVars>>
       \/ part = "absorb" /\ Absorb /\ UNCHANGED <<permVars, stockVars, shortVars>>
       \/ part = "permutation" /\ PermNext /\ UNCHANGED <<vars, stockVars, shortVars>>
       \/ part = "stock" /\ StockNext /\ UNCHANGED <<vars, permVars, shortVars>>
       \/ part = "short" /\ ShortNext /\ UNCHANGED <<vars, permVars, stockVars>>
    /\ UNCHANGED part

MCSpec == MCInit /\ [][MCNext]_allVars

-----------------------------------------------------------------------------
(* Properties.                                                             *)

\* Byte i of lanes, as output reads it.
ByteOf(lanes, i) ==
    MapThenSumSet(LAMBDA b : 2 ^ b, {b \in 0 .. 7 : (i % 8) * 8 + b \in lanes[i \div 8]})

\* crypto/tests/vectors/k12_vectors.txt, length 0 and length 64.
MCDigest0 == <<
     26, 194, 212,  80, 252,  59,  66,   5, 209, 157, 167, 191, 202,  27,  55,  81,
     60,   8,   3,  87, 122, 199,  22, 127,   6, 254,  44, 225, 240, 239,  57, 229>>
MCDigest64 == <<
     33, 169, 150,  34, 149, 251, 116, 140, 245,  13, 201, 117, 168, 104, 187, 113,
    120, 216, 241,   6, 113,  18, 162, 243, 119, 188, 154,  79,  39,  41, 113, 251>>

\* The digests of the empty message, by the port, and of bytes 0 .. 63, by the
\* function for this length, are those the repository's vectors record.
KnownAnswer ==
    /\ round = 12 /\ start = MCEmptyMessage =>
        \A i \in 0 .. 31 : ByteOf(a, i) = MCDigest0[i + 1]
    /\ shortRound = 12 /\ input = MCCounting =>
        \A i \in 0 .. 31 : ByteOf(output, i) = MCDigest64[i + 1]
=============================================================================
