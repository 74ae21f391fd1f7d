--------------------------- MODULE KangarooTwelve ---------------------------
(***************************************************************************)
(* KangarooTwelve of crypto/src/riscv_fourq_verify.c, the hash behind      *)
(* every digest, knowledge proof and signature, one action per chunk.      *)
(*                                                                         *)
(* The sponge is symbolic: a byte is the set of the tokens XORed into it   *)
(* (zero is {}), and the permutation turns the state into an unknown       *)
(* function of all blocks so far: a node keeps those blocks, the tokens    *)
(* XORed since, and byteIOIndex.  Message byte i is the token <<"m", i>>.  *)
(* The local queueNode is not initialised when the call starts.            *)
(***************************************************************************)
EXTENDS Integers, SequencesExt

CONSTANTS
    Rate,        \* K12_rateInBytes
    Cap,         \* K12_capacityInBytes
    Chunk,       \* K12_chunkSize
    Lane,        \* 8, the bytes of a lane
    Base,        \* 256, the base of the length encoding
    Lengths      \* the input lengths to hash

ASSUME K12Assumption ==
    /\ {Rate, Cap, Chunk, Lane} \subseteq Nat \ {0}
    /\ Rate % Lane = 0
    /\ Cap <= Rate /\ Rate < Chunk
    /\ Chunk % Lane = 0 /\ (Chunk % Rate) + Lane < Rate
    /\ Base \in 2 .. 256
    /\ Lengths \subseteq Nat

VARIABLES pc, total, pos, final, queue, blockNumber, queueAbsorbedLen

vars == <<pc, total, pos, final, queue, blockNumber, queueAbsorbedLen>>

-----------------------------------------------------------------------------
(* Bytes and nodes.                                                        *)

Byte(v) == IF v = 0 THEN {} ELSE {<<"b", v>>}

Message(from, n) == [i \in 1 .. n |-> {<<"m", from + i>>}]

Zeros == [i \in 0 .. Rate - 1 |-> {}]

\* setMem(&node, sizeof node, 0)
Fresh == [past |-> <<>>, cur |-> Zeros, byteIOIndex |-> 0]

\* queueNode.state cleared, byteIOIndex = 1: one zero byte absorbed.
OneZero == [Fresh EXCEPT !.byteIOIndex = 1]

\* A stack slot nobody has written.
Garbage == [past |-> <<>>, cur |-> [Zeros EXCEPT ![0] = {<<"stack", 0>>}], byteIOIndex |-> 0]

\* state[at] ^= byte
XorAt(node, at, byte) == [node EXCEPT !.cur[at] = SymDiff(@, byte)]

KeccakP1600_Permute_12rounds(node) ==
    [node EXCEPT !.past = Append(@, node.cur), !.cur = Zeros]

\* The first n bytes of a state that was just permuted.
Output(node, n) == [i \in 1 .. n |-> {<<"out", i, node.past>>}]

\* A full rate is permuted and the index starts over.
Wrap(node) ==
    IF node.byteIOIndex = Rate
    THEN [KeccakP1600_Permute_12rounds(node) EXCEPT !.byteIOIndex = 0]
    ELSE node

\* What some turns of a loop make of the variables it starts with.
Loop(Turn(_), start, turns) ==
    LET after[k \in 0 .. turns] == IF k = 0 THEN start ELSE Turn(after[k - 1])
    IN  after[turns]

\* state[l] ^= lane << 8 * shift, where lane holds these bytes and zeros.
XorLane(node, l, bytes, shift) ==
    LET at == l * Lane + shift
    IN  [node EXCEPT !.cur = [i \in 0 .. Rate - 1 |->
            IF i \in at .. at + Len(bytes) - 1 /\ i \div Lane = l
            THEN SymDiff(@[i], bytes[i - at + 1]) ELSE @[i]]]

\* The first n lanes of the state, each XORed with a lane of the data.
XorLanes(node, data, n) ==
    [node EXCEPT !.cur = [i \in 0 .. Rate - 1 |->
        IF i \div Lane < n THEN SymDiff(@[i], data[i + 1]) ELSE @[i]]]

\* Whole rates, the inner while: the state is in registers from the first to the last.
WholeRates(node, data) ==
    LET rates[k \in 0 .. Len(data) \div Rate] ==
            IF k = 0 THEN node
            ELSE KeccakP1600_Permute_12rounds(
                    XorLanes(rates[k - 1], SubSeq(data, (k - 1) * Rate + 1, k * Rate), Rate \div Lane))
    IN  rates[Len(data) \div Rate]

\* Mutant: the bytes that fill no lane are left out.
FromFirstLaneNoTail(node, data) == XorLanes(node, data, Len(data) \div Lane)

\* A partial block onto an empty rate: lanes, then the bytes that fill no lane.
FromFirstLane(node, data) ==
    LET n == Len(data) \div Lane
        lanes == XorLanes(node, data, n)
    IN  IF Len(data) % Lane = 0 THEN lanes
        ELSE XorLane(lanes, n, SubSeq(data, n * Lane + 1, Len(data)), 0)

\* A partial block from byteIOIndex on: the first piece may start within a lane.
LaneTurn(data, s) ==
    LET left == Len(data) - s.i
        room == Lane - s.offsetInLane
        n == IF room > left THEN left ELSE room
    IN  IF left = 0 THEN s
        ELSE [node |-> XorLane(s.node, s.lanePosition, SubSeq(data, s.i + 1, s.i + n), s.offsetInLane),
              i |-> s.i + n, lanePosition |-> s.lanePosition + 1, offsetInLane |-> 0]

FromPosition(node, data) ==
    LET Turn(s) == LaneTurn(data, s)
        start == [node |-> node, i |-> 0, lanePosition |-> node.byteIOIndex \div Lane,
                  offsetInLane |-> node.byteIOIndex % Lane]
    IN  Loop(Turn, start, Len(data) \div Lane + 2).node

PartialBlock(node, data) ==
    LET filled == IF node.byteIOIndex = 0 THEN FromFirstLane(node, data) ELSE FromPosition(node, data)
    IN  Wrap([filled EXCEPT !.byteIOIndex = @ + Len(data)])

\* One turn of while (i < dataByteLen), where s.i bytes are absorbed: all whole rates
\* there are, or what fits.
AbsorbTurn(data, s) ==
    LET left == Len(data) - s.i
        room == Rate - s.node.byteIOIndex
        whole == s.node.byteIOIndex = 0 /\ left >= Rate
        n == IF whole THEN (left \div Rate) * Rate ELSE IF left > room THEN room ELSE left
        piece == SubSeq(data, s.i + 1, s.i + n)
    IN  IF left = 0 THEN s
        ELSE [node |-> IF whole THEN WholeRates(s.node, piece) ELSE PartialBlock(s.node, piece),
              i |-> s.i + n]

\* What fits, all whole rates, the rest.
KangarooTwelve_F_Absorb(node, data) ==
    LET Turn(s) == AbsorbTurn(data, s)
    IN  Loop(Turn, [node |-> node, i |-> 0], 3).node

\* Suffix, last rate bit, permutation: what ends a node.
Seal(node, suffix) ==
    KeccakP1600_Permute_12rounds(
        XorAt(XorAt(node, node.byteIOIndex, Byte(suffix)), Rate - 1, Byte(128)))

\* A sealed leaf's chaining value goes into the final node.
AbsorbLeaf(node, leaf) == KangarooTwelve_F_Absorb(node, Output(leaf, Cap))

\* ++byteIOIndex, a zero byte; a full rate is permuted.
SkipByte(node) == Wrap([node EXCEPT !.byteIOIndex = @ + 1])

\* 0x03 after the first chunk, then on to the next lane.
MarkFirstChunk(node) ==
    LET m == SkipByte(XorAt(node, node.byteIOIndex, Byte(3)))
    IN  [m EXCEPT !.byteIOIndex = ((@ + Lane - 1) \div Lane) * Lane]

\* encbuf: the digits of v, how many, FF FF.
encbuf(v) ==
    LET shifted[k \in 0 .. v] == IF k = 0 THEN v ELSE shifted[k - 1] \div Base
        n == CHOOSE k \in 0 .. v : shifted[k] = 0 /\ \A m \in 0 .. k - 1 : shifted[m] # 0
    IN  [j \in 1 .. n |-> Byte(shifted[n - j] % Base)] \o <<Byte(n), Byte(255), Byte(255)>>

-----------------------------------------------------------------------------
(* The call.                                                               *)

Init ==
    /\ pc = "first"
    /\ total \in Lengths
    /\ pos = 0
    /\ final = Fresh
    /\ queue = Garbage
    /\ blockNumber = 0
    /\ queueAbsorbedLen = 0

ChunkLen == IF total - pos < Chunk THEN total - pos ELSE Chunk

\* At most a chunk; a message shorter than one needs no tree.
FirstShort ==
    /\ pc = "first" /\ total < Chunk
    /\ LET node == [KangarooTwelve_F_Absorb(final, Message(0, total)) EXCEPT !.byteIOIndex = @ + 1]
       IN  final' = IF node.byteIOIndex = Rate
                    THEN XorAt(KeccakP1600_Permute_12rounds(node), 0, Byte(7))
                    ELSE XorAt(node, node.byteIOIndex, Byte(7))
    /\ pos' = total
    /\ blockNumber' = 0
    /\ pc' = "finish"
    /\ UNCHANGED <<total, queue, queueAbsorbedLen>>

\* Exactly a chunk: the second leaf is the zero that ends the message.
FirstExact ==
    /\ pc = "first" /\ total = Chunk
    /\ final' = MarkFirstChunk(KangarooTwelve_F_Absorb(final, Message(0, Chunk)))
    /\ pos' = Chunk
    /\ blockNumber' = 1
    /\ queue' = OneZero
    /\ queueAbsorbedLen' = 1
    /\ pc' = "close"
    /\ UNCHANGED total

FirstLong ==
    /\ pc = "first" /\ total > Chunk
    /\ final' = MarkFirstChunk(KangarooTwelve_F_Absorb(final, Message(0, Chunk)))
    /\ pos' = Chunk
    /\ blockNumber' = 1
    /\ queueAbsorbedLen' = 0
    /\ pc' = "leaves"
    /\ UNCHANGED <<total, queue>>

\* One turn of the loop over the leaves.
FullLeaf ==
    /\ pc = "leaves" /\ pos < total /\ ChunkLen = Chunk
    /\ LET leaf == Seal(KangarooTwelve_F_Absorb(Fresh, Message(pos, Chunk)), 11)
       IN  /\ queue' = [leaf EXCEPT !.byteIOIndex = Cap]
           /\ final' = AbsorbLeaf(final, leaf)
    /\ blockNumber' = blockNumber + 1
    /\ pos' = pos + Chunk
    /\ UNCHANGED <<pc, total, queueAbsorbedLen>>

LastLeaf ==
    /\ pc = "leaves" /\ pos < total /\ ChunkLen < Chunk
    /\ queue' = KangarooTwelve_F_Absorb(Fresh, Message(pos, ChunkLen))
    /\ queueAbsorbedLen' = ChunkLen
    /\ pos' = total
    /\ UNCHANGED <<pc, total, final, blockNumber>>

\* The zero byte that ends the message goes into the last leaf, which it may fill ...
EndInLeaf ==
    /\ pc = "leaves" /\ pos = total /\ queueAbsorbedLen # 0
    /\ LET node == SkipByte(queue)
           leaf == Seal(node, 11)
       IN  IF queueAbsorbedLen + 1 = Chunk
           THEN /\ queue' = [leaf EXCEPT !.byteIOIndex = Cap]
                /\ final' = AbsorbLeaf(final, leaf)
                /\ blockNumber' = blockNumber + 1
                /\ queueAbsorbedLen' = 0
           ELSE /\ queue' = node
                /\ queueAbsorbedLen' = queueAbsorbedLen + 1
                /\ UNCHANGED <<final, blockNumber>>
    /\ pc' = "close"
    /\ UNCHANGED <<total, pos>>

\* Mutant: queueNode is used as the last full leaf left it.
EndAloneStale ==
    /\ pc = "leaves" /\ pos = total /\ queueAbsorbedLen = 0
    /\ queue' = [queue EXCEPT !.byteIOIndex = 1]
    /\ queueAbsorbedLen' = 1
    /\ pc' = "close"
    /\ UNCHANGED <<total, pos, final, blockNumber>>

\* ... or makes a leaf of its own.
EndAlone ==
    /\ pc = "leaves" /\ pos = total /\ queueAbsorbedLen = 0
    /\ queue' = OneZero
    /\ queueAbsorbedLen' = 1
    /\ pc' = "close"
    /\ UNCHANGED <<total, pos, final, blockNumber>>

\* The open leaf, the number of leaves, FF FF, 0x06.
Close ==
    /\ pc = "close"
    /\ LET open == queueAbsorbedLen # 0
           leaf == Seal(queue, 11)
           with == IF open THEN AbsorbLeaf(final, leaf) ELSE final
           leaves == IF open THEN blockNumber ELSE blockNumber - 1
           node == KangarooTwelve_F_Absorb(with, encbuf(leaves))
       IN  /\ queue' = IF open THEN leaf ELSE queue
           /\ final' = XorAt(node, node.byteIOIndex, Byte(6))
           /\ blockNumber' = leaves
    /\ pc' = "finish"
    /\ UNCHANGED <<total, pos, queueAbsorbedLen>>

Finish ==
    /\ pc = "finish"
    /\ final' = KeccakP1600_Permute_12rounds(XorAt(final, Rate - 1, Byte(128)))
    /\ pc' = "done"
    /\ UNCHANGED <<total, pos, queue, blockNumber, queueAbsorbedLen>>

Next ==
    \/ FirstShort \/ FirstExact \/ FirstLong
    \/ FullLeaf \/ LastLeaf
    \/ EndInLeaf \/ EndAlone
    \/ Close \/ Finish

Spec == Init /\ [][Next]_vars

-----------------------------------------------------------------------------
(* KangarooTwelve as it is defined: the sponge over a padded string, and   *)
(* the tree over the message followed by a zero byte (no customisation).   *)

ZeroBytes(n) == [i \in 1 .. n |-> {}]

Sponge(str, suffix) ==
    LET n == Len(str) \div Rate + 1
        padded == str \o <<Byte(suffix)>> \o ZeroBytes(n * Rate - Len(str) - 1)
        closed == [padded EXCEPT ![n * Rate] = SymDiff(@, Byte(128))]
    IN  [past |-> [b \in 1 .. n |-> [i \in 0 .. Rate - 1 |-> closed[(b - 1) * Rate + i + 1]]],
         cur |-> Zeros]

Digits(v) ==
    LET of[u \in 0 .. v] == IF u = 0 THEN <<>> ELSE Append(of[u \div Base], Byte(u % Base))
    IN  of[v]

LengthEncode(v) == Append(Digits(v), Byte(Len(Digits(v))))

Reference(length) ==
    LET str == Append(Message(0, length), {})
        last == (Len(str) - 1) \div Chunk
        Part(k) == SubSeq(str, k * Chunk + 1,
                          IF k = last THEN Len(str) ELSE (k + 1) * Chunk)
        values == [k \in 1 .. last |-> Output(Sponge(Part(k), 11), Cap)]
    IN  IF last = 0 THEN Sponge(str, 7)
        ELSE Sponge(Part(0) \o <<Byte(3)>> \o ZeroBytes(Lane - 1) \o FlattenSeq(values)
                        \o LengthEncode(last) \o <<Byte(255), Byte(255)>>, 6)

-----------------------------------------------------------------------------
(* Properties.                                                             *)

\* Whatever the length, the bytes that reach the permutation, block by block and
\* leaf by leaf, are those of KangarooTwelve's definition: padding, chunk and
\* rate boundaries, chaining values and length encoding included.
HashIsK12 ==
    pc = "done" => [past |-> final.past, cur |-> final.cur] = Reference(total)
=============================================================================
