------------------------------ MODULE StockHash ------------------------------
(***************************************************************************)
(* KangarooTwelve of crypto/src/stock_qubic.c, over the symbolic bytes of  *)
(* module KangarooTwelve and down to the lanes its absorb loop XORs: its   *)
(* partial blocks go by 8, 4, 2 and 1 lanes and a tail, and its tree is    *)
(* built by another loop.                                                  *)
(***************************************************************************)
EXTENDS KangarooTwelve

-----------------------------------------------------------------------------
(* KangarooTwelve_F_Absorb.                                                *)

\* for (; j + k <= n; j += k), the loops for k lanes at a time
AfterLoop(j, n, k) == j + k * ((n - j) \div k)

\* Mutant: the lanes that are left over are not looked at.
LanesDoneNoLast(n) == AfterLoop(AfterLoop(AfterLoop(0, n, 8), n, 4), n, 2)

\* The lanes covered by eights, fours, twos and the last one.
LanesDone(n) ==
    LET j == AfterLoop(AfterLoop(AfterLoop(0, n, 8), n, 4), n, 2)
    IN  IF j < n THEN j + 1 ELSE j

\* A partial block onto an empty rate: lanes, then the bytes that fill no lane.
StockFromFirstLane(node, data) ==
    LET n == Len(data) \div Lane
        lanes == XorLanes(node, data, LanesDone(n))
    IN  IF Len(data) % Lane = 0 THEN lanes
        ELSE XorLane(lanes, n, SubSeq(data, n * Lane + 1, Len(data)), 0)

StockPartialBlock(node, data) ==
    LET filled == IF node.byteIOIndex = 0 THEN StockFromFirstLane(node, data)
                  ELSE FromPosition(node, data)
    IN  Wrap([filled EXCEPT !.byteIOIndex = @ + Len(data)])

\* Otherwise the loop is the port's.
StockTurn(data, s) ==
    LET left == Len(data) - s.i
        room == Rate - s.node.byteIOIndex
        n == IF left > room THEN room ELSE left
    IN  IF left = 0 \/ (s.node.byteIOIndex = 0 /\ left >= Rate) THEN AbsorbTurn(data, s)
        ELSE [node |-> StockPartialBlock(s.node, SubSeq(data, s.i + 1, s.i + n)), i |-> s.i + n]

StockAbsorb(node, data) ==
    LET Turn(s) == StockTurn(data, s)
    IN  Loop(Turn, [node |-> node, i |-> 0], 3).node

-----------------------------------------------------------------------------
(* KangarooTwelve: final, queueNode, blockNumber, queueAbsorbedLen.        *)

AbsorbSealed(node, leaf) == StockAbsorb(node, Output(leaf, Cap))

\* A leaf that is a whole chunk is sealed and absorbed at once.
SealedInto(c, node) ==
    LET leaf == Seal(node, 11)
    IN  [final |-> AbsorbSealed(c.final, leaf), queue |-> [leaf EXCEPT !.byteIOIndex = Cap],
         blocks |-> c.blocks + 1, open |-> c.open]

\* One turn of the loop over the leaves, from input byte s.from on.
LeafTurn(length, s) ==
    LET n == IF length - s.from < Chunk THEN length - s.from ELSE Chunk
        node == StockAbsorb(Fresh, Message(s.from, n))
    IN  IF s.from = length THEN s
        ELSE [tree |-> IF n = Chunk THEN SealedInto(s.tree, node)
                       ELSE [s.tree EXCEPT !.queue = node, !.open = n],
              from |-> s.from + n]

LeafLoop(tree, from, length) ==
    LET Turn(s) == LeafTurn(length, s)
    IN  Loop(Turn, [tree |-> tree, from |-> from], length \div Chunk + 1).tree

\* Mutant: a leaf that the zero fills is sealed once more when the tree is closed.
EndOfMessageTwice(c) ==
    LET node == SkipByte(c.queue)
    IN  IF c.open = 0 THEN [c EXCEPT !.queue = OneZero, !.open = 1]
        ELSE IF c.open + 1 = Chunk THEN SealedInto(c, node)
        ELSE [c EXCEPT !.queue = node, !.open = @ + 1]

\* The zero that ends the message, in the open leaf, which it may fill, or alone.
EndOfMessage(c) ==
    LET node == SkipByte(c.queue)
    IN  IF c.open = 0 THEN [c EXCEPT !.queue = OneZero, !.open = 1]
        ELSE IF c.open + 1 = Chunk THEN [SealedInto(c, node) EXCEPT !.open = 0]
        ELSE [c EXCEPT !.queue = node, !.open = @ + 1]

CloseTree(c) ==
    LET d == IF c.open = 0 THEN c ELSE SealedInto(c, c.queue)
        node == StockAbsorb(d.final, encbuf(d.blocks - 1))
    IN  XorAt(node, node.byteIOIndex, Byte(6))

CloseShort(node) ==
    IF node.byteIOIndex + 1 = Rate THEN XorAt(KeccakP1600_Permute_12rounds(node), 0, Byte(7))
    ELSE XorAt(node, node.byteIOIndex + 1, Byte(7))

StockKangarooTwelve(length) ==
    LET len == IF Chunk < length THEN Chunk ELSE length
        first == StockAbsorb(Fresh, Message(0, len))
        tree == [final |-> MarkFirstChunk(first), queue |-> Garbage, blocks |-> 1, open |-> 0]
        last == IF len < Chunk THEN CloseShort(first)
                ELSE CloseTree(EndOfMessage(LeafLoop(tree, len, length)))
    IN  KeccakP1600_Permute_12rounds(XorAt(last, Rate - 1, Byte(128)))

-----------------------------------------------------------------------------
\* One call on a node that may hold data already; queue remembers it.
Absorb ==
    /\ pc = "absorb"
    /\ final' = StockAbsorb(queue, Message(0, total))
    /\ pc' = "absorbed"
    /\ UNCHANGED <<total, pos, queue, blockNumber, queueAbsorbedLen>>

-----------------------------------------------------------------------------
(* Properties.                                                             *)

\* What absorbing is: byte i goes to position byteIOIndex + i of the rates that
\* follow each other, and a full rate is permuted.
Bytewise(node, data) ==
    LET at == node.byteIOIndex
        full == (at + Len(data)) \div Rate
        RateAt(k) == [j \in 0 .. Rate - 1 |->
            LET old == IF k = 0 THEN node.cur[j] ELSE {}
                i == k * Rate + j - at + 1
            IN  IF i \in 1 .. Len(data) THEN SymDiff(old, data[i]) ELSE old]
    IN  [past |-> node.past \o [k \in 1 .. full |-> RateAt(k - 1)],
         cur |-> RateAt(full),
         byteIOIndex |-> (at + Len(data)) % Rate]

\* From every position, within a lane or at its start, the lane loops of the reference
\* and of the port absorb as byte after byte would: it does not matter how a message
\* is cut into calls.
AbsorbIsBytewise ==
    pc = "absorbed" =>
        /\ final = Bytewise(queue, Message(0, total))
        /\ final = KangarooTwelve_F_Absorb(queue, Message(0, total))

\* The generator's hash and the guest's are the same function of every length.
StockHashIsK12 ==
    pc = "done" =>
        LET node == StockKangarooTwelve(total)
        IN  [past |-> node.past, cur |-> node.cur] = Reference(total)
=============================================================================
