--------------------------- MODULE MCQuorumGuest ---------------------------
(***************************************************************************)
(* Instances of QuorumGuest for TLC.                                       *)
(***************************************************************************)
EXTENDS QuorumGuest, TLC

CONSTANTS c0, c1, c2, c3, user, A, B

\* Query id 2 belongs to tick 1, query id 3 to the same tick, query id 4 to tick 2.
Tx(source, type, tick, input) ==
    [source |-> source, dest_is_zero |-> TRUE, amount |-> 0, tick |-> tick,
     input_type |-> type, input |-> input]
Input(items, body) == [items |-> items, body |-> body]
NoBody == <<>>

Item(q, r, i) == CommitItem(q, K12(r), KnowledgeProof(r, i))
Commit(source, i, q, r) == Tx(source, COMMIT_INPUT_TYPE, 2, Input({Item(q, r, i)}, NoBody))
Query(tick) == Tx(user, QUERY_INPUT_TYPE, tick, Input({}, NoBody))
Reveal(source, q, r) == Tx(source, REVEAL_INPUT_TYPE, 2, Input({}, <<q, r>>))

Computor == <<c0, c1, c2, c3>>
MCList == [i \in 0 .. 3 |-> Computor[i + 1]]
MCPacket == {[epoch |-> 1, pubkeys |-> MCList]}

\* Agreement: every computor may commit to either reply, c0 is Byzantine.
MCRivalTxs ==
    {Commit(MCList[i], i, 2, r) : i \in 0 .. 3, r \in {A, B}}
        \cup {Query(1), Reveal(c0, 2, A), Reveal(c0, 2, B)}

\* Soundness: c1 and c2 commit well, Byzantine c0 signs a commit that misses one
\* condition each; three computors, quorum two.  The list of epoch 1 may have c0 and
\* c1 in either order, so that a knowledge proof copied from index 1 is c0's own in
\* one of them.  The list of epoch 0 and the one with c0 twice must never be used.
MCTrio(a, b, c) == 0 :> a @@ 1 :> b @@ 2 :> c
MCHostilePackets ==
    {[epoch |-> 0, pubkeys |-> MCTrio(c0, c1, c2)],
     [epoch |-> 1, pubkeys |-> MCTrio(c0, c1, c2)],
     [epoch |-> 1, pubkeys |-> MCTrio(c1, c0, c2)],
     [epoch |-> 1, pubkeys |-> MCTrio(c1, c0, c0)]}

Good == Commit(c0, 0, 2, A)
MCHostileTxs ==
    {Query(1),
     Reveal(c2, 2, A), Reveal(user, 2, A),
     Commit(c1, 1, 2, A), Commit(c2, 2, 2, A),
     [Good EXCEPT !.input_type = REVEAL_INPUT_TYPE],
     [Good EXCEPT !.dest_is_zero = FALSE],
     [Good EXCEPT !.amount = 1],
     [Good EXCEPT !.tick = 1],
     [Good EXCEPT !.input.items = {Item(3, A, 0), CommitItem(2, K12(B), KnowledgeProof(A, 0))}],
     Commit(c0, 1, 2, A)}
=============================================================================
