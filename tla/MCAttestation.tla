--------------------------- MODULE MCAttestation ---------------------------
(***************************************************************************)
(* Two computors, quorum two, c0 Byzantine: 2 * 2 - 2 = 2 > 1.             *)
(***************************************************************************)
EXTENDS Attestation, TLC

CONSTANTS c0, c1, A, B

Tx(source, type, tick, items, body) ==
    [source |-> source, dest_is_zero |-> TRUE, amount |-> 0, tick |-> tick,
     input_type |-> type, input |-> [items |-> items, body |-> body]]

Computor == <<c0, c1>>
MCPacket == {[epoch |-> 1, pubkeys |-> 0 :> c0 @@ 1 :> c1]}

Item(q, r, i) == CommitItem(q, K12(r), KnowledgeProof(r, i))

\* c1 answers both queries of tick 1 with A in one transaction; c0 also tries B.
MCTxs ==
    {Tx(c0, QUERY_INPUT_TYPE, 1, {}, <<>>),
     Tx(c0, REVEAL_INPUT_TYPE, 2, {}, <<2, A>>),
     Tx(c0, REVEAL_INPUT_TYPE, 2, {}, <<2, B>>),
     Tx(c0, REVEAL_INPUT_TYPE, 2, {}, <<3, A>>),
     Tx(c0, COMMIT_INPUT_TYPE, 2, {Item(2, A, 0), Item(2, B, 0), Item(3, A, 0)}, <<>>),
     Tx(c1, COMMIT_INPUT_TYPE, 2, {Item(2, A, 1), Item(3, A, 1)}, <<>>),
     Tx(c1, COMMIT_INPUT_TYPE, 2, {Item(2, B, 1)}, <<>>)}

MCCalldata == {[epoch |-> 1, query |-> q, digest |-> K12(A)] : q \in {2, 3}}
                  \cup {[epoch |-> 1, query |-> 2, digest |-> K12(B)]}
=============================================================================
