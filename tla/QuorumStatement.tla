--------------------------- MODULE QuorumStatement ---------------------------
(***************************************************************************)
(* What the proof promises, with no checking program in sight: a journal   *)
(* can only come to exist for a statement that a quorum backs.             *)
(***************************************************************************)
EXTENDS OracleNetwork

VARIABLE journals       \* journals of valid proofs: [epoch, query, digest]

stVars == <<signedPackets, signedTxs, journals>>

Journal == [epoch : Nat, query : QueryId, digest : {K12(r) : r \in Reply}]

StInit == NetInit /\ journals = {}

Prove(j) ==
    /\ Backed(j.epoch, j.query, j.digest)
    /\ journals' = journals \cup {j}
    /\ UNCHANGED netVars

StNext ==
    \/ NetNext /\ UNCHANGED journals
    \/ \E p \in signedPackets, q \in QueryId, r \in Reply :
           Prove([epoch |-> p.epoch, query |-> q, digest |-> K12(r)])

StSpec == StInit /\ [][StNext]_stVars
=============================================================================
