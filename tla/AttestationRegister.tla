------------------------- MODULE AttestationRegister -------------------------
(***************************************************************************)
(* What the chain promises a consumer: a write-once map from (digest,      *)
(* epoch) to the query the digest answers, written only for answers that a *)
(* quorum backs.                                                           *)
(***************************************************************************)
EXTENDS OracleNetwork

VARIABLE register       \* [subset of digest x epoch pairs -> QueryId]

RegInit == NetInit /\ register = <<>>

Record(d, e, q) ==
    /\ <<d, e>> \notin DOMAIN register
    /\ Backed(e, q, d)
    /\ register' = [x \in DOMAIN register \cup {<<d, e>>} |->
                        IF x = <<d, e>> THEN q ELSE register[x]]
    /\ UNCHANGED netVars

RegNext ==
    \/ NetNext /\ UNCHANGED register
    \/ \E r \in Reply, p \in signedPackets, q \in QueryId : Record(K12(r), p.epoch, q)

RegSpec == RegInit /\ [][RegNext]_<<signedPackets, signedTxs, register>>
=============================================================================
