---------------------------- MODULE OracleNetwork ----------------------------
(***************************************************************************)
(* The signed statements the guest reads, and who may come to sign them.   *)
(*                                                                         *)
(* A Qubic transaction is a record of the fields `parse_tx` extracts       *)
(* (methods/guest/src/main.rs).  Its input is kept as the two readings the *)
(* guest makes of the same bytes: the set of 72-byte commit items, and the *)
(* pair queryId | reply of a reveal.  K12 is symbolic and collision free;  *)
(* a signature is valid only for a statement its signer really signed.     *)
(*                                                                         *)
(* The arbitrator, the users and the computors run outside this repository *)
(* (Qubic core): their actions are the environment, constrained only by    *)
(* the trust assumptions: a computor that is not Byzantine gives one       *)
(* answer, and an arbitrator that does not equivocate signs one list.      *)
(***************************************************************************)
EXTENDS Integers, FiniteSets

CONSTANTS
    Key,           \* public keys that occur: computors, users
    Byzantine,     \* computors that may sign anything, several times
    Equivocates,   \* whether the arbitrator may sign several lists for one epoch
    N,             \* NUMBER_OF_COMPUTORS (676)
    Quorum,        \* QUORUM (451)
    Packet,        \* the Computors packets the arbitrator may come to sign
    Signable,      \* the transactions some key may come to sign
    QueryId,       \* query ids: tick * IdsPerTick + index in the tick
    IdsPerTick,    \* 2^31
    Reply          \* oracle replies

Index == 0 .. N - 1

QUERY_INPUT_TYPE  == 10
COMMIT_INPUT_TYPE == 6
REVEAL_INPUT_TYPE == 7

\* K12(reply) and K12(reply | computor index as u16 LE).
K12(r) == [reply |-> r]
KnowledgeProof(r, i) == [reply |-> r, index |-> i]

\* One 72-byte item of a commit transaction: queryId | replyDigest | knowledge proof.
CommitItem(q, d, p) == [query |-> q, digest |-> d, proof |-> p]

\* queryId >> 31
QueryTick(q) == q \div IdsPerTick

\* The list of a packet names every computor once.
Injective(list) == \A i, j \in DOMAIN list : list[i] = list[j] => i = j

ASSUME NetworkAssumption ==
    /\ IsFiniteSet(Key)
    /\ Equivocates \in BOOLEAN
    /\ N \in Nat \ {0}
    /\ Quorum \in 1 .. N
    /\ IdsPerTick \in Nat \ {0}
    /\ QueryId \subseteq Nat
    /\ \A p \in Packet : p.epoch \in Nat /\ p.pubkeys \in [Index -> Key]
    /\ \A tx \in Signable : tx.source \in Key /\ tx.tick \in Nat

-----------------------------------------------------------------------------
VARIABLES
    signedPackets,   \* packets carrying a valid arbitrator signature
    signedTxs        \* transactions carrying a valid signature of their source

netVars == <<signedPackets, signedTxs>>

NetInit == signedPackets = {} /\ signedTxs = {}

\* The arbitrator is a trust root.  That it signs one list per epoch is not proved to
\* anybody (SECURITY.md): what rests on it says so.
ArbitratorSigns(p) ==
    /\ Equivocates \/ \A o \in signedPackets : o.epoch # p.epoch
    /\ signedPackets' = signedPackets \cup {p}
    /\ UNCHANGED signedTxs

\* What transaction tx commits its source to, when it is a commit.
Commitments(tx) == IF tx.input_type = COMMIT_INPUT_TYPE THEN tx.input.items ELSE {}

Conflict(tx, other) ==
    /\ tx.source = other.source
    /\ \E a \in Commitments(tx), b \in Commitments(other) :
           a.query = b.query /\ a.digest # b.digest

\* A correct computor never commits to two digests for one query.
TxSigned(tx) ==
    /\ tx.source \notin Byzantine => /\ ~ Conflict(tx, tx)
                                     /\ \A o \in signedTxs : ~ Conflict(tx, o) /\ ~ Conflict(o, tx)
    /\ signedTxs' = signedTxs \cup {tx}
    /\ UNCHANGED signedPackets

NetNext ==
    \/ \E p \in Packet : ArbitratorSigns(p)
    \/ \E tx \in Signable : TxSigned(tx)

-----------------------------------------------------------------------------
\* The i-th computor of `list` signed a commit that Qubic's oracle engine accepts
\* for reply r of query q: addressed to nobody, worth nothing, later than the
\* query, with the item of its own index.
Committed(list, i, q, r) ==
    \E tx \in signedTxs :
        /\ tx.source = list[i]
        /\ tx.input_type = COMMIT_INPUT_TYPE
        /\ tx.dest_is_zero
        /\ tx.amount = 0
        /\ tx.tick > QueryTick(q)
        /\ CommitItem(q, K12(r), KnowledgeProof(r, i)) \in tx.input.items

\* A user put query q on the network.
Asked(q) ==
    \E tx \in signedTxs :
        /\ tx.input_type = QUERY_INPUT_TYPE
        /\ tx.dest_is_zero
        /\ tx.tick = QueryTick(q)

\* A computor of the list published reply r to query q.
Revealed(list, q, r) ==
    \E tx \in signedTxs :
        /\ tx.input_type = REVEAL_INPUT_TYPE
        /\ tx.dest_is_zero
        /\ tx.amount = 0
        /\ \E i \in Index : list[i] = tx.source
        /\ tx.input.body = <<q, r>>

\* What SECURITY.md says a proof with this journal states.
Backed(e, q, d) ==
    /\ e # 0
    /\ Asked(q)
    /\ \E p \in signedPackets, r \in Reply, S \in SUBSET Index :
        /\ p.epoch = e
        /\ Injective(p.pubkeys)
        /\ d = K12(r)
        /\ Revealed(p.pubkeys, q, r)
        /\ Cardinality(S) >= Quorum
        /\ \A i \in S : Committed(p.pubkeys, i, q, r)
=============================================================================
