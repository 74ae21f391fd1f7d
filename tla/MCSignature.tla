---------------------------- MODULE MCSignature ----------------------------
(***************************************************************************)
(* FourQ and SchnorrQ over the field of 49 elements: p = 7, words of two   *)
(* bits.  With d = 2 + i the curve has 52 points: a cofactor of 4, which   *)
(* divides 392, and a subgroup of order 13.  Two endomorphisms take the    *)
(* place of the four, 1 and 5, whose square is -1 modulo 13.  Scalars have *)
(* six bits and their halves four.  A behaviour is one multiplication or   *)
(* one signature.  Products are the precompile's, as in the guest; those of *)
(* the words are MCArith's.                                                *)
(***************************************************************************)
EXTENDS SchnorrQ

VARIABLE part

signatureVars == <<mulVars, schnorrVars, part>>

MCd == <<2, 1>>

MCGenerator == Point(<<1, 0>>, <<1, 4>>)

MCell == <<4, 14>>

\* -(-2, 3) and -(5, -1), which lie in the lattice of a + 5 b = 0 modulo 13.
MCB == <<<<2, 13>>, <<11, 1>>>>

MCC == <<1, 5>>

MCLambda == <<1, 5>>

\* Scalars at the edges against every scalar, every point, points off the curve, and a
\* coordinate that is not reduced.
MCEdges == {0, 12, 13, 63}

MCDoubleCalls ==
    (0 .. 63) \X MCEdges \X {TimesPoint(4, Generator)}
    \cup MCEdges \X (0 .. 63) \X {TimesPoint(7, Generator)}
    \cup {12} \X {5, 63} \X (Curve \cup {Point(<<1, 1>>, <<1, 0>>), Point(<<0, 0>>, <<2, 0>>)})
    \cup {5} \X {7} \X {Point(<<7, 3>>, <<5, 3>>)}

MCFixedCalls == 0 .. 63

MCPrivateKeys == 0 .. 63

MCNonces == {0, 1, 12, 13, 63}

MCHashes == {1, 13, 14}

\* Every encoding, the aliases with p for 0 included.
MCSubmissions == Encoding \X {0, 1, 2, 12, 13, 63}

MCInit ==
    \/ part = "multiplication" /\ MulInit /\ SchnorrInit
    \/ /\ part = "signature" /\ SchnorrInit
       /\ call = [op |-> "fixed", k |-> 0, l |-> 0, Q |-> Neutral]
       /\ pc = "start" /\ T = point_setup(Neutral) /\ i = 0 /\ digits = <<>>
       /\ Q_table = <<>> /\ result = [ok |-> FALSE, point |-> Neutral]

MCNext ==
    \/ part = "multiplication" /\ MulNext /\ UNCHANGED <<schnorrVars, part>>
    \/ part = "signature" /\ SchnorrNext /\ UNCHANGED <<mulVars, part>>

MCSpec == MCInit /\ [][MCNext]_signatureVars
=============================================================================
