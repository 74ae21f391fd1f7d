------------------------------ MODULE SchnorrQ ------------------------------
(***************************************************************************)
(* SchnorrQ: key generation and signing as the fixture generator calls     *)
(* them in stock_qubic.c, verification as the guest does it.  The          *)
(* multiplications are what FourQMul shows them to compute; KangarooTwelve *)
(* answers with any scalar, and the same one when asked again.  The        *)
(* message digest is fixed.                                                *)
(***************************************************************************)
EXTENDS FourQMul

CONSTANTS
    PrivateKeys, Nonces,     \* what the hashes of a subseed may be
    Hashes,                  \* and the hash of R, the key and the digest
    Submissions              \* what others may submit: <<key, scalar>>

VARIABLES
    phase,
    privateKey, publicKey,
    h,             \* KangarooTwelve of (R, publicKey, messageDigest)
    signature,     \* [R, s]
    accepted,      \* hash and scalar that were accepted before they were altered
    verdict

schnorrVars == <<phase, privateKey, publicKey, h, signature, accepted, verdict>>

ecc_mul_fixed(k) == TimesPoint(Reduced(k), Generator)

ecc_mul_double(k, l, Q) == DoubleProduct(k, l, Point(Exact(Q.x), Exact(Q.y)))

-----------------------------------------------------------------------------
(* The conditions of verify, in its order. *)

SpareBitsClear(key, sig) == key.spare = 0 /\ sig.R.spare = 0

\* Mutant: the test of the scalar's length that verify made before.
CanonicalLength(s) == \A n \in 0 .. Limb : 2 ^ n > curve_order => s < 2 ^ n

\* Word by word from the highest: below the order.
Canonical(s) ==
    \E n \in 0 .. Limbs - 1 :
        /\ WordOf(s, n) < WordOf(curve_order, n)
        /\ \A m \in n + 1 .. Limbs - 1 : WordOf(s, m) = WordOf(curve_order, m)

\* (.., 0, 0, 0) but for the sign: the first word is not looked at.
LooksNeutral(key) == key.y[1] \div Word = 0 /\ key.y[2] = 0

\* Mutant: only the neutral point is refused.
LowOrderNeutral(A) == A.x = <<0, 0>>

LowOrder(A) ==
    LET x == cofactor_clearing(point_setup(A)).x
    IN  mod1271(x[1]) = 0 /\ mod1271(x[2]) = 0

Verified(key, sig, hash) ==
    /\ SpareBitsClear(key, sig)
    /\ Canonical(sig.s)
    /\ ~LooksNeutral(key)
    /\ LET A == decode(key)
       IN  /\ A.ok
           /\ ~LowOrder(A.point)
           /\ encode(ecc_mul_double(sig.s, hash, A.point)) = sig.R

-----------------------------------------------------------------------------
NoEncoding == encode(Neutral)

SchnorrInit ==
    /\ phase = "start"
    /\ privateKey = 0 /\ publicKey = NoEncoding
    /\ h = 0
    /\ signature = [R |-> NoEncoding, s |-> 0]
    /\ accepted = [h |-> 0, s |-> 0]
    /\ verdict = FALSE

getPublicKey ==
    /\ phase = "start"
    /\ \E k \in PrivateKeys :
        /\ privateKey' = k
        /\ publicKey' = encode(ecc_mul_fixed(k))
    /\ phase' = "keys"
    /\ UNCHANGED <<h, signature, accepted, verdict>>

sign ==
    /\ phase = "keys"
    /\ \E r \in Nonces, hash \in Hashes :
        /\ h' = hash
        /\ signature' = [R |-> encode(ecc_mul_fixed(r)),
                         s |-> Difference(Reduced(r), Product(privateKey, Reduced(hash)))]
    /\ phase' = "signed"
    /\ UNCHANGED <<privateKey, publicKey, accepted, verdict>>

\* Any key and scalar, with the R that goes with them if there is one, or with any other.
submit ==
    /\ phase = "start"
    /\ \E submission \in Submissions, hash \in Hashes :
        /\ publicKey' = submission[1]
        /\ h' = hash
        /\ \E A \in {decode(submission[1])} :
            \/ /\ A.ok
               /\ signature' = [R |-> encode(ecc_mul_double(submission[2], hash, A.point)),
                                s |-> submission[2]]
            \/ signature' = [R |-> NoEncoding, s |-> submission[2]]
    /\ phase' = "submitted"
    /\ UNCHANGED <<privateKey, accepted, verdict>>

\* An accepted signature once more, with another scalar or for another message.
resubmit ==
    /\ phase \in {"own", "foreign"} /\ verdict
    /\ accepted' = [h |-> h, s |-> signature.s]
    /\ \/ \E s \in Scalar : signature' = [signature EXCEPT !.s = s] /\ UNCHANGED h
       \/ \E hash \in Hashes : h' = hash /\ UNCHANGED signature
    /\ phase' = "resubmitted"
    /\ verdict' = FALSE
    /\ UNCHANGED <<privateKey, publicKey>>

verify ==
    /\ phase \in {"signed", "submitted", "resubmitted"}
    /\ verdict' = Verified(publicKey, signature, h)
    /\ phase' = CASE phase = "signed" -> "own"
                  [] phase = "submitted" -> "foreign"
                  [] phase = "resubmitted" -> "again"
    /\ UNCHANGED <<privateKey, publicKey, h, signature, accepted>>

SchnorrNext == getPublicKey \/ sign \/ submit \/ resubmit \/ verify

SchnorrSpec == SchnorrInit /\ [][SchnorrNext]_schnorrVars

-----------------------------------------------------------------------------
(* What sign produces verify accepts, whatever the hashes are, unless the  *)
(* private key is a multiple of the order: the reductions of sign, which   *)
(* verify does not make, cancel out.                                       *)
SignedVerifies == phase = "own" => (verdict <=> privateKey % curve_order # 0)

(* A commitment, a key and a message have one scalar at most: no twin of   *)
(* an accepted signature is accepted.                                      *)
NoTwin == phase = "again" /\ verdict /\ h = accepted.h => signature.s = accepted.s

(* No signature is accepted for two messages, unless their hashes are      *)
(* equal modulo the order: no accepted key lies in the cofactor's          *)
(* subgroup, where the hash would not matter.                              *)
NoUniversalSignature == phase = "again" /\ verdict => (h - accepted.h) % curve_order = 0
=============================================================================
