----------------------------- MODULE FieldArith -----------------------------
(***************************************************************************)
(* Arithmetic modulo p = 2^127 - 1 and in GF(p^2), as                      *)
(* riscv_fourq_verify.c does it on pairs of 64-bit words.                  *)
(*                                                                         *)
(* A felm_t is the number its two words hold.  The functions keep it in    *)
(* 0 .. p, so that zero has two representations, 0 and p, until mod1271    *)
(* chooses one.  An f2elm_t is a pair <<real, imaginary>>.                 *)
(***************************************************************************)
EXTENDS Integers, Sequences

CONSTANTS
    Word,          \* 2^64, past one word
    WordBits,      \* 64
    ZKQ_BIGINT2    \* whether products come from the precompile

ASSUME FieldAssumption ==
    /\ WordBits \in Nat \ {0, 1}
    /\ Word \in Nat /\ Word > 2 /\ Word % 2 = 0
    /\ Word = 2 ^ WordBits
    /\ ZKQ_BIGINT2 \in BOOLEAN

Double == Word * Word

\* The bit above the element: 2^127 = 1 modulo p.
Top == Double \div 2

p == Top - 1

felm_t == 0 .. p

f2elm_t == felm_t \X felm_t

-----------------------------------------------------------------------------
(* GF(p) *)

\* The last two lines of every function: the bit above 2^127 is added back below.
Fold(v) == ((v % Top) + (v \div Top)) % Double

mod1271(a) ==
    LET d == (a - p) % Double
    IN  IF d >= Top THEN (d + p) % Double ELSE d

fpadd1271(a, b) == Fold((a + b) % Double)

fpsub1271(a, b) ==
    LET d == (a - b) % Double
    IN  ((d % Top) - (d \div Top)) % Double

fpneg1271(a) == (p - a) % Double

\* From the three columns of the product: words 0 and 1, 1 and 2, 2 and 3.
FoldColumns(low, mid, high) ==
    LET carried == (2 * high + (mid \div (Word \div 2))) % Double
    IN  Fold((low + Word * (mid % (Word \div 2)) + carried) % Double)

fpmulWords(a, b) ==
    LET a0 == a % Word  a1 == a \div Word
        b0 == b % Word  b1 == b \div Word
        low == a0 * b0
        once == (a0 * b1 + (low \div Word)) % Double
        mid == (once + a1 * b0) % Double
    IN  FoldColumns(low % Word, mid, a1 * b1)

fpsqrWords(a) ==
    LET a0 == a % Word  a1 == a \div Word
        low == a0 * a0
        once == (a0 * a1 + (low \div Word)) % Double
    IN  FoldColumns(low % Word, (a0 * a1 + once) % Double, a1 * a1)

\* Mutant: only the words above the second are looked at.
takeLowWords(r) == r \div Double = 0

\* What take lets pass of a result, which the host supplies; on anything else it panics.
take(r) ==
    /\ r \div Double = 0
    /\ \/ r \div Word < (Word \div 2) - 1
       \/ r \div Word = (Word \div 2) - 1 /\ r % Word # Word - 1

\* The precompile shows a result to be congruent to v, no more.
Supplied(v) == {r \in 0 .. 2 * Double - 1 : r % p = v % p /\ take(r)}

\* The one number that take lets pass for a product.
zkq_fpmul1271(a, b) == (a * b) % p

fpmul1271(a, b) == IF ZKQ_BIGINT2 THEN zkq_fpmul1271(a, b) ELSE fpmulWords(a, b)

fpsqr1271(a) == IF ZKQ_BIGINT2 THEN zkq_fpmul1271(a, a) ELSE fpsqrWords(a)

\* a ^ (2^125 - 1); the addition chain is ExponentChain's.
fpexp1251(a) ==
    LET ones[n \in 1 .. 2 * WordBits - 3] ==
            IF n = 1 THEN a ELSE fpmul1271(a, fpsqr1271(ones[n - 1]))
    IN  ones[2 * WordBits - 3]

zkq_fpinv1271(a) == CHOOSE c \in 1 .. p - 1 : (a * c) % p = 1

fpinv1271(a) ==
    IF ZKQ_BIGINT2
    THEN LET t == mod1271(a) IN IF t = 0 THEN 0 ELSE zkq_fpinv1271(t)
    ELSE fpmul1271(a, fpsqr1271(fpsqr1271(fpexp1251(a))))

\* One half of fp2div1271, and decode's x0/2: an odd value gets p added first.
fpdiv1271(a) == ((IF a % 2 = 1 THEN a + p ELSE a) % Double) \div 2

-----------------------------------------------------------------------------
(* GF(p^2) *)

fp2add1271(a, b) == <<fpadd1271(a[1], b[1]), fpadd1271(a[2], b[2])>>

fp2sub1271(a, b) == <<fpsub1271(a[1], b[1]), fpsub1271(a[2], b[2])>>

fp2neg1271(a) == <<fpneg1271(a[1]), fpneg1271(a[2])>>

fp2div1271(a) == <<fpdiv1271(a[1]), fpdiv1271(a[2])>>

zkq_fp2mul1271(a, b) ==
    <<(a[1] * b[1] - a[2] * b[2]) % p, (a[1] * b[2] + a[2] * b[1]) % p>>

fp2mul1271(a, b) ==
    IF ZKQ_BIGINT2 THEN zkq_fp2mul1271(a, b)
    ELSE LET t1 == fpmul1271(a[1], b[1])
             t2 == fpmul1271(a[2], b[2])
             t3 == fpmul1271(fpadd1271(a[1], a[2]), fpadd1271(b[1], b[2]))
         IN  <<fpsub1271(t1, t2), fpsub1271(fpsub1271(t3, t1), t2)>>

fp2sqr1271(a) ==
    IF ZKQ_BIGINT2 THEN zkq_fp2mul1271(a, a)
    ELSE LET t3 == fpmul1271(a[1], a[2])
         IN  <<fpmul1271(fpadd1271(a[1], a[2]), fpsub1271(a[1], a[2])), fpadd1271(t3, t3)>>

\* 2a - b
fp2addsub1271(a, b) == fp2sub1271(fp2add1271(a, a), b)
=============================================================================
