----------------------------- MODULE ScalarArith -----------------------------
(***************************************************************************)
(* Arithmetic on the scalars of FourQ: modulo the order of the subgroup,   *)
(* in Montgomery form, and the three ways the multiplications take a       *)
(* scalar apart: decompose, wNAF_recode and the comb of ecc_mul_fixed.     *)
(* A scalar is the number its four words hold; the bit that the comb       *)
(* carries from word to word by hand goes from word to word here.          *)
(***************************************************************************)
EXTENDS Integers, SequencesExt

CONSTANTS
    R,                      \* 2^256, past the scalars of four words
    Limb, Limbs,            \* 2^64 and 4: the words of a scalar
    curve_order,            \* the prime order of the subgroup, odd
    Montgomery_Rprime,      \* R^2 modulo the order
    SMALL_R_PRIME,          \* -1 / order modulo R
    Half,                   \* 2^64, past one word
    HalfBits,               \* 64
    ell,                    \* the four multipliers of decompose
    B,                      \* its lattice, a row per multiplier, modulo Half
    C,                      \* its offset
    Lambda,                 \* the multiplier each endomorphism amounts to
    Rows, Columns           \* of the comb: 5 and 50

ASSUME ScalarAssumption ==
    /\ R \in Nat /\ curve_order \in 3 .. R \div 2 /\ curve_order % 2 = 1
    /\ Montgomery_Rprime = (R * R) % curve_order
    /\ SMALL_R_PRIME \in 0 .. R - 1 /\ (curve_order * SMALL_R_PRIME + 1) % R = 0
    /\ Half = 2 ^ HalfBits
    /\ Len(C) = Len(ell) /\ Len(B) = Len(ell) /\ Len(Lambda) = Len(ell)

ASSUME LimbAssumption ==
    /\ Limb \in Nat \ {0, 1} /\ Limbs \in Nat \ {0}
    /\ Limb ^ 0 = 1 /\ Limb ^ Limbs = R
    /\ \A n \in 0 .. Limbs - 1 : Limb ^ n \in Nat /\ Limb ^ (n + 1) = Limb * Limb ^ n

\* Arithmetic, and no choice: what the prover is not told of powers of two.
ASSUME PowersAssumption ==
    /\ HalfBits \in Nat /\ 2 ^ 0 = 1
    /\ \A n \in 0 .. HalfBits : 2 ^ n \in Nat /\ 2 ^ (n + 1) = 2 * 2 ^ n

\* The comb, of two rows at least, has two bits more than the order.
ASSUME CombAssumption ==
    /\ Rows \in Nat \ {0, 1} /\ Columns \in Nat \ {0}
    /\ 4 * curve_order <= 2 ^ (Rows * Columns)
    /\ \A n \in 0 .. Rows * Columns : 2 ^ n \in Nat /\ 2 ^ (n + 1) = 2 * 2 ^ n

Scalar == 0 .. R - 1

-----------------------------------------------------------------------------
(* Modulo the order *)

\* Mutant: without the final subtraction of the order.
MontgomeryUnreduced(ma, mb) ==
    LET product == ma * mb
        Q == ((product % R) * SMALL_R_PRIME) % R
    IN  ((product + Q * curve_order) \div R) % R

\* The product of ma and mb divided by R.
Montgomery_multiply_mod_order(ma, mb) ==
    LET product == IF mb = 1 THEN ma ELSE ma * mb
        Q == ((product % R) * SMALL_R_PRIME) % R
        sum == product + Q * curve_order
        add_carry == sum \div (R * R)
        high == (sum \div R) % R
        borrow == IF high < curve_order THEN 1 ELSE 0
        difference == (high - curve_order) % R
    IN  IF add_carry # borrow THEN (difference + curve_order) % R ELSE difference

\* A scalar modulo the order: into Montgomery form and out of it.
Reduced(k) ==
    Montgomery_multiply_mod_order(Montgomery_multiply_mod_order(k, Montgomery_Rprime), 1)

\* sign's k * h, h being reduced already.
Product(k, h) ==
    Montgomery_multiply_mod_order(
        Montgomery_multiply_mod_order(
            Montgomery_multiply_mod_order(k, Montgomery_Rprime),
            Montgomery_multiply_mod_order(h, Montgomery_Rprime)), 1)

\* Mutant: the borrow is dropped.
DifferenceWraps(r, kh) == (r - kh) % R

\* sign's r - k * h: a borrow adds the order back.
Difference(r, kh) ==
    IF r < kh THEN (((r - kh) % R) + curve_order) % R ELSE r - kh

-----------------------------------------------------------------------------
(* ecc_mul_double *)

Parts == 1 .. Len(ell)

mul_truncate(s, c) == ((s * c) \div R) % Half

\* Mutant: the row is subtracted from the first coefficient only.
decomposeFirst(k) ==
    LET a == [i \in Parts |-> mul_truncate(k, ell[i])]
        row[n \in 0 .. Len(ell), j \in Parts] ==
            IF n = 0 THEN C[j] + (IF j = 1 THEN k ELSE 0)
            ELSE row[n - 1, j] + a[n] * B[n][j]
        scalars == [j \in Parts |-> row[Len(ell), j] % Half]
    IN  IF scalars[1] % 2 = 0
        THEN [scalars EXCEPT ![1] = (@ - B[Len(ell)][1]) % Half]
        ELSE scalars

\* A scalar as a combination of the endomorphisms with one-word coefficients.
decompose(k) ==
    LET a == [i \in Parts |-> mul_truncate(k, ell[i])]
        row[n \in 0 .. Len(ell), j \in Parts] ==
            IF n = 0 THEN C[j] + (IF j = 1 THEN k ELSE 0)
            ELSE row[n - 1, j] + a[n] * B[n][j]
        scalars == [j \in Parts |-> row[Len(ell), j] % Half]
    IN  IF scalars[1] % 2 = 0
        THEN [j \in Parts |-> (scalars[j] - B[Len(ell)][j]) % Half]
        ELSE scalars

\* What the coefficients amount to on the subgroup.
Combination(scalars) == SumFunction([j \in Parts |-> Lambda[j] * scalars[j]])

\* The digits of a scalar, lowest first: zero, or odd and below 2^(w-1) in size.
wNAF(w) ==
    LET zeros == [i \in 1 .. w - 1 |-> 0]
        low(s) == s % 2 ^ w
        digit(s) == IF low(s) > 2 ^ (w - 1) - 1 THEN low(s) - 2 ^ w ELSE low(s)
        rest(s) == (s \div 2 ^ w) + (IF digit(s) < 0 THEN 1 ELSE 0)
        naf[s \in 0 .. Half - 1] ==
            IF s = 0 THEN <<>>
            ELSE IF s % 2 = 0 THEN <<0>> \o naf[s \div 2]
            ELSE IF rest(s) = 0 THEN <<digit(s)>>
            ELSE <<digit(s)>> \o zeros \o naf[rest(s)]
    IN  naf

\* Mutant: an array of 64, without the digit that a carry out of the top makes.
wNAF_recodeShort(scalar, w) ==
    LET digits == wNAF(w)[scalar]
    IN  [i \in 0 .. HalfBits |-> IF i < Len(digits) /\ i < HalfBits THEN digits[i + 1] ELSE 0]

\* Index i of the array of 65, which setMem clears past the last digit.
wNAF_recode(scalar, w) ==
    LET digits == wNAF(w)[scalar]
    IN  [i \in 0 .. HalfBits |-> IF i < Len(digits) THEN digits[i + 1] ELSE 0]

-----------------------------------------------------------------------------
(* ecc_mul_fixed *)

\* Mutant: the scalar is taken as it is.
OddScalarAsIs(k) == Reduced(k)

\* The scalar made odd by adding the order.
OddScalar(k) ==
    LET s == Reduced(k) IN IF s % 2 = 0 THEN (s + curve_order) % R ELSE s

\* Word n of a scalar, lowest first.
WordOf(v, n) == (v \div Limb ^ n) % Limb

\* Mutant: the second word is not told that the first became zero.
AddBitLow(v, temp) ==
    LET first == (WordOf(v, 0) + temp) % Limb
    IN  v - WordOf(v, 0) + first

\* A bit is added word by word: a word that becomes zero passes it on.
AddBit(v, temp) ==
    LET carry[n \in 0 .. Limbs] ==
            IF n = 0 THEN temp
            ELSE IF (WordOf(v, n - 1) + carry[n - 1]) % Limb = 0 THEN carry[n - 1] ELSE 0
        sum[n \in 0 .. Limbs] ==
            IF n = 0 THEN 0
            ELSE sum[n - 1] + ((WordOf(v, n - 1) + carry[n - 1]) % Limb) * Limb ^ (n - 1)
    IN  sum[Limbs]

\* The sign row, -1 or 0 for columns below the last, 0 for the last; then Rows - 1
\* rows of bits, each subtracting what a negative column turns it into.
comb(k) ==
    LET half == OddScalar(k) \div 2
        sign == [i \in 0 .. Columns - 1 |->
                    IF i = Columns - 1 THEN 0 ELSE ((half \div 2 ^ i) % 2) - 1]
        scalar[i \in Columns .. Rows * Columns] ==
            IF i = Columns THEN half \div 2 ^ (Columns - 1)
            ELSE LET bit == scalar[i - 1] % 2
                     temp == IF sign[(i - 1) % Columns] = -1 THEN bit ELSE 0
                 IN  AddBit(scalar[i - 1] \div 2, temp)
    IN  [digits |-> [i \in 0 .. Rows * Columns - 1 |->
                        IF i < Columns THEN sign[i] ELSE scalar[i] % 2],
         left |-> scalar[Rows * Columns]]
=============================================================================
