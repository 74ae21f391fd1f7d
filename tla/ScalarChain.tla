---------------------------- MODULE ScalarChain ----------------------------
(***************************************************************************)
(* The scalar half of sign: nine calls on three registers of four words,   *)
(* read and written in place, from three hashes to the scalar of the       *)
(* signature.                                                              *)
(***************************************************************************)
EXTENDS ScalarArith

CONSTANT Triples      \* the hashes studied: <<k, r, h>>

ASSUME TriplesAssumption == Triples \subseteq Scalar \X Scalar \X Scalar

VARIABLES
    given,      \* the hashes k, r and h
    r, h, s,    \* the registers r, h and signature + 32
    call        \* the next call

scalarVars == <<given, r, h, s, call>>

ScalarInit ==
    /\ given \in Triples
    /\ r = given[2] /\ h = given[3] /\ s = 0
    /\ call = 1

\* The operands of the multiplication: a register, and a register or a constant.
Operand(name) ==
    CASE name = "k" -> given[1]
      [] name = "r" -> r
      [] name = "h" -> h
      [] name = "s" -> s
      [] name = "Rprime" -> Montgomery_Rprime
      [] name = "ONE" -> 1

Calls == << <<"r", "Rprime", "r">>, <<"r", "ONE", "r">>,
            <<"h", "Rprime", "h">>, <<"h", "ONE", "h">>,
            <<"k", "Rprime", "s">>, <<"h", "Rprime", "h">>,
            <<"s", "h", "s">>, <<"s", "ONE", "s">> >>

Multiplication ==
    /\ call <= Len(Calls)
    /\ LET c == Calls[call]
           product == Montgomery_multiply_mod_order(Operand(c[1]), Operand(c[2]))
       IN  /\ r' = IF c[3] = "r" THEN product ELSE r
           /\ h' = IF c[3] = "h" THEN product ELSE h
           /\ s' = IF c[3] = "s" THEN product ELSE s
    /\ call' = call + 1
    /\ UNCHANGED given

Subtraction ==
    /\ call = Len(Calls) + 1
    /\ s' = Difference(r, s)
    /\ call' = call + 1
    /\ UNCHANGED <<given, r, h>>

ScalarNext == Multiplication \/ Subtraction

ScalarSpec == ScalarInit /\ [][ScalarNext]_scalarVars

-----------------------------------------------------------------------------
(* Every multiplication is one its Montgomery reduction is exact for, by a *)
(* number below the order; and the scalar is r - k * h modulo the order,   *)
(* and below the order, as verify demands, for any three 256-bit hashes.   *)
SignatureScalarExact ==
    /\ r \in Scalar /\ h \in Scalar /\ s \in Scalar
    /\ call <= Len(Calls) => Operand(Calls[call][2]) < curve_order
    /\ call = Len(Calls) + 2 => s = (given[2] - given[1] * given[3]) % curve_order

\* decompose: the coefficients, with the wrap of their words, amount to the scalar on
\* the subgroup; the first is odd.
DecomposeExact(k) ==
    LET scalars == decompose(k)
    IN  /\ (Combination(scalars) - k) % curve_order = 0
        /\ scalars[1] % 2 = 1

\* wNAF_recode: the digits amount to the scalar and fit in the array of 65; each indexes
\* its table, and no two of any w in a row are nonzero.
RecodingExact(scalar) ==
    \A w \in 2 .. HalfBits - 2 :
        LET digits == wNAF_recode(scalar, w)
            sum[n \in 0 .. HalfBits + 1] ==
                IF n > HalfBits THEN 0 ELSE digits[n] + 2 * sum[n + 1]
        IN  /\ sum[0] = scalar
            /\ Len(wNAF(w)[scalar]) <= HalfBits + 1
            /\ \A n \in 0 .. HalfBits : digits[n] # 0 =>
                /\ digits[n] % 2 = 1
                /\ digits[n] \in -(2 ^ (w - 1)) + 1 .. 2 ^ (w - 1) - 1
                /\ \A m \in n + 1 .. n + w - 1 : m <= HalfBits => digits[m] = 0

\* The comb: with the signs of its first row, the columns amount to the scalar made odd,
\* and nothing of the scalar is left over.
CombExact(k) ==
    LET c == comb(k)
        column[row \in 0 .. Rows - 1] == [n \in 0 .. Columns - 1 |->
            IF row = 0 THEN 1
            ELSE column[row - 1][n] + c.digits[row * Columns + n] * 2 ^ (row * Columns)]
        sum[n \in 0 .. Columns] ==
            IF n = Columns THEN 0
            ELSE (IF c.digits[n] = -1 THEN -1 ELSE 1) * column[Rows - 1][n] + 2 * sum[n + 1]
    IN  /\ c.left = 0
        /\ sum[0] = OddScalar(k)
        /\ (sum[0] - k) % curve_order = 0

(* decompose loses nothing of a scalar of 256 bits, reduced or not, though *)
(* it works modulo a word: the coefficients amount to it on the subgroup.  *)
DecomposedExactly == call = 1 => DecomposeExact(given[1])

(* Nor do the signed windows of a word lose anything of it, in the words   *)
(* whose digits carry out of the top, too.                                 *)
RecodedExactly == call = 1 => RecodingExact(given[1] % Half)

(* Nor does the comb of a scalar of 256 bits, whose columns take the signs *)
(* of the first row.                                                       *)
CombedExactly == call = 1 => CombExact(given[1])

(* Together: none of the three ways to take a scalar apart loses anything. *)
TakenApartExactly == DecomposedExactly /\ RecodedExactly /\ CombedExactly
=============================================================================
