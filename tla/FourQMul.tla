------------------------------ MODULE FourQMul ------------------------------
(***************************************************************************)
(* The two scalar multiplications: ecc_mul_double, k * G + l * Q, a loop   *)
(* over interleaved digits, and ecc_mul_fixed, k * G, a comb over a table. *)
(* Both end in eccnorm.                                                    *)
(***************************************************************************)
EXTENDS FourQPoint, ScalarArith

CONSTANTS
    Generator,
    KWindow, LWindow,      \* of the recodings of k and l: 8 and 4
    Groups, Rounds,        \* of the comb: 5 tables, 10 rounds over Columns = 50
    DoubleCalls,           \* the calls studied: <<k, l, Q>>
    FixedCalls             \* and k

ASSUME MulAssumption ==
    /\ Generator \in Curve \ {Neutral}
    /\ TimesPoint(curve_order, Generator) = Neutral
    /\ Groups * Rounds = Columns

VARIABLES
    call,        \* the arguments
    pc,
    T,           \* the accumulator
    i,           \* the loop's index
    digits,      \* of the scalars
    Q_table,     \* odd multiples of Q and of its images
    result       \* FALSE with the point given, or TRUE with the point computed

mulVars == <<call, pc, T, i, digits, Q_table, result>>

\* The precomputed form of an affine point, as the constant tables hold it.
Precomputed(P) ==
    [xy |-> fp2add1271(P.x, P.y), yx |-> fp2sub1271(P.y, P.x),
     t2 |-> fp2mul1271(fp2mul1271(fp2add1271(P.x, P.x), P.y), PARAMETER_d)]

\* Row m: (2m + 1) times the generator's image under endomorphism j.
DOUBLE_SCALAR_TABLE ==
    [j \in Parts, m \in 0 .. 2 ^ (KWindow - 2) - 1 |->
        Precomputed(TimesPoint((2 * m + 1) * Lambda[j], Generator))]

\* Group g, entry u: 2^(Rounds g) (1 + the rows that u's bits select, 2^Columns apart) times G.
FIXED_BASE_TABLE ==
    [index \in 0 .. Groups * 2 ^ (Rows - 1) - 1 |->
        LET g == index \div 2 ^ (Rows - 1)
            u == index % 2 ^ (Rows - 1)
            sum[row \in 0 .. Rows - 1] ==
                IF row = 0 THEN 1
                ELSE sum[row - 1] + (IF (u \div 2 ^ (row - 1)) % 2 = 1 THEN 2 ^ (Columns * row) ELSE 0)
        IN  Precomputed(TimesPoint(2 ^ (Rounds * g) * sum[Rows - 1], Generator))]

\* Q itself, then ecc_phi and ecc_psi, by the multiplier each amounts to on the subgroup.
ecc_endo(j, Q) ==
    IF j = 1 THEN point_setup(Q)
    ELSE point_setup(TimesPoint(Lambda[j], Point(Exact(Q.x), Exact(Q.y))))

\* The odd multiples P, 3P, 5P, ... of a point.
ecc_precomp_double(P) ==
    LET PP == R1_to_R3(eccdouble(P))
        Table[m \in 0 .. 2 ^ (LWindow - 2) - 1] ==
            IF m = 0 THEN R1_to_R2(P) ELSE R1_to_R2(eccadd_core(Table[m - 1], PP))
    IN  Table

MulInit ==
    /\ \/ \E c \in DoubleCalls : call = [op |-> "double", k |-> c[1], l |-> c[2], Q |-> c[3]]
       \/ \E k \in FixedCalls : call = [op |-> "fixed", k |-> k, l |-> 0, Q |-> Neutral]
    /\ pc = "start"
    /\ T = point_setup(Neutral)
    /\ i = 0 /\ digits = <<>> /\ Q_table = <<>>
    /\ result = [ok |-> FALSE, point |-> call.Q]

-----------------------------------------------------------------------------
(* ecc_mul_double *)

ecc_mul_double_Reject ==
    /\ pc = "start" /\ call.op = "double"
    /\ ~ecc_point_validate(point_setup(call.Q))
    /\ pc' = "done"
    /\ UNCHANGED <<call, T, i, digits, Q_table, result>>

ecc_mul_double_Start ==
    /\ pc = "start" /\ call.op = "double"
    /\ ecc_point_validate(point_setup(call.Q))
    /\ digits' = [k |-> [j \in Parts |-> wNAF_recode(decompose(call.k)[j], KWindow)],
                  l |-> [j \in Parts |-> wNAF_recode(decompose(call.l)[j], LWindow)]]
    /\ Q_table' = [j \in Parts |-> ecc_precomp_double(ecc_endo(j, call.Q))]
    /\ T' = point_setup(Neutral)
    /\ i' = HalfBits + 1
    /\ pc' = "double"
    /\ UNCHANGED <<call, result>>

\* P plus the entry that a digit selects, negated for a negative digit.
AddFromQ(digit, table, P) ==
    CASE digit < 0 -> eccadd(eccneg_extproj_precomp(table[(-digit) \div 2]), P)
      [] digit = 0 -> P
      [] digit > 0 -> eccadd(table[digit \div 2], P)

AddFromG(digit, j, P) ==
    CASE digit < 0 -> eccmadd(eccneg_precomp(DOUBLE_SCALAR_TABLE[j, (-digit) \div 2]), P)
      [] digit = 0 -> P
      [] digit > 0 -> eccmadd(DOUBLE_SCALAR_TABLE[j, digit \div 2], P)

ecc_mul_double_Loop ==
    /\ pc = "double" /\ i > 0
    /\ LET n == i - 1
           withQ[j \in 0 .. Len(ell)] ==
               IF j = 0 THEN eccdouble(T)
               ELSE AddFromQ(digits.l[j][n], Q_table[j], withQ[j - 1])
           withG[j \in 0 .. Len(ell)] ==
               IF j = 0 THEN withQ[Len(ell)]
               ELSE AddFromG(digits.k[j][n], j, withG[j - 1])
       IN  T' = withG[Len(ell)]
    /\ i' = i - 1
    /\ UNCHANGED <<call, pc, digits, Q_table, result>>

-----------------------------------------------------------------------------
(* ecc_mul_fixed *)

table_lookup_fixed_base(index, sign) ==
    LET entry == FIXED_BASE_TABLE[index]
    IN  IF sign # 0 THEN eccneg_precomp(entry) ELSE entry

\* Column c's bits of the rows above the sign, the top row first.
Lookup(g, c) ==
    LET bits[row \in 1 .. Rows] ==
            IF row = Rows THEN 0 ELSE digits[row * Columns + c] + 2 * bits[row + 1]
    IN  table_lookup_fixed_base(g * 2 ^ (Rows - 1) + bits[1], digits[c])

ecc_mul_fixed_Start ==
    /\ pc = "start" /\ call.op = "fixed"
    /\ digits' = comb(call.k).digits
    /\ i' = Rounds
    /\ pc' = "fixed"
    /\ UNCHANGED <<call, T, Q_table, result>>

\* (X, Y, 1, X, Y) from the first entry, halving the sum and difference of its coordinates.
FromEntry(S) ==
    LET x == fp2div1271(fp2sub1271(S.xy, S.yx))
        y == fp2div1271(fp2add1271(S.xy, S.yx))
    IN  [x |-> x, y |-> y, z |-> ONE, ta |-> x, tb |-> y]

\* One round: column n of every group, the highest group first.
ecc_mul_fixed_Loop ==
    /\ pc = "fixed" /\ i > 0
    /\ LET added[g \in 0 .. Groups] ==
               CASE g = Groups /\ i < Rounds -> eccdouble(T)
                 [] g = Groups - 1 /\ i = Rounds -> FromEntry(Lookup(g, Columns - 1))
                 [] OTHER -> eccmadd(Lookup(g, g * Rounds + i - 1), added[g + 1])
       IN  T' = added[0]
    /\ i' = i - 1
    /\ UNCHANGED <<call, pc, digits, Q_table, result>>

-----------------------------------------------------------------------------
Normalise ==
    /\ pc \in {"double", "fixed"} /\ i = 0
    /\ result' = [ok |-> TRUE, point |-> eccnorm(T)]
    /\ pc' = "done"
    /\ UNCHANGED <<call, T, i, digits, Q_table>>

MulNext ==
    \/ ecc_mul_double_Reject \/ ecc_mul_double_Start \/ ecc_mul_double_Loop
    \/ ecc_mul_fixed_Start \/ ecc_mul_fixed_Loop
    \/ Normalise

MulSpec == MulInit /\ [][MulNext]_mulVars

-----------------------------------------------------------------------------
Argument == Point(Exact(call.Q.x), Exact(call.Q.y))

\* k * G + l * Q, by the combinations that k and l are taken apart into.
DoubleProduct(k, l, Q) ==
    PlusPoint(TimesPoint(Combination(decompose(k)), Generator),
              TimesPoint(Combination(decompose(l)), Q))

(* The result is the group's, in reduced coordinates: k * G for every      *)
(* 256-bit k, and k * G + l * Q for every 256-bit l, where a Q outside the *)
(* subgroup gets the combination of its images that l is taken apart into. *)
(* A point that is not on the curve is refused.                            *)
MultipliesInTheGroup ==
    pc = "done" =>
        /\ result.ok => result.point \in Curve
        /\ call.op = "fixed" =>
              result = [ok |-> TRUE, point |-> TimesPoint(call.k, Generator)]
        /\ call.op = "double" /\ result.ok =>
              /\ result.point = DoubleProduct(call.k, call.l, Argument)
              /\ TimesPoint(curve_order, Argument) = Neutral =>
                    result.point = PlusPoint(TimesPoint(call.k, Generator),
                                             TimesPoint(call.l, Argument))
        /\ call.op = "double" /\ call.Q.x \in GF2 /\ call.Q.y \in GF2 =>
              result.ok = OnCurve(call.Q)
=============================================================================
