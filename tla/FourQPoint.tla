----------------------------- MODULE FourQPoint -----------------------------
(***************************************************************************)
(* Points of FourQ as the code computes with them: the five coordinate     *)
(* systems, the formulas between them, validation, normalisation, and the  *)
(* encoding in 32 bytes.                                                   *)
(*                                                                         *)
(* point_t is [x, y]; point_extproj_t is (X, Y, Z, Ta, Tb) with            *)
(* T = Ta Tb = X Y / Z; a precomputed point is (X+Y, Y-X, 2Z, 2dT), or     *)
(* without z2 when Z = 1.                                                  *)
(***************************************************************************)
EXTENDS FourQCurve

ONE == <<1, 0>>

point_setup(P) == [x |-> P.x, y |-> P.y, z |-> ONE, ta |-> P.x, tb |-> P.y]

R1_to_R2(P) ==
    [xy |-> fp2add1271(P.x, P.y),
     yx |-> fp2sub1271(P.y, P.x),
     z2 |-> fp2add1271(P.z, P.z),
     t2 |-> fp2mul1271(fp2mul1271(fp2add1271(P.ta, P.ta), P.tb), PARAMETER_d)]

R1_to_R3(P) ==
    [xy |-> fp2add1271(P.x, P.y),
     yx |-> fp2sub1271(P.y, P.x),
     z2 |-> P.z,
     t2 |-> fp2mul1271(P.ta, P.tb)]

eccdouble(P) ==
    LET xx == fp2sqr1271(P.x)
        yy == fp2sqr1271(P.y)
        tb == fp2add1271(xx, yy)
        t1 == fp2sub1271(yy, xx)
        ta == fp2sub1271(fp2sqr1271(fp2add1271(P.x, P.y)), tb)
        t2 == fp2addsub1271(fp2sqr1271(P.z), t1)
    IN  [x |-> fp2mul1271(t2, ta), y |-> fp2mul1271(t1, tb), z |-> fp2mul1271(t1, t2),
         ta |-> ta, tb |-> tb]

\* alpha, beta, theta and omega of the addition, from the four products.
FromProducts(t, z, plus, minus) ==
    LET theta == fp2sub1271(z, t)
        alpha == fp2add1271(z, t)
        beta == fp2sub1271(plus, minus)
        omega == fp2add1271(plus, minus)
    IN  [x |-> fp2mul1271(beta, theta), y |-> fp2mul1271(omega, alpha),
         z |-> fp2mul1271(alpha, theta), ta |-> omega, tb |-> beta]

eccadd_core(P, Q) ==
    FromProducts(fp2mul1271(P.t2, Q.t2), fp2mul1271(P.z2, Q.z2),
                 fp2mul1271(P.xy, Q.xy), fp2mul1271(P.yx, Q.yx))

eccadd(Q, P) == eccadd_core(Q, R1_to_R3(P))

\* Q has no z2: its Z is 1.
eccmadd(Q, P) ==
    FromProducts(fp2mul1271(fp2mul1271(P.ta, P.tb), Q.t2), fp2add1271(P.z, P.z),
                 fp2mul1271(Q.xy, fp2add1271(P.x, P.y)),
                 fp2mul1271(Q.yx, fp2sub1271(P.y, P.x)))

eccneg_extproj_precomp(P) ==
    [xy |-> P.yx, yx |-> P.xy, z2 |-> P.z2, t2 |-> fp2neg1271(P.t2)]

eccneg_precomp(P) == [xy |-> P.yx, yx |-> P.xy, t2 |-> fp2neg1271(P.t2)]

\* Mutant: z is not conjugated.
eccnormByZ(P) ==
    LET norm == fpadd1271(fpsqr1271(P.z[1]), fpsqr1271(P.z[2]))
        inverse == fpinv1271(norm)
        z == <<fpmul1271(P.z[1], inverse), fpmul1271(P.z[2], inverse)>>
    IN  Point(fp2mul1271(P.x, z), fp2mul1271(P.y, z))

\* With the conjugate of z and the inverse of its norm.
eccnorm(P) ==
    LET norm == fpadd1271(fpsqr1271(P.z[1]), fpsqr1271(P.z[2]))
        inverse == fpinv1271(norm)
        z == <<fpmul1271(P.z[1], inverse), fpmul1271(fpneg1271(P.z[2]), inverse)>>
        x == fp2mul1271(P.x, z)
        y == fp2mul1271(P.y, z)
    IN  Point(<<mod1271(x[1]), mod1271(x[2])>>, <<mod1271(y[1]), mod1271(y[2])>>)

\* A coordinate of the difference passes as zero, or with both words all ones.
Vanishes(c) == c = 0 \/ c = Double - 1

ecc_point_validate(P) ==
    LET yy == fp2sqr1271(P.y)
        xx == fp2sqr1271(P.x)
        right == fp2add1271(fp2mul1271(fp2mul1271(yy, xx), PARAMETER_d), ONE)
        difference == fp2sub1271(fp2sub1271(yy, xx), right)
    IN  Vanishes(difference[1]) /\ Vanishes(difference[2])

\* 392 * P = 8 * (2 * 8 * (3 * P) + P), by the doublings and additions of the code.
cofactor_clearing(P) ==
    LET Q == R1_to_R2(P)
        doubled[n \in 0 .. 4, S \in {"triple", "last"}] ==
            IF S = "triple"
            THEN IF n = 0 THEN eccadd(Q, eccdouble(P)) ELSE eccdouble(doubled[n - 1, S])
            ELSE IF n = 0 THEN eccadd(Q, doubled[4, "triple"]) ELSE eccdouble(doubled[n - 1, S])
    IN  doubled[3, "last"]

-----------------------------------------------------------------------------
(* The encoding: y in two 127-bit coordinates, the spare bit of the first  *)
(* clear, the spare bit of the second the sign of x.                       *)

Encoding == [y : f2elm_t, spare : 0 .. 1, sign : 0 .. 1]

\* Bit 126 of a coordinate.
SignBit(c) == c \div (Top \div 2)

\* The coordinate of x whose sign counts: the first unless it is zero.
SignOf(x) == IF x[1] = 0 THEN SignBit(x[2]) ELSE SignBit(x[1])

encode(P) == [y |-> P.y, spare |-> 0, sign |-> SignOf(P.x)]

\* The norm's square root, or its negative, half of which with t1 is a square.
Half2(t1, root) ==
    LET sum == mod1271(fpadd1271(t1, root))
    IN  IF sum = 0 THEN fpsub1271(t1, root) ELSE sum

\* The coordinates of x up to their signs, t and t0 deciding which is which.
Roots(t, t0, t2) ==
    LET t3 == fpmul1271(t0, fpexp1251(fpmul1271(t, fpmul1271(t0, fpsqr1271(t0)))))
        twice == fpmul1271(t, t3)
        other == fpmul1271(t2, t3)
    IN  IF mod1271(fpsub1271(t, fpmul1271(t0, fpsqr1271(twice)))) # 0
        THEN <<mod1271(other), fpdiv1271(twice)>>
        ELSE <<mod1271(fpdiv1271(twice)), other>>

\* The square root of u / v, from the norm t0 of v and u times the conjugate of v.
SquareRoot(t0, t1, t2) ==
    LET squared[n \in 0 .. 2 * WordBits - 3] ==
            IF n = 0 THEN fpadd1271(fpsqr1271(t1), fpsqr1271(t2)) ELSE fpsqr1271(squared[n - 1])
        half == Half2(t1, squared[2 * WordBits - 3])
    IN  Roots(fpadd1271(half, half), t0, t2)

RootOfQuotient(u, v) ==
    SquareRoot(fpadd1271(fpsqr1271(v[1]), fpsqr1271(v[2])),
               fpadd1271(fpmul1271(u[1], v[1]), fpmul1271(u[2], v[2])),
               fpsub1271(fpmul1271(u[2], v[1]), fpmul1271(u[1], v[2])))

Signed(x, sign) == IF SignOf(x) # sign THEN fp2neg1271(x) ELSE x

\* The root, or the one with the second coordinate negated, or no point.
Validated(x, y) ==
    LET other == <<x[1], fpneg1271(x[2])>>
    IN  CASE ecc_point_validate(point_setup(Point(x, y))) -> [ok |-> TRUE, point |-> Point(x, y)]
          [] OTHER -> [ok |-> ecc_point_validate(point_setup(Point(other, y))),
                       point |-> Point(other, y)]

\* x^2 = (y^2 - 1) / (d y^2 + 1).
decode(e) ==
    LET yy == fp2sqr1271(e.y)
        x == RootOfQuotient(fp2sub1271(yy, ONE), fp2add1271(fp2mul1271(yy, PARAMETER_d), ONE))
    IN  Validated(Signed(x, e.sign), e.y)
=============================================================================
