----------------------------- MODULE FourQCurve -----------------------------
(***************************************************************************)
(* The group of FourQ: the points of -x^2 + y^2 = 1 + d x^2 y^2 over       *)
(* GF(p^2), exactly, coordinates reduced.  The coordinates, formulas and   *)
(* multiplications of FourQPoint are measured against it.                  *)
(***************************************************************************)
EXTENDS FieldArith, FiniteSets

CONSTANT PARAMETER_d     \* no square of GF(p^2): the addition law has no exception

ASSUME CurveAssumption == PARAMETER_d \in (0 .. p - 1) \X (0 .. p - 1)

GF2 == (0 .. p - 1) \X (0 .. p - 1)

Exact(a) == <<a[1] % p, a[2] % p>>

Plus2(a, b) == Exact(<<a[1] + b[1], a[2] + b[2]>>)

Minus2(a, b) == Exact(<<a[1] - b[1], a[2] - b[2]>>)

Times2(a, b) == Exact(<<a[1] * b[1] - a[2] * b[2], a[1] * b[2] + a[2] * b[1]>>)

One2 == <<1, 0>>

Inverse2(a) ==
    LET norm == (a[1] * a[1] + a[2] * a[2]) % p
        inverse == CHOOSE c \in 1 .. p - 1 : (norm * c) % p = 1
    IN  Exact(<<a[1] * inverse, -a[2] * inverse>>)

Point(x, y) == [x |-> x, y |-> y]

OnCurve(P) ==
    LET xx == Times2(P.x, P.x)
        yy == Times2(P.y, P.y)
    IN  Minus2(yy, xx) = Plus2(One2, Times2(PARAMETER_d, Times2(xx, yy)))

Curve == {P \in [x : GF2, y : GF2] : OnCurve(P)}

Neutral == Point(<<0, 0>>, One2)

PlusPoint(P, Q) ==
    LET xx == Times2(P.x, Q.x)
        yy == Times2(P.y, Q.y)
        xy == Plus2(Times2(P.x, Q.y), Times2(P.y, Q.x))
        dxxyy == Times2(PARAMETER_d, Times2(xx, yy))
    IN  Point(Times2(xy, Inverse2(Plus2(One2, dxxyy))),
              Times2(Plus2(yy, xx), Inverse2(Minus2(One2, dxxyy))))

CurveSize == Cardinality(Curve)

\* n * P for any integer n: the order of a point divides the size of the group.
TimesPoint(n, P) ==
    LET m[k \in 0 .. CurveSize] ==
            IF k = 0 THEN Neutral
            ELSE LET half == m[k \div 2]
                     even == PlusPoint(half, half)
                 IN  IF k % 2 = 0 THEN even ELSE PlusPoint(even, P)
    IN  m[n % CurveSize]
=============================================================================
