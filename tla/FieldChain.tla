----------------------------- MODULE FieldChain -----------------------------
(***************************************************************************)
(* A chain of operations of GF(p^2), as the point formulas string them     *)
(* together: one register goes through the word-level functions, unreduced *)
(* in between, next to the exact value.  A product comes from the words or *)
(* from the precompile.                                                    *)
(***************************************************************************)
EXTENDS FieldArith

CONSTANT Operands      \* the other operands studied

ASSUME ChainAssumption == Operands \subseteq f2elm_t

VARIABLES
    acc,      \* the f2elm_t
    exact     \* the element it stands for, both coordinates in 0 .. p - 1

fieldVars == <<acc, exact>>

Exactly(re, im) == <<re % p, im % p>>

FieldInit ==
    /\ acc \in Operands
    /\ exact = Exactly(acc[1], acc[2])

Add(b) ==
    /\ acc' = fp2add1271(acc, b)
    /\ exact' = Exactly(exact[1] + b[1], exact[2] + b[2])

Sub(b) ==
    /\ acc' = fp2sub1271(acc, b)
    /\ exact' = Exactly(exact[1] - b[1], exact[2] - b[2])

SubFrom(b) ==
    /\ acc' = fp2sub1271(b, acc)
    /\ exact' = Exactly(b[1] - exact[1], b[2] - exact[2])

AddSub(b) ==
    /\ acc' = fp2addsub1271(acc, b)
    /\ exact' = Exactly(2 * exact[1] - b[1], 2 * exact[2] - b[2])

Neg ==
    /\ acc' = fp2neg1271(acc)
    /\ exact' = Exactly(-exact[1], -exact[2])

Mul(b) ==
    /\ acc' \in {fp2mul1271(acc, b)} \cup
               (Supplied(acc[1] * b[1] - acc[2] * b[2]) \X Supplied(acc[1] * b[2] + acc[2] * b[1]))
    /\ exact' = Exactly(exact[1] * b[1] - exact[2] * b[2], exact[1] * b[2] + exact[2] * b[1])

Sqr ==
    /\ acc' = fp2sqr1271(acc)
    /\ exact' = Exactly(exact[1] * exact[1] - exact[2] * exact[2], 2 * exact[1] * exact[2])

\* The squares of both coordinates, as eccnorm and decode take them.
Norms ==
    /\ acc' = <<fpsqr1271(acc[1]), fpsqr1271(acc[2])>>
    /\ exact' = Exactly(exact[1] * exact[1], exact[2] * exact[2])

Halve ==
    /\ acc' = fp2div1271(acc)
    /\ exact' \in {h \in (0 .. p - 1) \X (0 .. p - 1) : Exactly(2 * h[1], 2 * h[2]) = exact}

Reduce ==
    /\ acc' = <<mod1271(acc[1]), mod1271(acc[2])>>
    /\ UNCHANGED exact

\* The inverses of both coordinates; that of zero is zero.
Invert ==
    /\ acc' = <<fpinv1271(acc[1]), fpinv1271(acc[2])>>
    /\ exact' \in {h \in (0 .. p - 1) \X (0 .. p - 1) :
                      \A n \in 1 .. 2 : IF exact[n] = 0 THEN h[n] = 0 ELSE (exact[n] * h[n]) % p = 1}

\* Everything but the inversion, whose exactness rests on p being prime.
RingNext ==
    \/ \E b \in Operands : Add(b) \/ Sub(b) \/ SubFrom(b) \/ AddSub(b) \/ Mul(b)
    \/ Neg \/ Sqr \/ Norms \/ Halve \/ Reduce

FieldNext == RingNext \/ Invert

RingSpec == FieldInit /\ [][RingNext]_fieldVars

FieldSpec == FieldInit /\ [][FieldNext]_fieldVars

-----------------------------------------------------------------------------
(* However long the chain and wherever it passes p, each coordinate stays  *)
(* in 0 .. p, the 127 bits that the next function's words have room for,   *)
(* and is the exact value up to the two representations of zero; mod1271,  *)
(* on which encode and the comparisons with zero rely, leaves only one.    *)
AccIsExact ==
    /\ acc \in f2elm_t
    /\ Exactly(acc[1], acc[2]) = exact
    /\ <<mod1271(acc[1]), mod1271(acc[2])>> = exact
=============================================================================
