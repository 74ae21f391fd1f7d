--------------------------- MODULE ExponentChain ---------------------------
(***************************************************************************)
(* fpexp1251: the addition chain that raises a field element to the power  *)
(* 2^125 - 1.  A register is the exponent it stands for, as the set of its *)
(* one bits: squaring shifts the set, multiplying adds the exponents.      *)
(***************************************************************************)
EXTENDS Integers, Sequences

VARIABLES
    t,         \* the registers a and t1 .. t5
    stage,     \* the line of the function
    left       \* squarings before the line's multiplication

expVars == <<t, stage, left>>

Register == {"a", "t1", "t2", "t3", "t4", "t5"}

\* Each line squares "from" into "to" a number of times, then multiplies by "factor".
Line(from, to, squarings, factor) ==
    [from |-> from, to |-> to, squarings |-> squarings, factor |-> factor]

Lines == <<
    Line("a", "t2", 1, "a"),
    Line("t2", "t3", 2, "t2"),
    Line("t3", "t4", 4, "t3"),
    Line("t4", "t5", 8, "t4"),
    Line("t5", "t2", 16, "t5"),
    Line("t2", "t1", 32, "t2"),
    Line("t1", "t1", 32, "t2"),
    Line("t1", "t1", 16, "t5"),
    Line("t1", "t1", 8, "t4"),
    Line("t1", "t1", 4, "t3"),
    Line("t1", "t1", 1, "a") >>

Shift(bits) == {b + 1 : b \in bits}

\* The sum of two numbers given by their one bits: a carry reaches bit k from a common
\* bit below it, over bits that one of the two has.
Plus(x, y) ==
    LET carry == {k \in Shift(x \cup y) :
                    \E j \in x \cap y : j < k /\ j + 1 .. k - 1 \subseteq x \cup y}
    IN  {k \in x \cup y \cup carry : k \in x <=> (k \in y <=> k \in carry)}

ExpInit ==
    /\ t = [r \in Register |-> IF r = "a" THEN {0} ELSE {}]
    /\ stage = 1
    /\ left = Lines[1].squarings

Square ==
    /\ stage <= Len(Lines) /\ left > 0
    /\ LET l == Lines[stage]
           source == IF left = l.squarings THEN l.from ELSE l.to
       IN  t' = [t EXCEPT ![l.to] = Shift(t[source])]
    /\ left' = left - 1
    /\ UNCHANGED stage

\* Mutant: a line's loop ends one squaring early.
MultiplyEarly ==
    /\ stage <= Len(Lines) /\ left = 1
    /\ LET l == Lines[stage] IN t' = [t EXCEPT ![l.to] = Plus(t[l.to], t[l.factor])]
    /\ stage' = stage + 1
    /\ left' = IF stage < Len(Lines) THEN Lines[stage + 1].squarings ELSE 0

Multiply ==
    /\ stage <= Len(Lines) /\ left = 0
    /\ LET l == Lines[stage] IN t' = [t EXCEPT ![l.to] = Plus(t[l.to], t[l.factor])]
    /\ stage' = stage + 1
    /\ left' = IF stage < Len(Lines) THEN Lines[stage + 1].squarings ELSE 0

ExpNext == Square \/ Multiply

ExpSpec == ExpInit /\ [][ExpNext]_expVars

ExpDone == stage = Len(Lines) + 1

-----------------------------------------------------------------------------
(* The power is 2^125 - 1, (p - 3) / 4: twice squared and multiplied by a, *)
(* as fpinv1271 and eccnorm do, it is a^(p - 2), the inverse.              *)
PowerIsInverse ==
    ExpDone => /\ t.t1 = 0 .. 124
               /\ Plus(Shift(Shift(t.t1)), {0}) = (0 .. 126) \ {1}
=============================================================================
