--------------------------- MODULE Keccak_proofs ---------------------------
(***************************************************************************)
(* The three Keccak permutations compute Keccak-p[1600, 12] as it is       *)
(* defined, whatever the state: the round on one bank of KeccakP1600 and   *)
(* the planes of StockKeccak that turn two banks into each other are       *)
(* refinements of KeccakReference, and the function of ShortHash keeps     *)
(* step with it.  The trees around the permutation, the port's and the     *)
(* reference's, with their absorb loops by rates and by lanes and their    *)
(* length encodings, are KangarooTwelve of the message.                    *)
(***************************************************************************)
EXTENDS KeccakP1600, ShortHash, StockHash, FiniteSetTheorems, WellFoundedInduction, TLAPS

-----------------------------------------------------------------------------
(* Recursive definitions over 0 .. n.                                      *)

\* Induction over an interval.
LEMMA UpTo ==
    ASSUME NEW n \in Nat, NEW S, 0 \in S, \A k \in 0 .. n - 1 : k \in S => k + 1 \in S
    PROVE  \A k \in 0 .. n : k \in S
<1> DEFINE Missing == {k \in 0 .. n : k \notin S}
<1> SUFFICES ASSUME Missing # {} PROVE FALSE
  OBVIOUS
<1>1. Missing \in SUBSET Nat
  OBVIOUS
<1>2. PICK k \in Missing : \A x \in Missing : <<x, k>> \notin OpToRel(<, Nat)
  <2> HIDE DEF Missing
  <2>1. QED
    BY <1>1, NatLessThanWellFounded, WFMin
<1>3. k \in 0 .. n /\ k # 0 /\ k \notin S
  BY <1>2
<1>4. k - 1 \in 0 .. n - 1 /\ k - 1 + 1 = k
  BY <1>3
<1>5. k - 1 \in Missing
  BY <1>3, <1>4
<1>6. <<k - 1, k>> \in OpToRel(<, Nat)
  BY <1>3, <1>4 DEF OpToRel
<1>7. QED
  BY <1>2, <1>5, <1>6

\* A recursive definition over 0 .. n, by a step that does not depend on the
\* position, has a solution.
Solves(n, S, x, g, f) ==
    /\ f \in [0 .. n -> S]
    /\ f[0] = x
    /\ \A k \in 1 .. n : f[k - 1] \in S /\ f[k] = g[f[k - 1]]

\* Such a recursion has a solution for every length n.
LEMMA Recursion ==
    ASSUME NEW n \in Nat, NEW S, NEW x \in S, NEW g \in [S -> S]
    PROVE  \E f : Solves(n, S, x, g, f)
<1> DEFINE Solved == {m \in 0 .. n : \E f : Solves(m, S, x, g, f)}
<1>1. Solves(0, S, x, g, [k \in 0 .. 0 |-> x])
  BY DEF Solves
<1>2. ASSUME NEW m \in 0 .. n - 1, NEW f, Solves(m, S, x, g, f)
      PROVE  \E h : Solves(m + 1, S, x, g, h)
  <2> DEFINE h == [k \in 0 .. m + 1 |-> IF k = m + 1 THEN g[f[m]] ELSE f[k]]
  <2>1. g[f[m]] \in S
    BY <1>2 DEF Solves
  <2>2. h \in [0 .. m + 1 -> S] /\ h[0] = x
    BY <1>2, <2>1 DEF Solves
  <2>3. \A k \in 1 .. m + 1 : h[k] = g[h[k - 1]]
    BY <1>2 DEF Solves
  <2>4. Solves(m + 1, S, x, g, h)
    BY <2>2, <2>3 DEF Solves
  <2>5. QED
    BY <2>4
<1>3. 0 \in Solved /\ \A m \in 0 .. n - 1 : m \in Solved => m + 1 \in Solved
  BY <1>1, <1>2
<1>4. n \in Solved
  <2> HIDE DEF Solved
  <2>1. \A k \in 0 .. n : k \in Solved
    BY <1>3, UpTo
  <2>2. QED
    BY <2>1
<1>5. QED
  BY <1>4

-----------------------------------------------------------------------------
(* The tables: where a lane comes from and how far it turns.               *)

\* One step of the walk over the lanes.
Onward(q) == <<q[2], (2 * q[1] + 3 * q[2]) % 5>>

\* The reference's walk over the lanes starts at <<1, 0>> and goes onward step by step.
LEMMA WalkSteps ==
    /\ Keccak!Walk[0] = <<1, 0>>
    /\ \A t \in 1 .. 23 : Keccak!Walk[t] = Onward(Keccak!Walk[t - 1])
<1> DEFINE S == Nat \X Nat
           g == [q \in S |-> Onward(q)]
           Body(f) == [t \in 0 .. 23 |-> IF t = 0 THEN <<1, 0>>
                                         ELSE LET q == f[t - 1] IN <<q[2], (2 * q[1] + 3 * q[2]) % 5>>]
<1>1. <<1, 0>> \in S /\ g \in [S -> S]
  BY DEF Onward
<1>2. PICK f : Solves(23, S, <<1, 0>>, g, f)
  <2> HIDE DEF S, g
  <2>1. QED
    BY <1>1, Recursion
<1>3. f = Body(f)
  <2>1. /\ f \in [0 .. 23 -> S] /\ f[0] = <<1, 0>>
        /\ \A t \in 1 .. 23 : f[t - 1] \in S /\ f[t] = g[f[t - 1]]
    BY <1>2, Zenon DEF Solves
  <2>2. \A q \in S : g[q] = Onward(q)
    OBVIOUS
  <2>3. \A t \in 1 .. 23 : f[t] = Onward(f[t - 1])
    BY <2>1, <2>2, Zenon
  <2>4. f = [t \in 0 .. 23 |-> IF t = 0 THEN <<1, 0>> ELSE Onward(f[t - 1])]
    <3> HIDE DEF S, g
    <3>1. QED
      BY <2>1, <2>3
  <2>5. QED
    BY <2>4, Zenon DEF Onward
<1>4. Keccak!Walk = CHOOSE h : h = Body(h)
  BY DEF Keccak!Walk
<1>5. Keccak!Walk = Body(Keccak!Walk)
  <2> HIDE DEF Body
  <2>1. QED
    BY <1>3, <1>4
<1>6. Keccak!Walk = [t \in 0 .. 23 |-> IF t = 0 THEN <<1, 0>> ELSE Onward(Keccak!Walk[t - 1])]
  BY <1>5, Zenon DEF Onward
<1>7. QED
  BY <1>6

\* One step of the register.
Doubled(r) ==
    LET s == {b + 1 : b \in r} IN IF 8 \in s THEN SymDiff(s, {0, 4, 5, 6, 8}) ELSE s

\* The reference's register starts at 1 and is doubled in each of its 167 steps.
LEMMA RegisterSteps ==
    /\ Keccak!Register[0] = {0}
    /\ \A t \in 1 .. 167 : Keccak!Register[t] = Doubled(Keccak!Register[t - 1])
<1> DEFINE S == SUBSET Nat
           g == [r \in S |-> Doubled(r)]
           Body(f) == [t \in 0 .. 167 |-> IF t = 0 THEN {0}
                                          ELSE LET r == {b + 1 : b \in f[t - 1]}
                                               IN  IF 8 \in r THEN Keccak!SymDiff(r, {0, 4, 5, 6, 8}) ELSE r]
<1>1. {0} \in S /\ g \in [S -> S]
  BY DEF Doubled, SymDiff
<1>2. PICK f : Solves(167, S, {0}, g, f)
  <2> HIDE DEF S, g
  <2>1. QED
    BY <1>1, Recursion
<1>3. \A h : Body(h) = [t \in 0 .. 167 |-> IF t = 0 THEN {0} ELSE Doubled(h[t - 1])]
  BY DEF Doubled, SymDiff, Keccak!SymDiff
<1>4. f = Body(f)
  <2>1. /\ f \in [0 .. 167 -> S] /\ f[0] = {0}
        /\ \A t \in 1 .. 167 : f[t] = Doubled(f[t - 1])
    <3>1. /\ f \in [0 .. 167 -> S] /\ f[0] = {0}
          /\ \A t \in 1 .. 167 : f[t - 1] \in S /\ f[t] = g[f[t - 1]]
      <4> HIDE DEF S, g
      <4>1. QED
        BY <1>2, Zenon DEF Solves
    <3>2. \A r \in S : g[r] = Doubled(r)
      OBVIOUS
    <3>3. QED
      BY <3>1, <3>2, Zenon
  <2>2. f = [t \in 0 .. 167 |-> IF t = 0 THEN {0} ELSE Doubled(f[t - 1])]
    <3> HIDE DEF S, g
    <3>1. QED
      BY <2>1
  <2> HIDE DEF Body
  <2>3. QED
    BY <2>2, <1>3, Zenon
<1>5. Keccak!Register = CHOOSE h : h = Body(h)
  BY DEF Keccak!Register
<1>6. Keccak!Register = Body(Keccak!Register)
  <2> HIDE DEF Body
  <2>1. QED
    BY <1>4, <1>5
<1>7. Keccak!Register = [t \in 0 .. 167 |-> IF t = 0 THEN {0} ELSE Doubled(Keccak!Register[t - 1])]
  <2> HIDE DEF Body
  <2>1. QED
    BY <1>3, <1>6
<1>8. QED
  BY <1>7

\* Seven turns of the register, the bits of one round constant.
Chain(r, r0, r1, r2, r3, r4, r5, r6) ==
    /\ Doubled(r) = r0 /\ Doubled(r0) = r1 /\ Doubled(r1) = r2 /\ Doubled(r2) = r3
    /\ Doubled(r3) = r4 /\ Doubled(r4) = r5 /\ Doubled(r5) = r6

Row(n, r0, r1, r2, r3, r4, r5, r6) ==
    /\ Keccak!Register[n] = r0 /\ Keccak!Register[n + 1] = r1
    /\ Keccak!Register[n + 2] = r2 /\ Keccak!Register[n + 3] = r3
    /\ Keccak!Register[n + 4] = r4 /\ Keccak!Register[n + 5] = r5
    /\ Keccak!Register[n + 6] = r6

Holding(n, r) == Keccak!Register[n] = r

After(m, n) == m \in 0 .. 160 /\ n = m + 1

\* Seven more steps of the register, from a row whose last value is known.
LEMMA NextRow ==
    ASSUME NEW m, NEW n, After(m, n), NEW r, NEW r0, NEW r1, NEW r2, NEW r3, NEW r4, NEW r5, NEW r6,
           Holding(m, r), Chain(r, r0, r1, r2, r3, r4, r5, r6)
    PROVE  Row(n, r0, r1, r2, r3, r4, r5, r6)
<1>0. n \in 1 .. 161 /\ n - 1 = m
  BY DEF After
<1>1. /\ Keccak!Register[n] = Doubled(Keccak!Register[n - 1])
      /\ Keccak!Register[n + 1] = Doubled(Keccak!Register[n])
      /\ Keccak!Register[n + 2] = Doubled(Keccak!Register[n + 1])
      /\ Keccak!Register[n + 3] = Doubled(Keccak!Register[n + 2])
      /\ Keccak!Register[n + 4] = Doubled(Keccak!Register[n + 3])
      /\ Keccak!Register[n + 5] = Doubled(Keccak!Register[n + 4])
      /\ Keccak!Register[n + 6] = Doubled(Keccak!Register[n + 5])
  BY <1>0, RegisterSteps
<1>2. QED
  BY <1>0, <1>1 DEF Chain, Row, Holding

\* The constants the register yields are the literals of both programs.
RoundBits(n) == {Keccak!Place[j + 1] : j \in {k \in 0 .. 6 : 0 \in Keccak!Register[k + 7 * (12 + n)]}}

\* The twelve literals are what the register's bits make of rounds 12 to 23.
LEMMA ConstantsAgree ==
    \A n \in 0 .. 11 : RoundBits(n) = RoundConstant[n + 1]
<1>1. Row(1, {1}, {2}, {3}, {4}, {5}, {6}, {7})
  <2>1. Chain({0}, {1}, {2}, {3}, {4}, {5}, {6}, {7})
    BY DEF Chain, Doubled, SymDiff
  <2>2. Holding(0, {0})
    BY RegisterSteps DEF Holding
  <2>3. After(0, 1)
    BY DEF After
  <2>4. QED
    BY <2>1, <2>2, <2>3, NextRow, ZenonT(60)
<1>2. Row(7, {7}, {0, 4, 5, 6}, {1, 5, 6, 7}, {0, 2, 4, 5, 7}, {0, 1, 3, 4},
        {1, 2, 4, 5}, {2, 3, 5, 6})
  <2>1. Chain({6}, {7}, {0, 4, 5, 6}, {1, 5, 6, 7}, {0, 2, 4, 5, 7}, {0, 1, 3, 4},
          {1, 2, 4, 5}, {2, 3, 5, 6})
    BY DEF Chain, Doubled, SymDiff
  <2>2. Holding(6, {6})
    BY <1>1 DEF Row, Holding
  <2>3. After(6, 7)
    BY DEF After
  <2>4. QED
    BY <2>1, <2>2, <2>3, NextRow, ZenonT(60)
<1>3. Row(14, {3, 4, 6, 7}, {0, 6, 7}, {0, 1, 4, 5, 6, 7}, {0, 1, 2, 4, 7},
        {0, 1, 2, 3, 4, 6}, {1, 2, 3, 4, 5, 7}, {0, 2, 3})
  <2>1. Chain({2, 3, 5, 6}, {3, 4, 6, 7}, {0, 6, 7}, {0, 1, 4, 5, 6, 7},
          {0, 1, 2, 4, 7}, {0, 1, 2, 3, 4, 6}, {1, 2, 3, 4, 5, 7}, {0, 2, 3})
    BY DEF Chain, Doubled, SymDiff
  <2>2. Holding(13, {2, 3, 5, 6})
    BY <1>2 DEF Row, Holding
  <2>3. After(13, 14)
    BY DEF After
  <2>4. QED
    BY <2>1, <2>2, <2>3, NextRow, ZenonT(60)
<1>4. Row(21, {1, 3, 4}, {2, 4, 5}, {3, 5, 6}, {4, 6, 7}, {0, 4, 6, 7},
        {0, 1, 4, 6, 7}, {0, 1, 2, 4, 6, 7})
  <2>1. Chain({0, 2, 3}, {1, 3, 4}, {2, 4, 5}, {3, 5, 6}, {4, 6, 7}, {0, 4, 6, 7},
          {0, 1, 4, 6, 7}, {0, 1, 2, 4, 6, 7})
    BY DEF Chain, Doubled, SymDiff
  <2>2. Holding(20, {0, 2, 3})
    BY <1>3 DEF Row, Holding
  <2>3. After(20, 21)
    BY DEF After
  <2>4. QED
    BY <2>1, <2>2, <2>3, NextRow, ZenonT(60)
<1>5. Row(28, {0, 1, 2, 3, 4, 6, 7}, {0, 1, 2, 3, 6, 7}, {0, 1, 2, 3, 5, 6, 7},
        {0, 1, 2, 3, 5, 7}, {0, 1, 2, 3, 5}, {1, 2, 3, 4, 6}, {2, 3, 4, 5, 7})
  <2>1. Chain({0, 1, 2, 4, 6, 7}, {0, 1, 2, 3, 4, 6, 7}, {0, 1, 2, 3, 6, 7},
          {0, 1, 2, 3, 5, 6, 7}, {0, 1, 2, 3, 5, 7}, {0, 1, 2, 3, 5},
          {1, 2, 3, 4, 6}, {2, 3, 4, 5, 7})
    BY DEF Chain, Doubled, SymDiff
  <2>2. Holding(27, {0, 1, 2, 4, 6, 7})
    BY <1>4 DEF Row, Holding
  <2>3. After(27, 28)
    BY DEF After
  <2>4. QED
    BY <2>1, <2>2, <2>3, NextRow, ZenonT(60)
<1>6. Row(35, {0, 3}, {1, 4}, {2, 5}, {3, 6}, {4, 7}, {0, 4, 6}, {1, 5, 7})
  <2>1. Chain({2, 3, 4, 5, 7}, {0, 3}, {1, 4}, {2, 5}, {3, 6}, {4, 7}, {0, 4, 6},
          {1, 5, 7})
    BY DEF Chain, Doubled, SymDiff
  <2>2. Holding(34, {2, 3, 4, 5, 7})
    BY <1>5 DEF Row, Holding
  <2>3. After(34, 35)
    BY DEF After
  <2>4. QED
    BY <2>1, <2>2, <2>3, NextRow, ZenonT(60)
<1>7. Row(42, {0, 2, 4, 5}, {1, 3, 5, 6}, {2, 4, 6, 7}, {0, 3, 4, 6, 7},
        {0, 1, 6, 7}, {0, 1, 2, 4, 5, 6, 7}, {0, 1, 2, 3, 4, 7})
  <2>1. Chain({1, 5, 7}, {0, 2, 4, 5}, {1, 3, 5, 6}, {2, 4, 6, 7},
          {0, 3, 4, 6, 7}, {0, 1, 6, 7}, {0, 1, 2, 4, 5, 6, 7},
          {0, 1, 2, 3, 4, 7})
    BY DEF Chain, Doubled, SymDiff
  <2>2. Holding(41, {1, 5, 7})
    BY <1>6 DEF Row, Holding
  <2>3. After(41, 42)
    BY DEF After
  <2>4. QED
    BY <2>1, <2>2, <2>3, NextRow, ZenonT(60)
<1>8. Row(49, {0, 1, 2, 3, 6}, {1, 2, 3, 4, 7}, {0, 2, 3, 6}, {1, 3, 4, 7},
        {0, 2, 6}, {1, 3, 7}, {0, 2, 5, 6})
  <2>1. Chain({0, 1, 2, 3, 4, 7}, {0, 1, 2, 3, 6}, {1, 2, 3, 4, 7}, {0, 2, 3, 6},
          {1, 3, 4, 7}, {0, 2, 6}, {1, 3, 7}, {0, 2, 5, 6})
    BY DEF Chain, Doubled, SymDiff
  <2>2. Holding(48, {0, 1, 2, 3, 4, 7})
    BY <1>7 DEF Row, Holding
  <2>3. After(48, 49)
    BY DEF After
  <2>4. QED
    BY <2>1, <2>2, <2>3, NextRow, ZenonT(60)
<1>9. Row(56, {1, 3, 6, 7}, {0, 2, 5, 6, 7}, {0, 1, 3, 4, 5, 7}, {0, 1, 2},
        {1, 2, 3}, {2, 3, 4}, {3, 4, 5})
  <2>1. Chain({0, 2, 5, 6}, {1, 3, 6, 7}, {0, 2, 5, 6, 7}, {0, 1, 3, 4, 5, 7},
          {0, 1, 2}, {1, 2, 3}, {2, 3, 4}, {3, 4, 5})
    BY DEF Chain, Doubled, SymDiff
  <2>2. Holding(55, {0, 2, 5, 6})
    BY <1>8 DEF Row, Holding
  <2>3. After(55, 56)
    BY DEF After
  <2>4. QED
    BY <2>1, <2>2, <2>3, NextRow, ZenonT(60)
<1>10. Row(63, {4, 5, 6}, {5, 6, 7}, {0, 4, 5, 7}, {0, 1, 4}, {1, 2, 5},
        {2, 3, 6}, {3, 4, 7})
  <2>1. Chain({3, 4, 5}, {4, 5, 6}, {5, 6, 7}, {0, 4, 5, 7}, {0, 1, 4}, {1, 2, 5},
          {2, 3, 6}, {3, 4, 7})
    BY DEF Chain, Doubled, SymDiff
  <2>2. Holding(62, {3, 4, 5})
    BY <1>9 DEF Row, Holding
  <2>3. After(62, 63)
    BY DEF After
  <2>4. QED
    BY <2>1, <2>2, <2>3, NextRow, ZenonT(60)
<1>11. Row(70, {0, 6}, {1, 7}, {0, 2, 4, 5, 6}, {1, 3, 5, 6, 7}, {0, 2, 5, 7},
        {0, 1, 3, 4, 5}, {1, 2, 4, 5, 6})
  <2>1. Chain({3, 4, 7}, {0, 6}, {1, 7}, {0, 2, 4, 5, 6}, {1, 3, 5, 6, 7},
          {0, 2, 5, 7}, {0, 1, 3, 4, 5}, {1, 2, 4, 5, 6})
    BY DEF Chain, Doubled, SymDiff
  <2>2. Holding(69, {3, 4, 7})
    BY <1>10 DEF Row, Holding
  <2>3. After(69, 70)
    BY DEF After
  <2>4. QED
    BY <2>1, <2>2, <2>3, NextRow, ZenonT(60)
<1>12. Row(77, {2, 3, 5, 6, 7}, {0, 3, 5, 7}, {0, 1, 5}, {1, 2, 6}, {2, 3, 7},
        {0, 3, 5, 6}, {1, 4, 6, 7})
  <2>1. Chain({1, 2, 4, 5, 6}, {2, 3, 5, 6, 7}, {0, 3, 5, 7}, {0, 1, 5},
          {1, 2, 6}, {2, 3, 7}, {0, 3, 5, 6}, {1, 4, 6, 7})
    BY DEF Chain, Doubled, SymDiff
  <2>2. Holding(76, {1, 2, 4, 5, 6})
    BY <1>11 DEF Row, Holding
  <2>3. After(76, 77)
    BY DEF After
  <2>4. QED
    BY <2>1, <2>2, <2>3, NextRow, ZenonT(60)
<1>13. Row(84, {0, 2, 4, 6, 7}, {0, 1, 3, 4, 6, 7}, {0, 1, 2, 6, 7},
        {0, 1, 2, 3, 4, 5, 6, 7}, {0, 1, 2, 3, 7}, {0, 1, 2, 3, 5, 6},
        {1, 2, 3, 4, 6, 7})
  <2>1. Chain({1, 4, 6, 7}, {0, 2, 4, 6, 7}, {0, 1, 3, 4, 6, 7}, {0, 1, 2, 6, 7},
          {0, 1, 2, 3, 4, 5, 6, 7}, {0, 1, 2, 3, 7}, {0, 1, 2, 3, 5, 6},
          {1, 2, 3, 4, 6, 7})
    BY DEF Chain, Doubled, SymDiff
  <2>2. Holding(83, {1, 4, 6, 7})
    BY <1>12 DEF Row, Holding
  <2>3. After(83, 84)
    BY DEF After
  <2>4. QED
    BY <2>1, <2>2, <2>3, NextRow, ZenonT(60)
<1>14. RoundBits(0) = RoundConstant[1]
  BY <1>13 DEF Row, RoundBits, Keccak!Place, RoundConstant
<1>15. Row(91, {0, 2, 3, 6, 7}, {0, 1, 3, 5, 6, 7}, {0, 1, 2, 5, 7},
        {0, 1, 2, 3, 4, 5}, {1, 2, 3, 4, 5, 6}, {2, 3, 4, 5, 6, 7}, {0, 3, 7})
  <2>1. Chain({1, 2, 3, 4, 6, 7}, {0, 2, 3, 6, 7}, {0, 1, 3, 5, 6, 7},
          {0, 1, 2, 5, 7}, {0, 1, 2, 3, 4, 5}, {1, 2, 3, 4, 5, 6},
          {2, 3, 4, 5, 6, 7}, {0, 3, 7})
    BY DEF Chain, Doubled, SymDiff
  <2>2. Holding(90, {1, 2, 3, 4, 6, 7})
    BY <1>13 DEF Row, Holding
  <2>3. After(90, 91)
    BY DEF After
  <2>4. QED
    BY <2>1, <2>2, <2>3, NextRow, ZenonT(60)
<1>16. RoundBits(1) = RoundConstant[2]
  BY <1>15 DEF Row, RoundBits, Keccak!Place, RoundConstant
<1>17. Row(98, {0, 1, 5, 6}, {1, 2, 6, 7}, {0, 2, 3, 4, 5, 6, 7}, {0, 1, 3, 7},
        {0, 1, 2, 5, 6}, {1, 2, 3, 6, 7}, {0, 2, 3, 5, 6, 7})
  <2>1. Chain({0, 3, 7}, {0, 1, 5, 6}, {1, 2, 6, 7}, {0, 2, 3, 4, 5, 6, 7},
          {0, 1, 3, 7}, {0, 1, 2, 5, 6}, {1, 2, 3, 6, 7}, {0, 2, 3, 5, 6, 7})
    BY DEF Chain, Doubled, SymDiff
  <2>2. Holding(97, {0, 3, 7})
    BY <1>15 DEF Row, Holding
  <2>3. After(97, 98)
    BY DEF After
  <2>4. QED
    BY <2>1, <2>2, <2>3, NextRow, ZenonT(60)
<1>18. RoundBits(2) = RoundConstant[3]
  BY <1>17 DEF Row, RoundBits, Keccak!Place, RoundConstant
<1>19. Row(105, {0, 1, 3, 5, 7}, {0, 1, 2, 5}, {1, 2, 3, 6}, {2, 3, 4, 7},
        {0, 3, 6}, {1, 4, 7}, {0, 2, 4, 6})
  <2>1. Chain({0, 2, 3, 5, 6, 7}, {0, 1, 3, 5, 7}, {0, 1, 2, 5}, {1, 2, 3, 6},
          {2, 3, 4, 7}, {0, 3, 6}, {1, 4, 7}, {0, 2, 4, 6})
    BY DEF Chain, Doubled, SymDiff
  <2>2. Holding(104, {0, 2, 3, 5, 6, 7})
    BY <1>17 DEF Row, Holding
  <2>3. After(104, 105)
    BY DEF After
  <2>4. QED
    BY <2>1, <2>2, <2>3, NextRow, ZenonT(60)
<1>20. RoundBits(3) = RoundConstant[4]
  BY <1>19 DEF Row, RoundBits, Keccak!Place, RoundConstant
<1>21. Row(112, {1, 3, 5, 7}, {0, 2, 5}, {1, 3, 6}, {2, 4, 7}, {0, 3, 4, 6},
        {1, 4, 5, 7}, {0, 2, 4})
  <2>1. Chain({0, 2, 4, 6}, {1, 3, 5, 7}, {0, 2, 5}, {1, 3, 6}, {2, 4, 7},
          {0, 3, 4, 6}, {1, 4, 5, 7}, {0, 2, 4})
    BY DEF Chain, Doubled, SymDiff
  <2>2. Holding(111, {0, 2, 4, 6})
    BY <1>19 DEF Row, Holding
  <2>3. After(111, 112)
    BY DEF After
  <2>4. QED
    BY <2>1, <2>2, <2>3, NextRow, ZenonT(60)
<1>22. RoundBits(4) = RoundConstant[5]
  BY <1>21 DEF Row, RoundBits, Keccak!Place, RoundConstant
<1>23. Row(119, {1, 3, 5}, {2, 4, 6}, {3, 5, 7}, {0, 5}, {1, 6}, {2, 7},
        {0, 3, 4, 5, 6})
  <2>1. Chain({0, 2, 4}, {1, 3, 5}, {2, 4, 6}, {3, 5, 7}, {0, 5}, {1, 6}, {2, 7},
          {0, 3, 4, 5, 6})
    BY DEF Chain, Doubled, SymDiff
  <2>2. Holding(118, {0, 2, 4})
    BY <1>21 DEF Row, Holding
  <2>3. After(118, 119)
    BY DEF After
  <2>4. QED
    BY <2>1, <2>2, <2>3, NextRow, ZenonT(60)
<1>24. RoundBits(5) = RoundConstant[6]
  BY <1>23 DEF Row, RoundBits, Keccak!Place, RoundConstant
<1>25. Row(126, {1, 4, 5, 6, 7}, {0, 2, 4, 7}, {0, 1, 3, 4, 6}, {1, 2, 4, 5, 7},
        {0, 2, 3, 4}, {1, 3, 4, 5}, {2, 4, 5, 6})
  <2>1. Chain({0, 3, 4, 5, 6}, {1, 4, 5, 6, 7}, {0, 2, 4, 7}, {0, 1, 3, 4, 6},
          {1, 2, 4, 5, 7}, {0, 2, 3, 4}, {1, 3, 4, 5}, {2, 4, 5, 6})
    BY DEF Chain, Doubled, SymDiff
  <2>2. Holding(125, {0, 3, 4, 5, 6})
    BY <1>23 DEF Row, Holding
  <2>3. After(125, 126)
    BY DEF After
  <2>4. QED
    BY <2>1, <2>2, <2>3, NextRow, ZenonT(60)
<1>26. RoundBits(6) = RoundConstant[7]
  BY <1>25 DEF Row, RoundBits, Keccak!Place, RoundConstant
<1>27. Row(133, {3, 5, 6, 7}, {0, 5, 7}, {0, 1, 4, 5}, {1, 2, 5, 6},
        {2, 3, 6, 7}, {0, 3, 5, 6, 7}, {0, 1, 5, 7})
  <2>1. Chain({2, 4, 5, 6}, {3, 5, 6, 7}, {0, 5, 7}, {0, 1, 4, 5}, {1, 2, 5, 6},
          {2, 3, 6, 7}, {0, 3, 5, 6, 7}, {0, 1, 5, 7})
    BY DEF Chain, Doubled, SymDiff
  <2>2. Holding(132, {2, 4, 5, 6})
    BY <1>25 DEF Row, Holding
  <2>3. After(132, 133)
    BY DEF After
  <2>4. QED
    BY <2>1, <2>2, <2>3, NextRow, ZenonT(60)
<1>28. RoundBits(7) = RoundConstant[8]
  BY <1>27 DEF Row, RoundBits, Keccak!Place, RoundConstant
<1>29. Row(140, {0, 1, 2, 4, 5}, {1, 2, 3, 5, 6}, {2, 3, 4, 6, 7}, {0, 3, 6, 7},
        {0, 1, 5, 6, 7}, {0, 1, 2, 4, 5, 7}, {0, 1, 2, 3, 4})
  <2>1. Chain({0, 1, 5, 7}, {0, 1, 2, 4, 5}, {1, 2, 3, 5, 6}, {2, 3, 4, 6, 7},
          {0, 3, 6, 7}, {0, 1, 5, 6, 7}, {0, 1, 2, 4, 5, 7}, {0, 1, 2, 3, 4})
    BY DEF Chain, Doubled, SymDiff
  <2>2. Holding(139, {0, 1, 5, 7})
    BY <1>27 DEF Row, Holding
  <2>3. After(139, 140)
    BY DEF After
  <2>4. QED
    BY <2>1, <2>2, <2>3, NextRow, ZenonT(60)
<1>30. RoundBits(8) = RoundConstant[9]
  BY <1>29, SMTT(30) DEF Row, RoundBits, Keccak!Place, RoundConstant
<1>31. Row(147, {1, 2, 3, 4, 5}, {2, 3, 4, 5, 6}, {3, 4, 5, 6, 7}, {0, 7},
        {0, 1, 4, 5, 6}, {1, 2, 5, 6, 7}, {0, 2, 3, 4, 5, 7})
  <2>1. Chain({0, 1, 2, 3, 4}, {1, 2, 3, 4, 5}, {2, 3, 4, 5, 6}, {3, 4, 5, 6, 7},
          {0, 7}, {0, 1, 4, 5, 6}, {1, 2, 5, 6, 7}, {0, 2, 3, 4, 5, 7})
    BY DEF Chain, Doubled, SymDiff
  <2>2. Holding(146, {0, 1, 2, 3, 4})
    BY <1>29 DEF Row, Holding
  <2>3. After(146, 147)
    BY DEF After
  <2>4. QED
    BY <2>1, <2>2, <2>3, NextRow, ZenonT(60)
<1>32. RoundBits(9) = RoundConstant[10]
  BY <1>31 DEF Row, RoundBits, Keccak!Place, RoundConstant
<1>33. Row(154, {0, 1, 3}, {1, 2, 4}, {2, 3, 5}, {3, 4, 6}, {4, 5, 7}, {0, 4},
        {1, 5})
  <2>1. Chain({0, 2, 3, 4, 5, 7}, {0, 1, 3}, {1, 2, 4}, {2, 3, 5}, {3, 4, 6},
          {4, 5, 7}, {0, 4}, {1, 5})
    BY DEF Chain, Doubled, SymDiff
  <2>2. Holding(153, {0, 2, 3, 4, 5, 7})
    BY <1>31 DEF Row, Holding
  <2>3. After(153, 154)
    BY DEF After
  <2>4. QED
    BY <2>1, <2>2, <2>3, NextRow, ZenonT(60)
<1>34. RoundBits(10) = RoundConstant[11]
  BY <1>33 DEF Row, RoundBits, Keccak!Place, RoundConstant
<1>35. Row(161, {2, 6}, {3, 7}, {0, 5, 6}, {1, 6, 7}, {0, 2, 4, 5, 6, 7},
        {0, 1, 3, 4, 7}, {0, 1, 2, 6})
  <2>1. Chain({1, 5}, {2, 6}, {3, 7}, {0, 5, 6}, {1, 6, 7}, {0, 2, 4, 5, 6, 7},
          {0, 1, 3, 4, 7}, {0, 1, 2, 6})
    BY DEF Chain, Doubled, SymDiff
  <2>2. Holding(160, {1, 5})
    BY <1>33 DEF Row, Holding
  <2>3. After(160, 161)
    BY DEF After
  <2>4. QED
    BY <2>1, <2>2, <2>3, NextRow, ZenonT(60)
<1>36. RoundBits(11) = RoundConstant[12]
  BY <1>35 DEF Row, RoundBits, Keccak!Place, RoundConstant
<1>37. QED
  BY <1>14, <1>16, <1>18, <1>20, <1>22, <1>24, <1>26, <1>28, <1>30, <1>32, <1>34, <1>36

\* The banked code has the same twelve literals.
LEMMA ConstantsAreThose == StockConstant = RoundConstant
BY DEF StockConstant, RoundConstant

\* The banked code has the same lanes to read and the same rotations.
LEMMA TablesAgree ==
    \A p \in 0 .. 4, x \in 0 .. 4 :
        /\ Reads[p + 1][x + 1] = Feeds[5 * p + x + 1]
        /\ Rolls[p + 1][x + 1] = Turns[5 * p + x + 1]
BY DEF Reads, Rolls, Feeds, Turns

\* Pi: the lane that comes to column x of plane y.
LEMMA FeedsArePi ==
    \A x \in 0 .. 4, y \in 0 .. 4 :
        Feeds[5 * y + x + 1] = 5 * x + ((x + 3 * y) % 5)
BY DEF Feeds

\* When the walk comes to a lane; it never comes to lane 0.
Visit == << 0,  0, 18,  6, 12,  7, 23,  2,  9, 22,  1,  3, 17, 16, 20, 13,  8,  4,  5, 15, 19, 10, 21, 14, 11>>

Visits(t, x, y) ==
    /\ Keccak!Walk[t] = <<x, y>>
    /\ Visit[5 * y + x + 1] = t

\* The walk visits these lanes, one in each of its 24 steps.
LEMMA WalkVisits ==
    /\ \A t \in 0 .. 23 : \E x \in 0 .. 4, y \in 0 .. 4 : Visits(t, x, y)
    /\ \A x \in 0 .. 4, y \in 0 .. 4 :
          x # 0 \/ y # 0 => \E t \in 0 .. 23 : Visits(t, x, y)
<1>0. Visits(0, 1, 0)
  BY WalkSteps DEF Visits, Visit
<1>1. Visits(1, 0, 2)
  BY <1>0, WalkSteps DEF Onward, Visits, Visit
<1>2. Visits(2, 2, 1)
  BY <1>1, WalkSteps DEF Onward, Visits, Visit
<1>3. Visits(3, 1, 2)
  BY <1>2, WalkSteps DEF Onward, Visits, Visit
<1>4. Visits(4, 2, 3)
  BY <1>3, WalkSteps DEF Onward, Visits, Visit
<1>5. Visits(5, 3, 3)
  BY <1>4, WalkSteps DEF Onward, Visits, Visit
<1>6. Visits(6, 3, 0)
  BY <1>5, WalkSteps DEF Onward, Visits, Visit
<1>7. Visits(7, 0, 1)
  BY <1>6, WalkSteps DEF Onward, Visits, Visit
<1>8. Visits(8, 1, 3)
  BY <1>7, WalkSteps DEF Onward, Visits, Visit
<1>9. Visits(9, 3, 1)
  BY <1>8, WalkSteps DEF Onward, Visits, Visit
<1>10. Visits(10, 1, 4)
  BY <1>9, WalkSteps DEF Onward, Visits, Visit
<1>11. Visits(11, 4, 4)
  BY <1>10, WalkSteps DEF Onward, Visits, Visit
<1>12. Visits(12, 4, 0)
  BY <1>11, WalkSteps DEF Onward, Visits, Visit
<1>13. Visits(13, 0, 3)
  BY <1>12, WalkSteps DEF Onward, Visits, Visit
<1>14. Visits(14, 3, 4)
  BY <1>13, WalkSteps DEF Onward, Visits, Visit
<1>15. Visits(15, 4, 3)
  BY <1>14, WalkSteps DEF Onward, Visits, Visit
<1>16. Visits(16, 3, 2)
  BY <1>15, WalkSteps DEF Onward, Visits, Visit
<1>17. Visits(17, 2, 2)
  BY <1>16, WalkSteps DEF Onward, Visits, Visit
<1>18. Visits(18, 2, 0)
  BY <1>17, WalkSteps DEF Onward, Visits, Visit
<1>19. Visits(19, 0, 4)
  BY <1>18, WalkSteps DEF Onward, Visits, Visit
<1>20. Visits(20, 4, 2)
  BY <1>19, WalkSteps DEF Onward, Visits, Visit
<1>21. Visits(21, 2, 4)
  BY <1>20, WalkSteps DEF Onward, Visits, Visit
<1>22. Visits(22, 4, 1)
  BY <1>21, WalkSteps DEF Onward, Visits, Visit
<1>23. Visits(23, 1, 1)
  BY <1>22, WalkSteps DEF Onward, Visits, Visit
<1>24. \A t \in 0 .. 23 : \E x \in 0 .. 4, y \in 0 .. 4 : Visits(t, x, y)
  BY <1>0, <1>1, <1>2, <1>3, <1>4, <1>5, <1>6, <1>7, <1>8, <1>9, <1>10, <1>11, <1>12, <1>13, <1>14, <1>15, <1>16, <1>17, <1>18, <1>19, <1>20, <1>21, <1>22, <1>23
<1>25. \A x \in 0 .. 4 : x # 0 => \E t \in 0 .. 23 : Visits(t, x, 0)
  BY <1>0, <1>6, <1>12, <1>18
<1>26. \A x \in 0 .. 4 : \E t \in 0 .. 23 : Visits(t, x, 1)
  BY <1>2, <1>7, <1>9, <1>22, <1>23
<1>27. \A x \in 0 .. 4 : \E t \in 0 .. 23 : Visits(t, x, 2)
  BY <1>1, <1>3, <1>16, <1>17, <1>20
<1>28. \A x \in 0 .. 4 : \E t \in 0 .. 23 : Visits(t, x, 3)
  BY <1>4, <1>5, <1>8, <1>13, <1>15
<1>29. \A x \in 0 .. 4 : \E t \in 0 .. 23 : Visits(t, x, 4)
  BY <1>10, <1>11, <1>14, <1>19, <1>21
<1>30. QED
  BY <1>24, <1>25, <1>26, <1>27, <1>28, <1>29

\* The lane the walk comes to at step t turns as the tables say.
WalkTurn(q) ==
    LET t == CHOOSE u \in 0 .. 23 : Keccak!Walk[u] = q IN ((t + 1) * (t + 2)) \div 2

\* The literal rotations are rho's: the triangular numbers along the walk.
LEMMA TurnsAreRho ==
    ASSUME NEW x \in 0 .. 4, NEW y \in 0 .. 4, x # 0 \/ y # 0
    PROVE  /\ WalkTurn(<<(x + 3 * y) % 5, x>>) \in Nat
           /\ WalkTurn(<<(x + 3 * y) % 5, x>>) % 64 = Turns[5 * y + x + 1]
<1> DEFINE from == (x + 3 * y) % 5
           q == <<from, x>>
           v == Visit[5 * x + from + 1]
           t == CHOOSE u \in 0 .. 23 : Keccak!Walk[u] = q
<1>1. from \in 0 .. 4 /\ (from # 0 \/ x # 0)
  OBVIOUS
<1>2. v \in 0 .. 23 /\ Keccak!Walk[v] = q
  BY <1>1, WalkVisits, ZenonT(30) DEF Visits
<1>3. ASSUME NEW u \in 0 .. 23, Keccak!Walk[u] = q
      PROVE  u = v
  <2>1. PICK x1 \in 0 .. 4, y1 \in 0 .. 4 : Visits(u, x1, y1)
    BY WalkVisits
  <2>2. x1 = from /\ y1 = x
    BY <2>1, <1>3 DEF Visits
  <2>3. QED
    BY <2>1, <2>2 DEF Visits
<1>4. t = v
  <2> HIDE DEF v, q
  <2>1. QED
    BY <1>2, <1>3
<1>5. v \in Nat /\ (((v + 1) * (v + 2)) \div 2) % 64 = Turns[5 * y + x + 1]
  BY DEF Visit, Turns
<1>6. WalkTurn(q) = ((v + 1) * (v + 2)) \div 2
  BY <1>4 DEF WalkTurn
<1>7. QED
  BY <1>5, <1>6

-----------------------------------------------------------------------------
(* One round, lane by lane.                                                *)

Lanes == [0 .. 24 -> SUBSET (0 .. 63)]

\* How many of five, member by member.
Counted(T, k) == IF k \in T THEN 1 ELSE 0

\* The size of a set of some of five numbers, one number at a time.
LEMMA FiveCounted ==
    ASSUME NEW T \in SUBSET (0 .. 4)
    PROVE  Cardinality(T) = Counted(T, 0) + Counted(T, 1) + Counted(T, 2) + Counted(T, 3) + Counted(T, 4)
<1> DEFINE Upto(n) == T \cap (0 .. n - 1)
<1>0. \A k \in T : k \in 0 .. 4
  OBVIOUS
<1>1. Cardinality(Upto(0)) = 0
  <2>1. Upto(0) = {}
    BY <1>0
  <2>2. QED
    BY <2>1, FS_EmptySet
<1>2. \A n \in 0 .. 4 : IsFiniteSet(Upto(n)) /\ Cardinality(Upto(n)) \in Nat
  <2> TAKE n \in 0 .. 4
  <2>1. IsFiniteSet(0 .. 4)
    <3>1. 0 \in Int /\ 4 \in Int
      OBVIOUS
    <3>2. QED
      BY <3>1, FS_Interval, Zenon
  <2>2. Upto(n) \subseteq 0 .. 4
    OBVIOUS
  <2> HIDE DEF Upto
  <2>3. QED
    BY <2>1, <2>2, FS_Subset, FS_CardinalityType
<1>3. \A n \in 0 .. 4 : Cardinality(Upto(n + 1)) = Cardinality(Upto(n)) + Counted(T, n)
  <2> TAKE n \in 0 .. 4
  <2>1. CASE n \in T
    <3>1. Upto(n + 1) = Upto(n) \cup {n} /\ n \notin Upto(n)
      BY <1>0, <2>1
    <3> HIDE DEF Upto
    <3>2. QED
      BY <2>1, <3>1, <1>2, FS_AddElement DEF Counted
  <2>2. CASE n \notin T
    <3>1. Upto(n + 1) = Upto(n)
      BY <1>0, <2>2
    <3> HIDE DEF Upto
    <3>2. QED
      BY <2>2, <3>1, <1>2 DEF Counted
  <2>3. QED
    BY <2>1, <2>2
<1>4. T = Upto(5)
  <2>1. \A k \in T : k \in 0 .. 5 - 1
    BY <1>0
  <2>2. QED
    BY <2>1, Zenon
<1>5. \A n \in 0 .. 4 : Counted(T, n) \in {0, 1}
  BY DEF Counted
<1> HIDE DEF Upto
<1>6. QED
  BY <1>1, <1>3, <1>4, <1>5

\* The parity a cardinality defines is the exclusive or that theta takes.
LEMMA ParityIsSum ==
    ASSUME NEW lanes \in Lanes, NEW x \in 0 .. 4
    PROVE  Parity(lanes, x) =
           Keccak!Xor3(Keccak!Xor3(lanes[x], lanes[5 + x], lanes[10 + x]), lanes[15 + x], lanes[20 + x])
<1> DEFINE Holders(b) == {p \in 0 .. 4 : b \in lanes[5 * p + x]}
           sum == Keccak!Xor3(Keccak!Xor3(lanes[x], lanes[5 + x], lanes[10 + x]), lanes[15 + x], lanes[20 + x])
<1>1. sum \subseteq 0 .. 63
  BY DEF Lanes, Keccak!Xor3, Keccak!SymDiff
<1>2. ASSUME NEW b \in 0 .. 63
      PROVE  Cardinality(Holders(b)) % 2 = 1 <=> b \in sum
  <2> DEFINE n(p) == Counted(Holders(b), p)
  <2>1. /\ n(0) = IF b \in lanes[x] THEN 1 ELSE 0
        /\ n(1) = IF b \in lanes[5 + x] THEN 1 ELSE 0
        /\ n(2) = IF b \in lanes[10 + x] THEN 1 ELSE 0
        /\ n(3) = IF b \in lanes[15 + x] THEN 1 ELSE 0
        /\ n(4) = IF b \in lanes[20 + x] THEN 1 ELSE 0
    BY DEF Counted
  <2>2. Holders(b) \in SUBSET (0 .. 4)
    OBVIOUS
  <2> HIDE DEF Holders
  <2>3. Cardinality(Holders(b)) = n(0) + n(1) + n(2) + n(3) + n(4)
    BY <2>2, FiveCounted
  <2> HIDE DEF n
  <2>4. QED
    BY <2>1, <2>3 DEF Keccak!Xor3, Keccak!SymDiff
<1>3. Parity(lanes, x) = {b \in 0 .. 63 : Cardinality(Holders(b)) % 2 = 1}
  BY DEF Parity
<1> HIDE DEF Holders, sum
<1>4. Parity(lanes, x) = sum
  BY <1>1, <1>2, <1>3
<1>5. QED
  BY <1>4 DEF sum

Parities(lanes) == [x \in 0 .. 4 |-> Parity(lanes, x)]

\* Theta, lane by lane: the lane and the rotated parities of its two neighbours.
LEMMA ThetaLane ==
    ASSUME NEW lanes \in Lanes, NEW x \in 0 .. 4, NEW y \in 0 .. 4
    PROVE  Keccak!Theta(Matrix(lanes))[<<x, y>>] =
           SymDiff(lanes[5 * y + x], Difference(Parities(lanes), x))
<1> DEFINE m == Matrix(lanes)
           P == [k \in 0 .. 4 |-> Keccak!Xor3(Keccak!Xor3(m[<<k, 0>>], m[<<k, 1>>], m[<<k, 2>>]), m[<<k, 3>>], m[<<k, 4>>])]
<1>1. \A k \in 0 .. 4, j \in 0 .. 4 : m[<<k, j>>] = lanes[5 * j + k]
  BY DEF Matrix
<1>2. \A k \in 0 .. 4 : P[k] = Parities(lanes)[k]
  <2> TAKE k \in 0 .. 4
  <2>1. /\ m[<<k, 0>>] = lanes[k] /\ m[<<k, 1>>] = lanes[5 + k] /\ m[<<k, 2>>] = lanes[10 + k]
        /\ m[<<k, 3>>] = lanes[15 + k] /\ m[<<k, 4>>] = lanes[20 + k]
    <3> HIDE DEF m
    <3>1. \A j \in 0 .. 4 : m[<<k, j>>] = lanes[5 * j + k]
      BY <1>1
    <3>2. QED
      BY <3>1
  <2> HIDE DEF m
  <2>2. QED
    BY <2>1, ParityIsSum DEF Parities
<1>3. (x - 1) % 5 = (x + 4) % 5 /\ (x - 1) % 5 \in 0 .. 4 /\ (x + 1) % 5 \in 0 .. 4
  OBVIOUS
<1>4. Keccak!Theta(m)[<<x, y>>] = Keccak!Xor3(m[<<x, y>>], P[(x - 1) % 5], Keccak!Rotated(P[(x + 1) % 5], 1))
  <2> HIDE DEF m
  <2>1. <<x, y>> \in Keccak!Coord
    BY DEF Keccak!Coord
  <2>2. QED
    BY <2>1 DEF Keccak!Theta
<1> HIDE DEF P, m
<1>5. QED
  BY <1>1, <1>2, <1>3, <1>4 DEF Keccak!Xor3, Keccak!SymDiff, SymDiff, Difference, Keccak!Rotated, Rol64, m

\* ROL64 of a lane and the reference's rotation by the same amount are one.
LEMMA RotatedAlike ==
    ASSUME NEW lane \in SUBSET (0 .. 63), NEW n \in Nat, NEW m \in Nat, n % 64 = m
    PROVE  Keccak!Rotated(lane, n) = ROL64(lane, m)
<1>1. \A b \in lane : b \in Nat
  OBVIOUS
<1>2. \A b \in Nat : (b + n) % 64 = (b + m) % 64
  OBVIOUS
<1>3. \A b \in lane : (b + n) % 64 = (b + m) % 64
  BY <1>1, <1>2
<1>4. QED
  BY <1>3 DEF Keccak!Rotated, ROL64

\* A rotation by nothing is none.
LEMMA NotRotated ==
    ASSUME NEW lane \in SUBSET (0 .. 63)
    PROVE  ROL64(lane, 0) = lane
<1>1. \A b \in lane : (b + 0) % 64 = b
  OBVIOUS
<1>2. QED
  BY <1>1 DEF ROL64

\* What B receives at place i from lanes whose parities are C.
Fed(lanes, C, i) ==
    ROL64(SymDiff(lanes[Feeds[i + 1]], Difference(C, Feeds[i + 1] % 5)), Turns[i + 1])

\* A lane with D of its column is a lane.
LEMMA LanesMixed ==
    ASSUME NEW lanes \in Lanes, NEW k \in 0 .. 24, NEW x \in 0 .. 4
    PROVE  SymDiff(lanes[k], Difference(Parities(lanes), x)) \in SUBSET (0 .. 63)
<1>1. (x + 4) % 5 \in 0 .. 4 /\ (x + 1) % 5 \in 0 .. 4
  OBVIOUS
<1>2. \A j \in 0 .. 4 : Parities(lanes)[j] \in SUBSET (0 .. 63)
  BY DEF Parities, Parity
<1>3. Rol64(Parities(lanes)[(x + 1) % 5], 1) \in SUBSET (0 .. 63)
  <2>1. \A b \in 0 .. 63 : (b + 1) % 64 \in 0 .. 63
    OBVIOUS
  <2>2. QED
    BY <1>1, <1>2, <2>1 DEF Rol64
<1>4. lanes[k] \in SUBSET (0 .. 63)
  BY DEF Lanes
<1>5. QED
  BY <1>1, <1>2, <1>3, <1>4 DEF Difference, SymDiff

\* Theta, rho and pi together: what comes to column x of plane y.
LEMMA PiLane ==
    ASSUME NEW lanes \in Lanes, NEW x \in 0 .. 4, NEW y \in 0 .. 4
    PROVE  Keccak!Pi(Keccak!Rho(Keccak!Theta(Matrix(lanes))))[<<x, y>>]
           = Fed(lanes, Parities(lanes), 5 * y + x)
<1> DEFINE from == (x + 3 * y) % 5
           m == Keccak!Theta(Matrix(lanes))
           lane == SymDiff(lanes[5 * x + from], Difference(Parities(lanes), from))
<1>1. from \in 0 .. 4 /\ 5 * x + from \in 0 .. 24
  OBVIOUS
<1>2. m[<<from, x>>] = lane
  <2> HIDE DEF from
  <2>1. QED
    BY <1>1, ThetaLane
<1>3. Feeds[5 * y + x + 1] = 5 * x + from
  BY FeedsArePi
<1>4. (5 * x + from) % 5 = from
  <2> HIDE DEF from
  <2>1. QED
    BY <1>1
<1>5. lane \in SUBSET (0 .. 63)
  <2> HIDE DEF from
  <2>1. QED
    BY <1>1, LanesMixed
<1>6. Fed(lanes, Parities(lanes), 5 * y + x) = ROL64(lane, Turns[5 * y + x + 1])
  <2> HIDE DEF from
  <2>1. QED
    BY <1>3, <1>4 DEF Fed
<1>7. Keccak!Pi(Keccak!Rho(m))[<<x, y>>] = Keccak!Rho(m)[<<from, x>>]
  <2>1. <<x, y>> \in Keccak!Coord
    BY DEF Keccak!Coord
  <2> HIDE DEF m
  <2>2. QED
    BY <2>1 DEF Keccak!Pi
<1>8. <<from, x>> \in Keccak!Coord
  BY <1>1 DEF Keccak!Coord
<1>9. CASE x = 0 /\ y = 0
  <2>1. from = 0 /\ Turns[5 * y + x + 1] = 0
    BY <1>9 DEF Turns
  <2>2. Keccak!Rho(m)[<<from, x>>] = m[<<from, x>>]
    <3> HIDE DEF m, from
    <3>1. QED
      BY <1>8, <1>9, <2>1 DEF Keccak!Rho
  <2> HIDE DEF m, from, lane
  <2>3. QED
    BY <1>2, <1>5, <1>6, <1>7, <2>1, <2>2, NotRotated DEF m
<1>10. CASE x # 0 \/ y # 0
  <2> DEFINE t == WalkTurn(<<from, x>>)
  <2>1. t \in Nat /\ t % 64 = Turns[5 * y + x + 1]
    BY <1>10, TurnsAreRho
  <2>2. Turns[5 * y + x + 1] \in Nat
    BY DEF Turns
  <2>3. from # 0 \/ x # 0
    BY <1>10
  <2>4. Keccak!Rho(m)[<<from, x>>] = Keccak!Rotated(m[<<from, x>>], t)
    <3> HIDE DEF m, from
    <3>1. <<from, x>> # <<0, 0>>
      BY <2>3
    <3>2. QED
      BY <1>8, <3>1 DEF Keccak!Rho, WalkTurn
  <2> HIDE DEF m, from, lane, t
  <2>5. Keccak!Rotated(lane, t) = ROL64(lane, Turns[5 * y + x + 1])
    BY <1>5, <2>1, <2>2, RotatedAlike
  <2>6. QED
    BY <1>2, <1>6, <1>7, <2>4, <2>5 DEF m
<1>11. QED
  BY <1>9, <1>10

\* The lane written to column x of plane y before the constant: chi.
Chosen(lanes, C, x, y) ==
    SymDiff(Fed(lanes, C, 5 * y + x),
            andn64(Fed(lanes, C, 5 * y + ((x + 1) % 5)), Fed(lanes, C, 5 * y + ((x + 2) % 5))))

\* And with the constant, in lane 0.
Result(lanes, n, x, y) ==
    IF x = 0 /\ y = 0 THEN SymDiff(Chosen(lanes, Parities(lanes), x, y), RoundConstant[n + 1])
    ELSE Chosen(lanes, Parities(lanes), x, y)

\* Chi on what came to the row, the and-not of the next two columns.
LEMMA ChiLane ==
    ASSUME NEW lanes \in Lanes, NEW x \in 0 .. 4, NEW y \in 0 .. 4
    PROVE  Keccak!Chi(Keccak!Pi(Keccak!Rho(Keccak!Theta(Matrix(lanes)))))[<<x, y>>]
           = Chosen(lanes, Parities(lanes), x, y)
<1> DEFINE m == Keccak!Pi(Keccak!Rho(Keccak!Theta(Matrix(lanes))))
           x1 == (x + 1) % 5
           x2 == (x + 2) % 5
<1>1. x1 \in 0 .. 4 /\ x2 \in 0 .. 4
  OBVIOUS
<1>2. Keccak!Chi(m)[<<x, y>>] = Keccak!SymDiff(m[<<x, y>>], m[<<x2, y>>] \ m[<<x1, y>>])
  <2>1. <<x, y>> \in Keccak!Coord
    BY DEF Keccak!Coord
  <2> HIDE DEF m
  <2>2. QED
    BY <2>1 DEF Keccak!Chi
<1> HIDE DEF x1, x2
<1>3. /\ m[<<x, y>>] = Fed(lanes, Parities(lanes), 5 * y + x)
      /\ m[<<x1, y>>] = Fed(lanes, Parities(lanes), 5 * y + x1)
      /\ m[<<x2, y>>] = Fed(lanes, Parities(lanes), 5 * y + x2)
  BY <1>1, PiLane
<1> HIDE DEF m
<1>4. QED
  BY <1>2, <1>3 DEF Chosen, andn64, Keccak!SymDiff, SymDiff, x1, x2, m

\* A round of the definition is the table's lanes, rotations and constants.
LEMMA RoundLanes ==
    ASSUME NEW lanes \in Lanes, NEW n \in 0 .. 11, NEW out,
           \A x \in 0 .. 4, y \in 0 .. 4 : out[5 * y + x] = Result(lanes, n, x, y)
    PROVE  Matrix(out) = Keccak!KeccakRound(Matrix(lanes), n)
<1> DEFINE m == Keccak!Chi(Keccak!Pi(Keccak!Rho(Keccak!Theta(Matrix(lanes)))))
<1>1. \A x \in 0 .. 4, y \in 0 .. 4 : m[<<x, y>>] = Chosen(lanes, Parities(lanes), x, y)
  BY ChiLane
<1>2. m = [q \in Keccak!Coord |-> m[q]]
  BY DEF Keccak!Chi
<1>3. Keccak!KeccakRound(Matrix(lanes), n) = [m EXCEPT ![<<0, 0>>] = Keccak!SymDiff(@, RoundBits(n))]
  BY DEF Keccak!KeccakRound, Keccak!Iota, RoundBits
<1>4. RoundBits(n) = RoundConstant[n + 1]
  BY ConstantsAgree
<1> HIDE DEF m
<1>5. [m EXCEPT ![<<0, 0>>] = Keccak!SymDiff(@, RoundBits(n))]
      = [q \in Keccak!Coord |-> IF q = <<0, 0>> THEN Keccak!SymDiff(m[q], RoundConstant[n + 1]) ELSE m[q]]
  BY <1>2, <1>4
<1>6. \A q \in Keccak!Coord :
          out[5 * q[2] + q[1]] = IF q = <<0, 0>> THEN Keccak!SymDiff(m[q], RoundConstant[n + 1]) ELSE m[q]
  <2>1. ASSUME NEW x \in 0 .. 4, NEW y \in 0 .. 4
        PROVE  out[5 * y + x] = IF <<x, y>> = <<0, 0>> THEN Keccak!SymDiff(m[<<x, y>>], RoundConstant[n + 1])
                                ELSE m[<<x, y>>]
    BY <1>1 DEF Result, SymDiff, Keccak!SymDiff
  <2>2. SUFFICES ASSUME NEW q \in Keccak!Coord
                 PROVE  out[5 * q[2] + q[1]]
                        = IF q = <<0, 0>> THEN Keccak!SymDiff(m[q], RoundConstant[n + 1]) ELSE m[q]
    OBVIOUS
  <2>3. PICK x \in 0 .. 4, y \in 0 .. 4 : q = <<x, y>>
    BY DEF Keccak!Coord
  <2>4. q[1] = x /\ q[2] = y
    BY <2>3
  <2>5. QED
    BY <2>1, <2>3, <2>4, Zenon
<1>7. Matrix(out) = [q \in Keccak!Coord |-> out[5 * q[2] + q[1]]]
  BY DEF Matrix, Keccak!Coord
<1>8. QED
  BY <1>3, <1>5, <1>6, <1>7

-----------------------------------------------------------------------------
(* The permutation of riscv_fourq_verify.c.                                *)

\* Between rounds the live bank holds lanes of 64 bits and the carried parities
\* are theirs; after the last round no parities are made.
PermInv ==
    /\ start \in Inputs
    /\ a \in Lanes
    /\ round \in 0 .. 12
    /\ round < 12 => c = Parities(a)

\* What comes to a place of the row is a lane.
LEMMA FedType ==
    ASSUME NEW lanes \in Lanes, NEW i \in 0 .. 24
    PROVE  Fed(lanes, Parities(lanes), i) \in SUBSET (0 .. 63)
<1>1. Feeds[i + 1] \in 0 .. 24 /\ Feeds[i + 1] % 5 \in 0 .. 4 /\ Turns[i + 1] \in Nat
  BY DEF Feeds, Turns
<1> DEFINE lane == SymDiff(lanes[Feeds[i + 1]], Difference(Parities(lanes), Feeds[i + 1] % 5))
<1>2. lane \in SUBSET (0 .. 63)
  BY <1>1, LanesMixed
<1> HIDE DEF lane
<1>3. \A b \in lane : (b + Turns[i + 1]) % 64 \in 0 .. 63
  BY <1>1, <1>2
<1>4. QED
  BY <1>3 DEF Fed, ROL64, lane

\* What a round leaves in a place is a lane.
LEMMA ResultType ==
    ASSUME NEW lanes \in Lanes, NEW n \in 0 .. 11, NEW x \in 0 .. 4, NEW y \in 0 .. 4
    PROVE  Result(lanes, n, x, y) \in SUBSET (0 .. 63)
<1> DEFINE x1 == (x + 1) % 5
           x2 == (x + 2) % 5
<1>1. 5 * y + x \in 0 .. 24 /\ 5 * y + x1 \in 0 .. 24 /\ 5 * y + x2 \in 0 .. 24
  OBVIOUS
<1> HIDE DEF x1, x2
<1>2. Chosen(lanes, Parities(lanes), x, y) \in SUBSET (0 .. 63)
  BY <1>1, FedType DEF Chosen, andn64, SymDiff, x1, x2
<1>3. RoundConstant[n + 1] \in SUBSET (0 .. 63)
  BY DEF RoundConstant
<1>4. QED
  BY <1>2, <1>3 DEF Result, SymDiff

\* What a round writes, from lanes whose parities c holds.
LEMMA WrittenIsResult ==
    ASSUME PermInv, round < 12, NEW x \in 0 .. 4, NEW y \in 0 .. 4
    PROVE  Written(5 * y + x) = Result(a, round, x, y)
<1> DEFINE i == 5 * y + x
<1>1. i \in 0 .. 24 /\ (i \div 5) * 5 = 5 * y
      /\ \A k \in 0 .. 2 : (i + k) % 5 = (x + k) % 5
  OBVIOUS
<1>2. \A j \in 0 .. 24 : B(j) = Fed(a, Parities(a), j)
  BY DEF PermInv, B, D, Fed, Difference, ROL64, Rol64
<1>3. (x + 0) % 5 = x /\ (x + 1) % 5 \in 0 .. 4 /\ (x + 2) % 5 \in 0 .. 4
  OBVIOUS
<1>4. E(i) = SymDiff(B(5 * y + ((i + 0) % 5)), andn64(B(5 * y + ((i + 1) % 5)), B(5 * y + ((i + 2) % 5))))
  BY <1>1 DEF E
<1>5. E(i) = SymDiff(B(5 * y + x), andn64(B(5 * y + ((x + 1) % 5)), B(5 * y + ((x + 2) % 5))))
  <2>1. (i + 0) % 5 = x /\ (i + 1) % 5 = (x + 1) % 5 /\ (i + 2) % 5 = (x + 2) % 5
    BY <1>1, <1>3
  <2> HIDE DEF i
  <2>2. QED
    BY <1>4, <2>1
<1>6. E(i) = Chosen(a, Parities(a), x, y)
  <2>1. 5 * y + x \in 0 .. 24 /\ 5 * y + ((x + 1) % 5) \in 0 .. 24 /\ 5 * y + ((x + 2) % 5) \in 0 .. 24
    BY <1>3
  <2>2. QED
    BY <1>2, <1>5, <2>1 DEF Chosen
<1>7. i = 0 <=> x = 0 /\ y = 0
  OBVIOUS
<1> HIDE DEF i
<1>8. Written(i) = Result(a, round, x, y)
  BY <1>6, <1>7 DEF Written, Result
<1>9. QED
  BY <1>8 DEF i

\* Either round writes lanes again, and they are the definition's.
LEMMA RoundWritten ==
    ASSUME PermInv, round < 12, a' = [i \in 0 .. 24 |-> Written(i)]
    PROVE  /\ a' \in Lanes
           /\ Matrix(a') = Keccak!KeccakRound(Matrix(a), round)
<1>1. a \in Lanes /\ round \in 0 .. 11
  BY DEF PermInv
<1>2. \A x \in 0 .. 4, y \in 0 .. 4 : a'[5 * y + x] = Result(a, round, x, y)
  <2> TAKE x \in 0 .. 4, y \in 0 .. 4
  <2>1. 5 * y + x \in 0 .. 24
    OBVIOUS
  <2>2. QED
    BY <2>1, WrittenIsResult
<1>3. Matrix(a') = Keccak!KeccakRound(Matrix(a), round)
  BY <1>1, <1>2, RoundLanes
<1>4. \A i \in 0 .. 24 : a'[i] \in SUBSET (0 .. 63)
  <2> TAKE i \in 0 .. 24
  <2> DEFINE x == i % 5
             y == i \div 5
  <2>1. x \in 0 .. 4 /\ y \in 0 .. 4 /\ i = 5 * y + x
    OBVIOUS
  <2> HIDE DEF x, y
  <2>2. a'[5 * y + x] = Result(a, round, x, y) /\ Result(a, round, x, y) \in SUBSET (0 .. 63)
    BY <2>1, <1>1, <1>2, ResultType, ZenonT(30)
  <2>3. QED
    BY <2>1, <2>2
<1>5. QED
  BY <1>3, <1>4 DEF Lanes

\* The round of riscv_fourq_verify.c, with its literal lanes, rotations and
\* constants and the parities it carries from one round to the next, implements
\* Keccak-p[1600, 12] as it is defined, whatever the state it is given.
THEOREM Permutes == PermSpec => ImplementsKeccak
<1>1. PermInit => PermInv /\ Keccak!Init
  BY KeccakAssumption DEF PermInit, PermInv, Keccak!Init, Lanes, Parities
<1>2. ASSUME PermInv, [PermNext]_permVars
      PROVE  PermInv' /\ [Keccak!Next]_(Keccak!vars)
  <2>1. CASE Round
    <3>1. /\ round < 12 /\ round' = round + 1
          /\ a' = [i \in 0 .. 24 |-> Written(i)]
      BY <1>2, <2>1 DEF Round, PermInv
    <3>2. a' \in Lanes /\ Matrix(a') = Keccak!KeccakRound(Matrix(a), round)
      BY <1>2, <3>1, RoundWritten
    <3>3. PermInv'
      BY <1>2, <2>1, <3>2 DEF PermInv, Round, Parities
    <3>4. Keccak!Next
      BY <3>1, <3>2 DEF Keccak!Next
    <3>5. QED
      BY <3>3, <3>4
  <2>2. CASE LastRound
    <3>1. a' \in Lanes /\ Matrix(a') = Keccak!KeccakRound(Matrix(a), round)
      BY <1>2, <2>2, RoundWritten DEF LastRound
    <3>2. PermInv'
      BY <1>2, <2>2, <3>1 DEF PermInv, LastRound
    <3>3. Keccak!Next
      BY <2>2, <3>1 DEF LastRound, Keccak!Next
    <3>4. QED
      BY <3>2, <3>3
  <2>3. CASE UNCHANGED permVars
    BY <1>2, <2>3 DEF PermInv, permVars, Keccak!vars
  <2>4. QED
    BY <1>2, <2>1, <2>2, <2>3 DEF PermNext
<1>3. QED
  BY <1>1, <1>2, PTL DEF PermSpec, ImplementsKeccak, Keccak!Spec

-----------------------------------------------------------------------------
(* The permutation of stock_qubic.c.                                       *)

\* The two instances of the definition are one.
LEMMA SameDefinition ==
    \A m, n : StockReference!KeccakRound(m, n) = Keccak!KeccakRound(m, n)
<1>1. StockReference!Register = Keccak!Register
  BY DEF StockReference!Register, Keccak!Register, StockReference!SymDiff, Keccak!SymDiff
<1>2. StockReference!Walk = Keccak!Walk
  BY DEF StockReference!Walk, Keccak!Walk
<1>3. \A m : StockReference!Theta(m) = Keccak!Theta(m)
  BY DEF StockReference!Theta, Keccak!Theta, StockReference!Xor3, Keccak!Xor3, StockReference!SymDiff,
         Keccak!SymDiff, StockReference!Rotated, Keccak!Rotated, StockReference!Coord, Keccak!Coord
<1>4. \A m : StockReference!Rho(m) = Keccak!Rho(m)
  BY <1>2 DEF StockReference!Rho, Keccak!Rho, StockReference!Rotated, Keccak!Rotated,
              StockReference!Coord, Keccak!Coord
<1>5. \A m : StockReference!Pi(m) = Keccak!Pi(m)
  BY DEF StockReference!Pi, Keccak!Pi, StockReference!Coord, Keccak!Coord
<1>6. \A m : StockReference!Chi(m) = Keccak!Chi(m)
  BY DEF StockReference!Chi, Keccak!Chi, StockReference!Coord, Keccak!Coord,
         StockReference!SymDiff, Keccak!SymDiff
<1>7. \A m, n : StockReference!Iota(m, n) = Keccak!Iota(m, n)
  BY <1>1 DEF StockReference!Iota, Keccak!Iota, StockReference!Place, Keccak!Place,
              StockReference!SymDiff, Keccak!SymDiff
<1>8. QED
  BY <1>3, <1>4, <1>5, <1>6, <1>7 DEF StockReference!KeccakRound, Keccak!KeccakRound

\* No lane is read by two planes, so D is XORed into each lane once.
LEMMA ReadOnce ==
    \A p \in 0 .. 4, q \in 0 .. 4 : p # q => Touched(p) \cap Touched(q) = {}
<1>1. \A p \in 0 .. 4, x \in 0 .. 4 : Reads[p + 1][x + 1] = 5 * x + ((x + 3 * p) % 5)
  BY TablesAgree, FeedsArePi
<1>2. \A p \in 0 .. 4, q \in 0 .. 4, x \in 0 .. 4, y \in 0 .. 4 :
          5 * x + ((x + 3 * p) % 5) = 5 * y + ((y + 3 * q) % 5) => p = q
  <2> TAKE p \in 0 .. 4, q \in 0 .. 4, x \in 0 .. 4, y \in 0 .. 4
  <2>1. (x + 3 * p) % 5 \in 0 .. 4 /\ (y + 3 * q) % 5 \in 0 .. 4
    OBVIOUS
  <2>2. HAVE 5 * x + ((x + 3 * p) % 5) = 5 * y + ((y + 3 * q) % 5)
  <2>3. x = y
    BY <2>1, <2>2
  <2>4. (x + 3 * p) % 5 = (x + 3 * q) % 5
    BY <2>2, <2>3
  <2>5. QED
    BY <2>4
<1>3. QED
  BY <1>1, <1>2 DEF Touched

DoneBefore(p) == UNION {Touched(q) : q \in 0 .. p - 1}

\* So the lanes a plane touches are those that no earlier plane has.
LEMMA TouchedApart ==
    /\ DoneBefore(-1) = {} /\ DoneBefore(0) = {}
    /\ \A p \in 0 .. 4 : /\ DoneBefore(p + 1) = DoneBefore(p) \cup Touched(p)
                         /\ DoneBefore(p) \cap Touched(p) = {}
<1>1. DoneBefore(-1) = {} /\ DoneBefore(0) = {}
  BY DEF DoneBefore
<1>2. ASSUME NEW p \in 0 .. 4
      PROVE  DoneBefore(p + 1) = DoneBefore(p) \cup Touched(p)
  <2>1. \A q : q \in 0 .. (p + 1) - 1 <=> q \in 0 .. p - 1 \/ q = p
    OBVIOUS
  <2>2. QED
    BY <2>1 DEF DoneBefore
<1>3. ASSUME NEW p \in 0 .. 4
      PROVE  DoneBefore(p) \cap Touched(p) = {}
  <2>1. \A q \in 0 .. p - 1 : q \in 0 .. 4 /\ q # p
    OBVIOUS
  <2>2. QED
    BY <2>1, ReadOnce DEF DoneBefore
<1>4. QED
  BY <1>1, <1>2, <1>3

\* The exclusive or of the first p planes of column x.
Summed(lanes, p, x) ==
    CASE p = 1 -> lanes[x]
      [] p = 2 -> SymDiff(lanes[x], lanes[5 + x])
      [] p = 3 -> Keccak!Xor3(lanes[x], lanes[5 + x], lanes[10 + x])
      [] p = 4 -> SymDiff(Keccak!Xor3(lanes[x], lanes[5 + x], lanes[10 + x]), lanes[15 + x])
      [] p = 5 -> Keccak!Xor3(Keccak!Xor3(lanes[x], lanes[5 + x], lanes[10 + x]), lanes[15 + x], lanes[20 + x])

ColumnSets == [0 .. 4 -> SUBSET (0 .. 63)]

StockType ==
    /\ state \in Lanes
    /\ bank \in [0 .. 1 -> Lanes]
    /\ Cs \in ColumnSets
    /\ Ds \in ColumnSets
    /\ plane \in -1 .. 5
    /\ turn \in 0 .. 12

\* Within a round: D is that of the lanes the round started from, the planes
\* written so far are the definition's, and the new parities are theirs.
WithinRound ==
    /\ turn < 12
    /\ \A x \in 0 .. 4 : Ds[x] = Difference(Parities(RoundStart), x)
    /\ \A p \in 0 .. plane - 1, x \in 0 .. 4 : bank[New][5 * p + x] = Result(RoundStart, turn, x, p)
    /\ turn < 11 /\ plane > 0 => \A x \in 0 .. 4 : Cs[x] = Summed(bank[New], plane, x)

StockInv ==
    /\ StockType
    /\ plane \in 0 .. 4 => WithinRound
    /\ plane = -1 /\ turn < 12 => Cs = Parities(bank[Old])
    /\ plane = 5 => turn = 12 /\ state = bank[0]

\* The two banks are two.
LEMMA Banks == StockType => Old \in 0 .. 1 /\ New \in 0 .. 1 /\ New # Old
  BY DEF StockType, Old, New

\* What a round started from are lanes.
LEMMA RoundStartType == StockType /\ plane \in -1 .. 5 => RoundStart \in Lanes
<1> SUFFICES ASSUME StockType PROVE RoundStart \in Lanes
  OBVIOUS
<1>1. bank[Old] \in Lanes
  BY Banks DEF StockType
<1>2. \A i \in 0 .. 24 : Ds[i % 5] \in SUBSET (0 .. 63)
  <2>1. \A i \in 0 .. 24 : i % 5 \in 0 .. 4
    OBVIOUS
  <2>2. QED
    BY <2>1 DEF StockType, ColumnSets
<1>3. QED
  BY <1>1, <1>2 DEF RoundStart, Lanes, SymDiff

\* At the head of a round nothing has been XORed in.
LEMMA StartOfRound ==
    ASSUME StockType, plane \in {-1, 0}
    PROVE  RoundStart = bank[Old]
<1>1. bank[Old] \in Lanes
  BY Banks DEF StockType
<1>2. DoneBefore(plane) = {}
  BY TouchedApart
<1>3. RoundStart = [i \in 0 .. 24 |-> bank[Old][i]]
  BY <1>2 DEF RoundStart, DoneBefore
<1>4. QED
  BY <1>1, <1>3 DEF Lanes

\* What a plane reads and writes.
LEMMA PlaneIsResult ==
    ASSUME StockInv, plane \in 0 .. 4, NEW x \in 0 .. 4
    PROVE  Written64(x) = Result(RoundStart, turn, x, plane)
<1> DEFINE L == RoundStart
<1>1. \A k \in 0 .. 4 : Turned(k) = Fed(L, Parities(L), 5 * plane + k)
  <2> TAKE k \in 0 .. 4
  <2> DEFINE i == Reads[plane + 1][k + 1]
  <2>1. i = Feeds[5 * plane + k + 1] /\ Rolls[plane + 1][k + 1] = Turns[5 * plane + k + 1]
    BY TablesAgree
  <2>2. i = 5 * k + ((k + 3 * plane) % 5) /\ i \in Touched(plane)
    BY <2>1, FeedsArePi DEF Touched
  <2>3. i \in 0 .. 24
    <3>1. (k + 3 * plane) % 5 \in 0 .. 4
      OBVIOUS
    <3> HIDE DEF i
    <3>2. QED
      BY <2>2, <3>1
  <2> HIDE DEF i
  <2>4. i \notin DoneBefore(plane)
    BY <2>2, TouchedApart
  <2>5. L[i] = bank[Old][i]
    BY <2>3, <2>4 DEF RoundStart, DoneBefore
  <2>6. Mixed[i] = SymDiff(L[i], Ds[i % 5])
    BY <2>2, <2>3, <2>5 DEF Mixed
  <2>7. Ds[i % 5] = Difference(Parities(L), i % 5)
    <3>1. i % 5 \in 0 .. 4
      BY <2>3
    <3>2. QED
      BY <3>1 DEF StockInv, WithinRound
  <2>8. Turned(k) = Rol64(Mixed[i], Turns[5 * plane + k + 1])
    BY <2>1 DEF Turned, i
  <2> HIDE DEF L
  <2>9. Turned(k) = ROL64(SymDiff(L[i], Difference(Parities(L), i % 5)), Turns[5 * plane + k + 1])
    BY <2>6, <2>7, <2>8 DEF Rol64, ROL64
  <2>10. QED
    BY <2>1, <2>9 DEF Fed
<1>2. (x + 1) % 5 \in 0 .. 4 /\ (x + 2) % 5 \in 0 .. 4
  OBVIOUS
<1> DEFINE chi == SymDiff(Turned(x), AndNot(Turned((x + 1) % 5), Turned((x + 2) % 5)))
<1> HIDE DEF L
<1>3. chi = Chosen(L, Parities(L), x, plane)
  BY <1>1, <1>2 DEF Chosen, AndNot, andn64
<1>4. Written64(x) = IF plane = 0 /\ x = 0 THEN SymDiff(chi, StockConstant[turn + 1]) ELSE chi
  BY DEF Written64
<1> HIDE DEF chi
<1>5. QED
  BY <1>3, <1>4, ConstantsAreThose DEF Result, L

\* Either way of writing a plane: the lanes it leaves in the two banks.
PlaneStep ==
    /\ plane \in 0 .. 4 /\ turn < 12
    /\ bank' = BankWritten
    /\ PlaneDone
    /\ state' = state /\ Ds' = Ds
    /\ turn < 11 => Cs' = [x \in 0 .. 4 |-> Accumulated(x)]
    /\ turn = 11 => Cs' = Cs

\* Two writes at two different places.
LEMMA BothWritten ==
    ASSUME NEW S, NEW f \in [0 .. 1 -> S], NEW o \in 0 .. 1, NEW n \in 0 .. 1, n # o,
           NEW u \in S, NEW w \in S, NEW g, g = [[f EXCEPT ![o] = u] EXCEPT ![n] = w]
    PROVE  g \in [0 .. 1 -> S] /\ g[o] = u /\ g[n] = w
OBVIOUS

\* A plane mixes D into the lanes it reads of the one bank and writes five of the other.
LEMMA BanksWritten ==
    ASSUME StockInv, PlaneStep
    PROVE  /\ bank' \in [0 .. 1 -> Lanes]
           /\ bank'[Old] = Mixed
           /\ \A p \in 0 .. 4, x \in 0 .. 4 :
                 bank'[New][5 * p + x] = IF p = plane THEN Result(RoundStart, turn, x, plane)
                                         ELSE bank[New][5 * p + x]
<1> DEFINE written == [i \in 0 .. 24 |-> IF i \div 5 = plane THEN Written64(i % 5) ELSE bank[New][i]]
<1>1. /\ Old \in 0 .. 1 /\ New \in 0 .. 1 /\ New # Old
      /\ bank[Old] \in Lanes /\ bank[New] \in Lanes
  BY Banks DEF StockInv, StockType
<1>3. Mixed \in Lanes
  <2>1. \A i \in 0 .. 24 : Ds[i % 5] \in SUBSET (0 .. 63)
    <3>1. \A i \in 0 .. 24 : i % 5 \in 0 .. 4
      OBVIOUS
    <3>2. QED
      BY <3>1 DEF StockInv, StockType, ColumnSets
  <2>2. QED
    BY <1>1, <2>1 DEF Mixed, Lanes, SymDiff
<1>4. \A x \in 0 .. 4 : Written64(x) = Result(RoundStart, turn, x, plane)
  BY PlaneIsResult DEF PlaneStep
<1>5. RoundStart \in Lanes
  BY RoundStartType DEF StockInv, StockType
<1>6. plane \in 0 .. 4 /\ turn \in 0 .. 11
  BY DEF PlaneStep, StockInv, StockType
<1>7. written \in Lanes
  <2>1. ASSUME NEW i \in 0 .. 24
        PROVE  (IF i \div 5 = plane THEN Written64(i % 5) ELSE bank[New][i]) \in SUBSET (0 .. 63)
    <3>1. i % 5 \in 0 .. 4
      OBVIOUS
    <3>2. Written64(i % 5) \in SUBSET (0 .. 63)
      <4> DEFINE x == i % 5
      <4> HIDE DEF x
      <4>1. x \in 0 .. 4
        BY <3>1 DEF x
      <4>2. Result(RoundStart, turn, x, plane) \in SUBSET (0 .. 63)
        BY <1>5, <1>6, <4>1, ResultType, ZenonT(30)
      <4>3. QED
        BY <1>4, <4>1, <4>2 DEF x
    <3>3. bank[New][i] \in SUBSET (0 .. 63)
      BY <1>1 DEF Lanes
    <3>4. QED
      BY <3>2, <3>3
  <2>2. QED
    BY <2>1 DEF Lanes
<1>8. ASSUME NEW p \in 0 .. 4, NEW x \in 0 .. 4
      PROVE  written[5 * p + x] = IF p = plane THEN Result(RoundStart, turn, x, plane)
                                  ELSE bank[New][5 * p + x]
  <2>1. 5 * p + x \in 0 .. 24 /\ (5 * p + x) \div 5 = p /\ (5 * p + x) % 5 = x
    OBVIOUS
  <2>2. written[5 * p + x] = IF p = plane THEN Written64(x) ELSE bank[New][5 * p + x]
    BY <2>1
  <2> HIDE DEF written
  <2>3. QED
    BY <1>4, <2>2
<1>9. bank' \in [0 .. 1 -> Lanes] /\ bank'[Old] = Mixed /\ bank'[New] = written
  <2>1. bank' = [[bank EXCEPT ![Old] = Mixed] EXCEPT ![New] = written]
    BY <1>1 DEF PlaneStep, BankWritten
  <2> HIDE DEF written
  <2>2. bank \in [0 .. 1 -> Lanes]
    BY DEF StockInv, StockType
  <2>3. QED
    BY <1>1, <1>3, <1>7, <2>1, <2>2, BothWritten
<1> HIDE DEF written
<1>10. QED
  BY <1>1, <1>8, <1>9

\* Until its last plane a round shows the lanes it started from.
LEMMA StartKept ==
    ASSUME StockInv, PlaneStep, plane < 4
    PROVE  RoundStart' = RoundStart
<1>1. plane \in 0 .. 3 /\ plane' = plane + 1 /\ turn' = turn /\ Old' = Old /\ Ds' = Ds
  BY DEF PlaneStep, PlaneDone, Old
<1>2. bank'[Old] = Mixed
  BY BanksWritten
<1>3. DoneBefore(plane + 1) = DoneBefore(plane) \cup Touched(plane)
      /\ DoneBefore(plane) \cap Touched(plane) = {}
  BY <1>1, TouchedApart
<1>4. RoundStart' = [i \in 0 .. 24 |-> IF i \in DoneBefore(plane + 1) THEN SymDiff(Mixed[i], Ds[i % 5]) ELSE Mixed[i]]
  BY <1>1, <1>2 DEF RoundStart, DoneBefore, Touched
<1>5. RoundStart = [i \in 0 .. 24 |-> IF i \in DoneBefore(plane) THEN SymDiff(bank[Old][i], Ds[i % 5]) ELSE bank[Old][i]]
  BY DEF RoundStart, DoneBefore
<1>6. \A S, T : SymDiff(SymDiff(S, T), T) = S
  BY DEF SymDiff
<1>7. ASSUME NEW i \in 0 .. 24
      PROVE  (IF i \in DoneBefore(plane + 1) THEN SymDiff(Mixed[i], Ds[i % 5]) ELSE Mixed[i])
             = IF i \in DoneBefore(plane) THEN SymDiff(bank[Old][i], Ds[i % 5]) ELSE bank[Old][i]
  <2>1. CASE i \in Touched(plane)
    <3>1. Mixed[i] = SymDiff(bank[Old][i], Ds[i % 5])
      BY <2>1 DEF Mixed
    <3>2. QED
      BY <1>3, <1>6, <2>1, <3>1
  <2>2. CASE i \notin Touched(plane)
    <3>1. Mixed[i] = bank[Old][i]
      BY <2>2 DEF Mixed
    <3>2. QED
      BY <1>3, <2>2, <3>1
  <2>3. QED
    BY <2>1, <2>2
<1>8. QED
  BY <1>4, <1>5, <1>7

\* The parities grow with the planes.
LEMMA SumGrows ==
    ASSUME StockInv, PlaneStep, turn < 11
    PROVE  \A x \in 0 .. 4 : Cs'[x] = Summed(bank'[New], plane + 1, x)
<1> SUFFICES ASSUME NEW x \in 0 .. 4 PROVE Cs'[x] = Summed(bank'[New], plane + 1, x)
  OBVIOUS
<1> DEFINE new == bank'[New]
           w(p) == new[5 * p + x]
<1>1. plane \in 0 .. 4 /\ Cs'[x] = Accumulated(x)
  BY DEF PlaneStep
<1>2. new[5 * plane + x] = Written64(x)
  BY <1>1, BanksWritten, PlaneIsResult
<1>3. \A p \in 0 .. 4 : p # plane => bank[New][5 * p + x] = new[5 * p + x]
  BY BanksWritten
<1>4. plane > 0 => Cs[x] = Summed(bank[New], plane, x)
  BY <1>1 DEF StockInv, WithinRound
<1> HIDE DEF new
<1>5. CASE plane = 0
  BY <1>1, <1>2, <1>5 DEF Accumulated, Summed, new
<1>6. CASE plane = 1
  <2>1. bank[New][x] = new[x]
    BY <1>3, <1>6
  <2>2. new[5 + x] = Written64(x)
    BY <1>2, <1>6
  <2>3. QED
    BY <1>1, <1>4, <1>6, <2>1, <2>2 DEF Accumulated, Summed, new
<1>7. CASE plane = 2
  <2>1. bank[New][x] = new[x] /\ bank[New][5 + x] = new[5 + x]
    BY <1>3, <1>7
  <2>2. new[10 + x] = Written64(x)
    BY <1>2, <1>7
  <2>3. QED
    BY <1>1, <1>4, <1>7, <2>1, <2>2 DEF Accumulated, Summed, new, Keccak!Xor3, Keccak!SymDiff, SymDiff
<1>8. CASE plane = 3
  <2>1. bank[New][x] = new[x] /\ bank[New][5 + x] = new[5 + x] /\ bank[New][10 + x] = new[10 + x]
    BY <1>3, <1>8
  <2>2. new[15 + x] = Written64(x)
    BY <1>2, <1>8
  <2>3. QED
    BY <1>1, <1>4, <1>8, <2>1, <2>2 DEF Accumulated, Summed, new
<1>9. CASE plane = 4
  <2>1. /\ bank[New][x] = new[x] /\ bank[New][5 + x] = new[5 + x]
        /\ bank[New][10 + x] = new[10 + x] /\ bank[New][15 + x] = new[15 + x]
    BY <1>3, <1>9
  <2>2. new[20 + x] = Written64(x)
    BY <1>2, <1>9
  <2>3. QED
    BY <1>1, <1>4, <1>9, <2>1, <2>2 DEF Accumulated, Summed, new, Keccak!Xor3, Keccak!SymDiff, SymDiff
<1>10. QED
  BY <1>1, <1>5, <1>6, <1>7, <1>8, <1>9

\* The parities that grow stay parities.
LEMMA WrittenColumns ==
    ASSUME StockInv, PlaneStep
    PROVE  Cs' \in ColumnSets
<1>1. plane \in 0 .. 4 /\ turn \in 0 .. 11 /\ RoundStart \in Lanes /\ Cs \in ColumnSets
  BY RoundStartType DEF PlaneStep, StockInv, StockType
<1>2. \A x \in 0 .. 4 : Written64(x) \in SUBSET (0 .. 63)
  BY <1>1, PlaneIsResult, ResultType, SMTT(30)
<1>3. \A x \in 0 .. 4 : Accumulated(x) \in SUBSET (0 .. 63)
  BY <1>1, <1>2 DEF Accumulated, ColumnSets, SymDiff
<1>4. CASE turn < 11
  BY <1>3, <1>4 DEF PlaneStep, ColumnSets
<1>5. CASE turn = 11
  BY <1>1, <1>5 DEF PlaneStep
<1>6. QED
  BY <1>1, <1>4, <1>5

\* A plane keeps the types.
LEMMA TypeKept ==
    ASSUME StockInv, PlaneStep
    PROVE  StockType'
BY BanksWritten, WrittenColumns DEF StockInv, StockType, PlaneStep, PlaneDone

\* A plane that is not the last.
LEMMA MidPlane ==
    ASSUME StockInv, PlaneStep, plane < 4
    PROVE  StockInv' /\ turn' = turn /\ plane' = plane + 1 /\ RoundStart' = RoundStart
<1>1. plane \in 0 .. 3 /\ plane' = plane + 1 /\ turn' = turn /\ Old' = Old /\ New' = New /\ Ds' = Ds
  BY DEF PlaneStep, PlaneDone, Old, New
<1>2. RoundStart' = RoundStart
  BY StartKept
<1>3. \A p \in 0 .. plane' - 1, x \in 0 .. 4 : bank'[New][5 * p + x] = Result(RoundStart, turn, x, p)
  <2> TAKE p \in 0 .. plane' - 1, x \in 0 .. 4
  <2>1. p \in 0 .. 4 /\ (p = plane \/ p \in 0 .. plane - 1)
    BY <1>1
  <2>2. p \in 0 .. plane - 1 => p # plane /\ bank[New][5 * p + x] = Result(RoundStart, turn, x, p)
    BY <1>1 DEF StockInv, WithinRound
  <2>3. QED
    BY <2>1, <2>2, BanksWritten
<1>4. turn < 11 => \A x \in 0 .. 4 : Cs'[x] = Summed(bank'[New], plane', x)
  BY <1>1, SumGrows
<1>5. WithinRound'
  <2>1. \A x \in 0 .. 4 : Ds'[x] = Difference(Parities(RoundStart'), x)
    BY <1>1, <1>2 DEF StockInv, WithinRound
  <2>2. turn' < 12
    BY <1>1 DEF PlaneStep
  <2>3. QED
    BY <1>1, <1>2, <1>3, <1>4, <2>1, <2>2 DEF WithinRound
<1>6. StockType'
  BY TypeKept
<1>7. QED
  BY <1>1, <1>2, <1>5, <1>6 DEF StockInv

\* The last plane of a round completes it, in the other bank.
LEMMA EndPlane ==
    ASSUME StockInv, PlaneStep, plane = 4
    PROVE  /\ StockInv' /\ turn' = turn + 1 /\ plane' = -1
           /\ Matrix(RoundStart') = Keccak!KeccakRound(Matrix(RoundStart), turn)
<1>1. /\ plane' = -1 /\ turn' = turn + 1 /\ turn \in 0 .. 11
      /\ Old' = New
  BY DEF PlaneStep, PlaneDone, Old, New, StockInv, StockType
<1>2. StockType'
  BY TypeKept
<1>3. RoundStart' = bank'[New]
  <2>1. bank'[New] \in Lanes
    BY Banks, BanksWritten DEF StockInv
  <2>2. UNION {Touched(p)' : p \in 0 .. plane' - 1} = {}
    BY <1>1
  <2>3. RoundStart' = [i \in 0 .. 24 |-> bank'[New][i]]
    BY <1>1, <2>2 DEF RoundStart, Touched
  <2>4. QED
    BY <2>1, <2>3 DEF Lanes
<1>4. \A x \in 0 .. 4, y \in 0 .. 4 : bank'[New][5 * y + x] = Result(RoundStart, turn, x, y)
  <2> TAKE x \in 0 .. 4, y \in 0 .. 4
  <2>1. y = plane \/ y \in 0 .. plane - 1
    OBVIOUS
  <2>2. y \in 0 .. plane - 1 => y # plane /\ bank[New][5 * y + x] = Result(RoundStart, turn, x, y)
    BY DEF StockInv, WithinRound
  <2>3. QED
    BY <2>1, <2>2, BanksWritten
<1>5. RoundStart \in Lanes
  BY RoundStartType DEF StockInv, StockType
<1>6. Matrix(RoundStart') = Keccak!KeccakRound(Matrix(RoundStart), turn)
  <2>1. Matrix(bank'[New]) = Keccak!KeccakRound(Matrix(RoundStart), turn)
    BY <1>1, <1>4, <1>5, RoundLanes
  <2>2. QED
    BY <1>3, <2>1
<1>7. turn' < 12 => Cs' = Parities(bank'[Old'])
  <2> SUFFICES ASSUME turn' < 12 PROVE Cs' = Parities(bank'[New])
    BY <1>1
  <2>1. turn < 11
    BY <1>1
  <2>2. \A x \in 0 .. 4 : Cs'[x] = Summed(bank'[New], 5, x)
    BY <2>1, SumGrows
  <2>3. bank'[New] \in Lanes
    BY Banks, BanksWritten DEF StockInv
  <2>4. \A x \in 0 .. 4 : Cs'[x] = Parity(bank'[New], x)
    BY <2>2, <2>3, ParityIsSum DEF Summed
  <2>5. Cs' \in ColumnSets
    BY <1>2 DEF StockType
  <2>6. QED
    BY <2>4, <2>5 DEF Parities, ColumnSets
<1>8. StockInv'
  BY <1>1, <1>2, <1>7 DEF StockInv
<1>9. QED
  BY <1>1, <1>6, <1>8

\* The macros of stock_qubic.c permute as the definition does, although a round
\* XORs its differences into one bank while it fills the other and overwrites the
\* parities of one round with those of the next, whatever the state they are given.
THEOREM StockPermutes == StockSpec => StockImplementsKeccak
<1>1. StockInit => StockInv /\ StockReference!Init
  <2> SUFFICES ASSUME StockInit PROVE StockInv /\ StockReference!Init
    OBVIOUS
  <2>1. state \in Lanes /\ state \in StockInputs
    BY StockKeccakAssumption DEF StockInit, Lanes
  <2>2. bank \in [0 .. 1 -> Lanes] /\ bank[0] = state
    <3>1. \A k \in 0 .. 1 : [i \in 0 .. 24 |-> IF k = 0 THEN state[i] ELSE Unwritten] \in Lanes
      BY <2>1 DEF Lanes, Unwritten
    <3>2. state = [i \in 0 .. 24 |-> state[i]]
      BY <2>1 DEF Lanes
    <3>3. QED
      BY <3>1, <3>2 DEF StockInit
  <2>3. Cs = Parities(state) /\ Cs \in ColumnSets
    BY DEF StockInit, Parities, Parity, ColumnParity, ColumnSets
  <2>4. Ds \in ColumnSets /\ plane = -1 /\ turn = 0 /\ Old = 0
    BY DEF StockInit, ColumnSets, Unwritten, Old
  <2>5. StockInv
    BY <2>1, <2>2, <2>3, <2>4 DEF StockInv, StockType
  <2>6. RoundStart = state
    BY <2>2, <2>4, <2>5, StartOfRound DEF StockInv
  <2>7. QED
    BY <2>1, <2>4, <2>5, <2>6 DEF StockReference!Init
<1>2. ASSUME StockInv, [StockNext]_stockVars
      PROVE  StockInv' /\ [StockReference!Next]_(StockReference!vars)
  <2>1. CASE Differences
    <3>1. /\ turn < 12 /\ plane = -1 /\ plane' = 0
          /\ state' = state /\ bank' = bank /\ Cs' = Cs /\ turn' = turn
          /\ Ds' = [x \in 0 .. 4 |-> Difference(Cs, x)]
      BY <2>1 DEF Differences, Difference
    <3>2. Cs = Parities(bank[Old]) /\ bank[Old] \in Lanes
      BY <1>2, <3>1, Banks DEF StockInv, StockType
    <3>3. Ds' \in ColumnSets
      <4>1. \A x \in 0 .. 4 : Difference(Cs, x) \in SUBSET (0 .. 63)
        <5> TAKE x \in 0 .. 4
        <5>1. (x + 4) % 5 \in 0 .. 4 /\ (x + 1) % 5 \in 0 .. 4
          OBVIOUS
        <5>2. Cs[(x + 4) % 5] \in SUBSET (0 .. 63) /\ Cs[(x + 1) % 5] \in SUBSET (0 .. 63)
          BY <1>2, <5>1 DEF StockInv, StockType, ColumnSets
        <5>3. \A b \in 0 .. 63 : (b + 1) % 64 \in 0 .. 63
          OBVIOUS
        <5>4. Rol64(Cs[(x + 1) % 5], 1) \in SUBSET (0 .. 63)
          BY <5>2, <5>3 DEF Rol64
        <5>5. QED
          BY <5>2, <5>4 DEF Difference, SymDiff
      <4>2. QED
        BY <3>1, <4>1 DEF ColumnSets
    <3>4. StockType'
      BY <1>2, <3>1, <3>3 DEF StockInv, StockType
    <3>5. RoundStart = bank[Old]
      BY <1>2, <3>1, StartOfRound DEF StockInv
    <3>6. RoundStart' = bank[Old]
      <4>1. UNION {Touched(p)' : p \in 0 .. plane' - 1} = {}
        BY <3>1
      <4>2. RoundStart' = [i \in 0 .. 24 |-> bank[Old][i]]
        BY <3>1, <4>1 DEF RoundStart, Touched, Old
      <4>3. QED
        BY <3>2, <4>2 DEF Lanes
    <3>7. WithinRound'
      <4>1. \A x \in 0 .. 4 : Ds'[x] = Difference(Parities(RoundStart'), x)
        BY <3>1, <3>2, <3>6
      <4>2. 0 .. plane' - 1 = {}
        BY <3>1
      <4>3. QED
        BY <3>1, <4>1, <4>2 DEF WithinRound
    <3>8. StockInv'
      BY <3>1, <3>4, <3>7 DEF StockInv
    <3>9. QED
      BY <3>1, <3>5, <3>6, <3>8 DEF StockReference!vars
  <2>2. CASE WritePlane \/ WriteLastPlane
    <3>1. PlaneStep
      BY <1>2, <2>2 DEF WritePlane, WriteLastPlane, PlaneStep, StockInv, StockType
    <3>2. plane # 5 /\ turn < 12
      BY <3>1 DEF PlaneStep
    <3>3. CASE plane < 4
      <4>1. StockInv' /\ turn' = turn /\ plane' = plane + 1 /\ RoundStart' = RoundStart
        BY <1>2, <3>1, <3>3, MidPlane
      <4>2. plane' # 5
        BY <3>1, <3>3, <4>1 DEF PlaneStep
      <4>3. QED
        BY <3>2, <4>1, <4>2 DEF StockReference!vars
    <3>4. CASE plane = 4
      <4>1. /\ StockInv' /\ turn' = turn + 1 /\ plane' = -1
            /\ Matrix(RoundStart') = Keccak!KeccakRound(Matrix(RoundStart), turn)
        BY <1>2, <3>1, <3>4, EndPlane
      <4>2. StockMatrix(RoundStart') = StockReference!KeccakRound(StockMatrix(RoundStart), turn)
        BY <4>1, SameDefinition DEF Matrix, StockMatrix
      <4>3. StockReference!Next
        BY <3>2, <4>1, <4>2 DEF StockReference!Next
      <4>4. QED
        BY <4>1, <4>3
    <3>5. QED
      BY <3>1, <3>3, <3>4 DEF PlaneStep
  <2>3. CASE CopyToState
    <3>1. /\ turn = 12 /\ plane = -1 /\ plane' = 5 /\ turn' = turn
          /\ state' = bank[0] /\ bank' = bank /\ Cs' = Cs /\ Ds' = Ds
      BY <2>3 DEF CopyToState
    <3>2. RoundStart = bank[0]
      BY <1>2, <3>1, StartOfRound DEF StockInv, Old
    <3>3. StockInv'
      BY <1>2, <3>1 DEF StockInv, StockType
    <3>4. QED
      BY <3>1, <3>2, <3>3 DEF StockReference!vars
  <2>4. CASE UNCHANGED stockVars
    <3>1. RoundStart' = RoundStart /\ Old' = Old /\ New' = New
      BY <2>4 DEF stockVars, RoundStart, Old, New, Touched
    <3>2. StockInv'
      BY <1>2, <2>4, <3>1 DEF StockInv, StockType, WithinRound, stockVars
    <3>3. QED
      BY <2>4, <3>1, <3>2 DEF stockVars, StockReference!vars
  <2>5. QED
    BY <1>2, <2>1, <2>2, <2>3, <2>4 DEF StockNext
<1>3. QED
  BY <1>1, <1>2, PTL DEF StockSpec, StockImplementsKeccak, StockReference!Spec

-----------------------------------------------------------------------------
(* The hash of 64 bytes of stock_qubic.c.                                  *)

\* The definition the short function is compared with is the same one.
LEMMA SameDefinitionShort ==
    \A m, n : ShortReference!KeccakRound(m, n) = Keccak!KeccakRound(m, n)
<1>1. ShortReference!Register = Keccak!Register
  BY DEF ShortReference!Register, Keccak!Register, ShortReference!SymDiff, Keccak!SymDiff
<1>2. ShortReference!Walk = Keccak!Walk
  BY DEF ShortReference!Walk, Keccak!Walk
<1>3. \A m : ShortReference!Theta(m) = Keccak!Theta(m)
  BY DEF ShortReference!Theta, Keccak!Theta, ShortReference!Xor3, Keccak!Xor3, ShortReference!SymDiff,
         Keccak!SymDiff, ShortReference!Rotated, Keccak!Rotated, ShortReference!Coord, Keccak!Coord
<1>4. \A m : ShortReference!Rho(m) = Keccak!Rho(m)
  BY <1>2 DEF ShortReference!Rho, Keccak!Rho, ShortReference!Rotated, Keccak!Rotated,
              ShortReference!Coord, Keccak!Coord
<1>5. \A m : ShortReference!Pi(m) = Keccak!Pi(m)
  BY DEF ShortReference!Pi, Keccak!Pi, ShortReference!Coord, Keccak!Coord
<1>6. \A m : ShortReference!Chi(m) = Keccak!Chi(m)
  BY DEF ShortReference!Chi, Keccak!Chi, ShortReference!Coord, Keccak!Coord,
         ShortReference!SymDiff, Keccak!SymDiff
<1>7. \A m, n : ShortReference!Iota(m, n) = Keccak!Iota(m, n)
  BY <1>1 DEF ShortReference!Iota, Keccak!Iota, ShortReference!Place, Keccak!Place,
              ShortReference!SymDiff, Keccak!SymDiff
<1>8. QED
  BY <1>3, <1>4, <1>5, <1>6, <1>7 DEF ShortReference!KeccakRound, Keccak!KeccakRound

\* An exclusive or of many, one at a time.
LEMMA XoredNone ==
    \A f : Xored(f, {}) = {}
<1>1. \A f, b : {i \in {} : b \in f[i]} = {}
  OBVIOUS
<1>2. QED
  BY <1>1, FS_EmptySet DEF Xored

\* One more index adds one more exclusive or.
LEMMA XoredOneMore ==
    ASSUME NEW f, NEW S, IsFiniteSet(S), NEW k, k \notin S, f[k] \in SUBSET (0 .. 63)
    PROVE  IsFiniteSet(S \cup {k}) /\ Xored(f, S \cup {k}) = SymDiff(Xored(f, S), f[k])
<1>1. IsFiniteSet(S \cup {k})
  BY FS_AddElement
<1> DEFINE In(T, b) == {i \in T : b \in f[i]}
<1>2. ASSUME NEW b \in 0 .. 63
      PROVE  Cardinality(In(S \cup {k}, b)) % 2 = 1 <=> (b \in f[k] <=> ~(Cardinality(In(S, b)) % 2 = 1))
  <2>1. IsFiniteSet(In(S, b)) /\ Cardinality(In(S, b)) \in Nat
    BY FS_Subset, FS_CardinalityType
  <2>2. CASE b \in f[k]
    <3>1. In(S \cup {k}, b) = In(S, b) \cup {k} /\ k \notin In(S, b)
      BY <2>2
    <3> HIDE DEF In
    <3>2. Cardinality(In(S \cup {k}, b)) = Cardinality(In(S, b)) + 1
      BY <2>1, <3>1, FS_AddElement
    <3>3. QED
      BY <2>1, <2>2, <3>2
  <2>3. CASE b \notin f[k]
    <3>1. In(S \cup {k}, b) = In(S, b)
      BY <2>3
    <3>2. QED
      BY <2>3, <3>1
  <2>4. QED
    BY <2>2, <2>3
<1>3. \A T : Xored(f, T) = {b \in 0 .. 63 : Cardinality(In(T, b)) % 2 = 1}
  BY DEF Xored
<1> HIDE DEF In
<1>4. \A b \in 0 .. 63 : b \in Xored(f, S \cup {k}) <=> (b \in f[k] <=> b \notin Xored(f, S))
  BY <1>2, <1>3
<1>5. Xored(f, S) \subseteq 0 .. 63 /\ Xored(f, S \cup {k}) \subseteq 0 .. 63
  BY DEF Xored
<1>6. Xored(f, S \cup {k}) = SymDiff(Xored(f, S), f[k])
  BY <1>4, <1>5 DEF SymDiff
<1>7. QED
  BY <1>1, <1>6

\* The same with the sets and their exclusive ors under names.
LEMMA XoredNext ==
    ASSUME NEW f, NEW S, IsFiniteSet(S), NEW X, Xored(f, S) = X,
           NEW k, k \notin S, f[k] \in SUBSET (0 .. 63), NEW T, T = S \cup {k}
    PROVE  IsFiniteSet(T) /\ Xored(f, T) = SymDiff(X, f[k])
BY XoredOneMore

Three(f, i, j, k) ==
    /\ i # j /\ i # k /\ j # k
    /\ f[i] \in SUBSET (0 .. 63) /\ f[j] \in SUBSET (0 .. 63) /\ f[k] \in SUBSET (0 .. 63)

ThreeXored(f, i, j, k) ==
    /\ Xored(f, {i}) = f[i]
    /\ Xored(f, {i, j}) = SymDiff(f[i], f[j])
    /\ Xored(f, {i, j, k}) = SymDiff(SymDiff(f[i], f[j]), f[k])
    /\ IsFiniteSet({i, j, k})

\* Three of them.
LEMMA XoredThree ==
    ASSUME NEW f, NEW i, NEW j, NEW k, Three(f, i, j, k)
    PROVE  ThreeXored(f, i, j, k)
<1>0. /\ i # j /\ i # k /\ j # k
      /\ f[i] \in SUBSET (0 .. 63) /\ f[j] \in SUBSET (0 .. 63) /\ f[k] \in SUBSET (0 .. 63)
  BY DEF Three
<1> DEFINE S0 == {}
           S1 == {i}
           S2 == {i, j}
           S3 == {i, j, k}
           X1 == f[i]
           X2 == SymDiff(X1, f[j])
<1>1. IsFiniteSet(S0) /\ Xored(f, S0) = S0
  BY XoredNone, FS_EmptySet
<1>2. S1 = S0 \cup {i} /\ S2 = S1 \cup {j} /\ S3 = S2 \cup {k} /\ i \notin S0 /\ j \notin S1 /\ k \notin S2
  BY <1>0
<1>3. SymDiff(S0, f[i]) = X1
  BY DEF SymDiff
<1> HIDE DEF S0, S1, S2, S3, X1
<1>4. IsFiniteSet(S1) /\ Xored(f, S1) = SymDiff(S0, f[i])
  BY <1>0, <1>1, <1>2, XoredNext
<1>5. IsFiniteSet(S1) /\ Xored(f, S1) = X1
  BY <1>3, <1>4, Zenon
<1>6. IsFiniteSet(S2) /\ Xored(f, S2) = X2
  BY <1>0, <1>2, <1>5, XoredNext
<1> HIDE DEF X2
<1>7. IsFiniteSet(S3) /\ Xored(f, S3) = SymDiff(X2, f[k])
  BY <1>0, <1>2, <1>6, XoredNext
<1>8. QED
  BY <1>5, <1>6, <1>7, Zenon DEF ThreeXored, S1, S2, S3, X1, X2

Five(f, i, j, k, l, m) ==
    /\ Three(f, i, j, k)
    /\ l # i /\ l # j /\ l # k /\ m # i /\ m # j /\ m # k /\ m # l
    /\ f[l] \in SUBSET (0 .. 63) /\ f[m] \in SUBSET (0 .. 63)

\* Five of them are the reference's exclusive or of five.
LEMMA XoredFive ==
    ASSUME NEW f, NEW i, NEW j, NEW k, NEW l, NEW m, Five(f, i, j, k, l, m)
    PROVE  Xored(f, {i, j, k, l, m}) = Keccak!Xor3(Keccak!Xor3(f[i], f[j], f[k]), f[l], f[m])
<1>0. \A P, Q, T : Keccak!Xor3(P, Q, T) = SymDiff(SymDiff(P, Q), T)
  BY DEF Keccak!Xor3, Keccak!SymDiff, SymDiff
<1>1. IsFiniteSet({i, j, k}) /\ Xored(f, {i, j, k}) = Keccak!Xor3(f[i], f[j], f[k])
  <2>1. Three(f, i, j, k)
    BY DEF Five
  <2>2. ThreeXored(f, i, j, k)
    BY <2>1, XoredThree
  <2>3. QED
    BY <1>0, <2>2 DEF ThreeXored
<1> DEFINE S3 == {i, j, k}
           S4 == S3 \cup {l}
<1>2. l \notin S3 /\ m \notin S4 /\ f[l] \in SUBSET (0 .. 63) /\ f[m] \in SUBSET (0 .. 63)
  BY DEF Five
<1> HIDE DEF S3, S4
<1>3. IsFiniteSet(S4) /\ Xored(f, S4) = SymDiff(Xored(f, S3), f[l])
  <2>1. IsFiniteSet(S3)
    BY <1>1 DEF S3
  <2>2. IsFiniteSet(S3 \cup {l}) /\ Xored(f, S3 \cup {l}) = SymDiff(Xored(f, S3), f[l])
    BY <1>2, <2>1, XoredOneMore
  <2>3. QED
    BY <2>2 DEF S4
<1>4. Xored(f, S4 \cup {m}) = SymDiff(Xored(f, S4), f[m])
  BY <1>0, <1>2, <1>3, XoredOneMore
<1>5. S4 \cup {m} = {i, j, k, l, m}
  BY DEF S3, S4
<1>6. Xored(f, S3) = Keccak!Xor3(f[i], f[j], f[k])
  BY <1>1 DEF S3
<1>7. QED
  BY <1>0, <1>3, <1>4, <1>5, <1>6, Zenon

\* The parities it takes of all lanes are those of the definition.
LEMMA ColumnsAreParities ==
    ASSUME NEW lanes \in Lanes
    PROVE  Columns(lanes) = Parities(lanes)
<1>1. ASSUME NEW x \in 0 .. 4
      PROVE  Xored(lanes, {5 * p + x : p \in 0 .. 4}) = Parity(lanes, x)
  <2>1. {5 * p + x : p \in 0 .. 4} = {x, 5 + x, 10 + x, 15 + x, 20 + x}
    OBVIOUS
  <2>2. /\ lanes[x] \in SUBSET (0 .. 63) /\ lanes[5 + x] \in SUBSET (0 .. 63)
        /\ lanes[10 + x] \in SUBSET (0 .. 63) /\ lanes[15 + x] \in SUBSET (0 .. 63)
        /\ lanes[20 + x] \in SUBSET (0 .. 63)
    BY DEF Lanes
  <2>3. Five(lanes, x, 5 + x, 10 + x, 15 + x, 20 + x)
    BY <2>2 DEF Five, Three
  <2>4. Xored(lanes, {x, 5 + x, 10 + x, 15 + x, 20 + x}) = Parity(lanes, x)
    BY <2>3, XoredFive, ParityIsSum
  <2>5. QED
    BY <2>1, <2>4
<1>2. QED
  BY <1>1 DEF Columns, Parities

\* The lanes after a round.
NextLanes(lanes, n) == [i \in 0 .. 24 |-> Result(lanes, n, i % 5, i \div 5)]

\* A round of the definition, as lanes: the matrix of what the table's round leaves.
LEMMA NextLanesAre ==
    ASSUME NEW lanes \in Lanes, NEW n \in 0 .. 11
    PROVE  /\ NextLanes(lanes, n) \in Lanes
           /\ Matrix(NextLanes(lanes, n)) = Keccak!KeccakRound(Matrix(lanes), n)
           /\ \A x \in 0 .. 4, y \in 0 .. 4 : NextLanes(lanes, n)[5 * y + x] = Result(lanes, n, x, y)
<1>1. \A i \in 0 .. 24 : Result(lanes, n, i % 5, i \div 5) \in SUBSET (0 .. 63)
  <2> TAKE i \in 0 .. 24
  <2> DEFINE x == i % 5
             y == i \div 5
  <2>1. x \in 0 .. 4 /\ y \in 0 .. 4
    OBVIOUS
  <2> HIDE DEF x, y
  <2>2. Result(lanes, n, x, y) \in SUBSET (0 .. 63)
    BY <2>1, ResultType
  <2>3. QED
    BY <2>2 DEF x, y
<1>2. \A x \in 0 .. 4, y \in 0 .. 4 : NextLanes(lanes, n)[5 * y + x] = Result(lanes, n, x, y)
  <2> TAKE x \in 0 .. 4, y \in 0 .. 4
  <2>1. 5 * y + x \in 0 .. 24 /\ (5 * y + x) % 5 = x /\ (5 * y + x) \div 5 = y
    OBVIOUS
  <2>2. QED
    BY <2>1 DEF NextLanes
<1>3. Matrix(NextLanes(lanes, n)) = Keccak!KeccakRound(Matrix(lanes), n)
  BY <1>2, RoundLanes
<1>4. QED
  BY <1>1, <1>2, <1>3 DEF NextLanes, Lanes

\* It has the same twelve literals.
LEMMA ShortConstantsToo == ShortConstant = RoundConstant
BY DEF ShortConstant, RoundConstant

\* What a plane of the written-out rounds reads and makes, where the bank holds
\* the lanes it reads.
Feeding(bits, lanes, p) ==
    \A k \in 0 .. 4 : bits[Feeds[5 * p + k + 1]] = lanes[Feeds[5 * p + k + 1]]

\* What it calls B is what comes to the row after theta, rho and pi.
LEMMA ShortBIsFed ==
    ASSUME NEW lanes, NEW bits, NEW C, NEW p \in 0 .. 4, NEW x \in Nat, Feeding(bits, lanes, p)
    PROVE  ShortB(bits, C, p, x) = Fed(lanes, C, 5 * p + (x % 5))
<1> DEFINE k == x % 5
<1>1. k \in 0 .. 4
  OBVIOUS
<1> HIDE DEF k
<1>2. Reads[p + 1][k + 1] = Feeds[5 * p + k + 1] /\ Rolls[p + 1][k + 1] = Turns[5 * p + k + 1]
  BY <1>1, TablesAgree
<1>3. QED
  BY <1>1, <1>2 DEF Feeding, ShortB, Fed, k, ROL64, Rol64

\* What it calls E is what the round leaves there.
LEMMA ShortEIsResult ==
    ASSUME NEW lanes, NEW bits, NEW p \in 0 .. 4, NEW x \in 0 .. 4, shortRound \in 0 .. 11,
           Feeding(bits, lanes, p)
    PROVE  /\ ShortE(bits, Parities(lanes), p, x) = Result(lanes, shortRound, x, p)
           /\ SymDiff(ShortB(bits, Parities(lanes), p, x), Nonlinear(bits, Parities(lanes), p, x))
              = Chosen(lanes, Parities(lanes), x, p)
<1> DEFINE C == Parities(lanes)
<1>1. x % 5 = x /\ (x + 1) % 5 \in 0 .. 4 /\ (x + 2) % 5 \in 0 .. 4 /\ x + 1 \in Nat /\ x + 2 \in Nat /\ x \in Nat
  OBVIOUS
<1> HIDE DEF C
<1>2. /\ ShortB(bits, C, p, x) = Fed(lanes, C, 5 * p + x)
      /\ ShortB(bits, C, p, x + 1) = Fed(lanes, C, 5 * p + ((x + 1) % 5))
      /\ ShortB(bits, C, p, x + 2) = Fed(lanes, C, 5 * p + ((x + 2) % 5))
  <2>1. \A w \in Nat : ShortB(bits, C, p, w) = Fed(lanes, C, 5 * p + (w % 5))
    BY ShortBIsFed, ZenonT(30)
  <2>2. QED
    BY <1>1, <2>1
<1>3. SymDiff(ShortB(bits, C, p, x), Nonlinear(bits, C, p, x)) = Chosen(lanes, C, x, p)
  BY <1>2 DEF Nonlinear, Chosen, AndNot, andn64
<1>4. ShortE(bits, C, p, x) = Result(lanes, shortRound, x, p)
  BY <1>3, ShortConstantsToo DEF ShortE, Result, C
<1>5. QED
  BY <1>3, <1>4 DEF C

\* All lanes at once.
LEMMA AllLanesAreNext ==
    ASSUME NEW lanes \in Lanes, shortRound \in 0 .. 11
    PROVE  AllLanes(lanes, Parities(lanes)) = NextLanes(lanes, shortRound)
<1>1. \A i \in 0 .. 24 : ShortE(lanes, Parities(lanes), i \div 5, i % 5) = Result(lanes, shortRound, i % 5, i \div 5)
  <2> TAKE i \in 0 .. 24
  <2> DEFINE x == i % 5
             p == i \div 5
  <2>1. x \in 0 .. 4 /\ p \in 0 .. 4 /\ Feeding(lanes, lanes, p)
    BY DEF Feeding
  <2> HIDE DEF x, p
  <2>2. ShortE(lanes, Parities(lanes), p, x) = Result(lanes, shortRound, x, p)
    BY <2>1, ShortEIsResult
  <2>3. QED
    BY <2>2 DEF x, p
<1>2. QED
  BY <1>1 DEF AllLanes, NextLanes

\* The padded block, lane by lane.
LEMMA BlockIsFirstLanes ==
    ASSUME input \in [0 .. 7 -> SUBSET (0 .. 63)]
    PROVE  Block = FirstLanes /\ FirstLanes \in Lanes
<1>1. FirstLanes \in Lanes
  BY DEF FirstLanes, Lanes
<1>2. ASSUME NEW i \in 0 .. 24, NEW b \in 0 .. 63
      PROVE  b % 8 \in BlockByte(8 * i + b \div 8) <=> b \in FirstLanes[i]
  <2> DEFINE j == 8 * i + b \div 8
             u == b \div 8
             v == b % 8
  <2>1. u \in 0 .. 7 /\ v \in 0 .. 7 /\ b = 8 * u + v
    OBVIOUS
  <2> HIDE DEF u, v
  <2>2. j = 8 * i + u
    BY DEF u
  <2> HIDE DEF j
  <2>3. j \div 8 = i /\ j % 8 = u
    BY <2>1, <2>2
  <2>4. CASE i \in 0 .. 7
    <3>1. j < 64
      BY <2>1, <2>2, <2>4
    <3>2. BlockByte(j) = {w \in 0 .. 7 : 8 * u + w \in input[i]}
      BY <2>3, <3>1 DEF BlockByte
    <3>3. FirstLanes[i] = input[i]
      BY <2>4 DEF FirstLanes
    <3>4. QED
      BY <2>1, <3>2, <3>3 DEF j, u, v
  <2>5. CASE i \notin 0 .. 7
    <3>1. ~(j < 64)
      BY <2>1, <2>2, <2>5
    <3>2. (j = 65 <=> i = 8 /\ u = 1) /\ (j = 167 <=> i = 20 /\ u = 7)
      BY <2>1, <2>2
    <3>3. v \in BlockByte(j) <=> (i = 8 /\ u = 1 /\ v \in 0 .. 2) \/ (i = 20 /\ u = 7 /\ v = 7)
      BY <3>1, <3>2 DEF BlockByte
    <3>4. b \in FirstLanes[i] <=> (i = 8 /\ b \in {8, 9, 10}) \/ (i = 20 /\ b = 63)
      BY <2>5 DEF FirstLanes
    <3>5. (b \in {8, 9, 10} <=> u = 1 /\ v \in 0 .. 2) /\ (b = 63 <=> u = 7 /\ v = 7)
      BY <2>1
    <3>6. QED
      BY <3>3, <3>4, <3>5 DEF j, u, v
  <2>6. QED
    BY <2>4, <2>5
<1>3. ASSUME NEW i \in 0 .. 24
      PROVE  {b \in 0 .. 63 : b % 8 \in BlockByte(8 * i + b \div 8)} = FirstLanes[i]
  <2>1. FirstLanes[i] \in SUBSET (0 .. 63)
    BY <1>1 DEF Lanes
  <2>2. QED
    BY <1>2, <2>1
<1>4. FirstLanes = [i \in 0 .. 24 |-> FirstLanes[i]]
  BY <1>1 DEF Lanes
<1>5. Block = FirstLanes
  BY <1>3, <1>4 DEF Block
<1>6. QED
  BY <1>1, <1>5

\* The terms of its first parities, one to three each, are all that is not zero.
LEMMA FirstParityIs ==
    ASSUME input \in [0 .. 7 -> SUBSET (0 .. 63)]
    PROVE  FirstParity = Parities(FirstLanes)
<1> DEFINE term == [i \in 0 .. 9 |-> IF i < 8 THEN input[i] ELSE IF i = 8 THEN {8, 9, 10} ELSE {63}]
           F == FirstLanes
           Sum(x) == Keccak!Xor3(Keccak!Xor3(F[x], F[5 + x], F[10 + x]), F[15 + x], F[20 + x])
<1>1. \A i \in 0 .. 9 : term[i] \in SUBSET (0 .. 63)
  OBVIOUS
<1>2. /\ term[0] = F[0] /\ term[5] = F[5] /\ term[9] = F[20] /\ F[10] = {} /\ F[15] = {}
      /\ term[1] = F[1] /\ term[6] = F[6] /\ F[11] = {} /\ F[16] = {} /\ F[21] = {}
      /\ term[2] = F[2] /\ term[7] = F[7] /\ F[12] = {} /\ F[17] = {} /\ F[22] = {}
      /\ term[3] = F[3] /\ term[8] = F[8] /\ F[13] = {} /\ F[18] = {} /\ F[23] = {}
      /\ term[4] = F[4] /\ F[9] = {} /\ F[14] = {} /\ F[19] = {} /\ F[24] = {}
  BY DEF FirstLanes
<1>3. FirstParity = [x \in 0 .. 4 |-> Xored(term, <<{0, 5, 9}, {1, 6}, {2, 7}, {3, 8}, {4}>>[x + 1])]
  BY DEF FirstParity
<1> HIDE DEF term, F
<1>4. /\ Three(term, 0, 5, 9) /\ Three(term, 1, 6, 0) /\ Three(term, 2, 7, 0)
      /\ Three(term, 3, 8, 0) /\ Three(term, 4, 0, 1)
  BY <1>1 DEF Three
<1>5. /\ ThreeXored(term, 0, 5, 9) /\ ThreeXored(term, 1, 6, 0) /\ ThreeXored(term, 2, 7, 0)
      /\ ThreeXored(term, 3, 8, 0) /\ ThreeXored(term, 4, 0, 1)
  BY <1>4, XoredThree
<1>6. /\ Xored(term, {0, 5, 9}) = SymDiff(SymDiff(term[0], term[5]), term[9])
      /\ Xored(term, {1, 6}) = SymDiff(term[1], term[6])
      /\ Xored(term, {2, 7}) = SymDiff(term[2], term[7])
      /\ Xored(term, {3, 8}) = SymDiff(term[3], term[8])
      /\ Xored(term, {4}) = term[4]
  BY <1>5 DEF ThreeXored
<1>7. /\ Xored(term, {0, 5, 9}) = Sum(0)
      /\ Xored(term, {1, 6}) = Sum(1)
      /\ Xored(term, {2, 7}) = Sum(2)
      /\ Xored(term, {3, 8}) = Sum(3)
      /\ Xored(term, {4}) = Sum(4)
  BY <1>2, <1>6 DEF Keccak!Xor3, Keccak!SymDiff, SymDiff
<1>8. \A x \in 0 .. 4 : Parities(FirstLanes)[x] = Sum(x)
  BY BlockIsFirstLanes, ParityIsSum DEF Parities, F
<1> HIDE DEF Sum
<1>9. ASSUME NEW x \in 0 .. 4
      PROVE  Xored(term, <<{0, 5, 9}, {1, 6}, {2, 7}, {3, 8}, {4}>>[x + 1]) = Parities(FirstLanes)[x]
  <2>1. /\ x = 0 => <<{0, 5, 9}, {1, 6}, {2, 7}, {3, 8}, {4}>>[x + 1] = {0, 5, 9}
        /\ x = 1 => <<{0, 5, 9}, {1, 6}, {2, 7}, {3, 8}, {4}>>[x + 1] = {1, 6}
        /\ x = 2 => <<{0, 5, 9}, {1, 6}, {2, 7}, {3, 8}, {4}>>[x + 1] = {2, 7}
        /\ x = 3 => <<{0, 5, 9}, {1, 6}, {2, 7}, {3, 8}, {4}>>[x + 1] = {3, 8}
        /\ x = 4 => <<{0, 5, 9}, {1, 6}, {2, 7}, {3, 8}, {4}>>[x + 1] = {4}
    OBVIOUS
  <2> DEFINE terms == <<{0, 5, 9}, {1, 6}, {2, 7}, {3, 8}, {4}>>[x + 1]
  <2> HIDE DEF terms
  <2>2. CASE x = 0
    <3>1. terms = {0, 5, 9}
      BY <2>1, <2>2 DEF terms
    <3>2. Xored(term, terms) = Sum(0)
      BY <1>7, <3>1
    <3>3. QED
      BY <1>8, <2>2, <3>2 DEF terms
  <2>3. CASE x = 1
    <3>1. terms = {1, 6}
      BY <2>1, <2>3 DEF terms
    <3>2. Xored(term, terms) = Sum(1)
      BY <1>7, <3>1
    <3>3. QED
      BY <1>8, <2>3, <3>2 DEF terms
  <2>4. CASE x = 2
    <3>1. terms = {2, 7}
      BY <2>1, <2>4 DEF terms
    <3>2. Xored(term, terms) = Sum(2)
      BY <1>7, <3>1
    <3>3. QED
      BY <1>8, <2>4, <3>2 DEF terms
  <2>5. CASE x = 3
    <3>1. terms = {3, 8}
      BY <2>1, <2>5 DEF terms
    <3>2. Xored(term, terms) = Sum(3)
      BY <1>7, <3>1
    <3>3. QED
      BY <1>8, <2>5, <3>2 DEF terms
  <2>6. CASE x = 4
    <3>1. terms = {4}
      BY <2>1, <2>6 DEF terms
    <3>2. Xored(term, terms) = Sum(4)
      BY <1>7, <3>1
    <3>3. QED
      BY <1>8, <2>6, <3>2 DEF terms
  <2>7. x = 0 \/ x = 1 \/ x = 2 \/ x = 3 \/ x = 4
    OBVIOUS
  <2>8. QED
    BY <2>2, <2>3, <2>4, <2>5, <2>6, <2>7 DEF terms
<1>10. QED
  BY <1>3, <1>9 DEF Parities

\* The history as lanes.
Unfolded(m) == [i \in 0 .. 24 |-> m[<<i % 5, i \div 5>>]]

\* Lanes put into a matrix and taken out again.
LEMMA UnfoldedMatrix ==
    ASSUME NEW lanes \in Lanes
    PROVE  Unfolded(Matrix(lanes)) = lanes
<1>1. \A i \in 0 .. 24 : Matrix(lanes)[<<i % 5, i \div 5>>] = lanes[i]
  <2> TAKE i \in 0 .. 24
  <2>1. i % 5 \in 0 .. 4 /\ i \div 5 \in 0 .. 4 /\ 5 * (i \div 5) + (i % 5) = i
    OBVIOUS
  <2>2. QED
    BY <2>1 DEF Matrix
<1>2. QED
  BY <1>1 DEF Unfolded, Lanes

GL == Unfolded(general)

\* Round by round the code holds the lanes of the definition, in the eleventh
\* those that are read again.
ShortInv ==
    /\ input \in [0 .. 7 -> SUBSET (0 .. 63)]
    /\ shortRound \in 0 .. 12
    /\ GL \in Lanes /\ general = Matrix(GL)
    /\ shortRound = 0 => GL = FirstLanes
    /\ shortRound \in 1 .. 10 => short = GL
    /\ shortRound = 11 => short = [i \in Diagonal |-> GL[i]]
    /\ shortRound \in 1 .. 11 => parity = Parities(GL)
    /\ shortRound = 12 => \A x \in 0 .. 3 : output[x] = GL[x]

\* The history makes a round of the definition in every step.
LEMMA GeneralStep ==
    ASSUME ShortInv, shortRound < 12, OneRound
    PROVE  /\ GL' = NextLanes(GL, shortRound)
           /\ GL' \in Lanes /\ general' = Matrix(GL')
           /\ shortRound' = shortRound + 1 /\ shortRound \in 0 .. 11
<1>1. GL \in Lanes /\ general = Matrix(GL) /\ shortRound \in 0 .. 11
  BY DEF ShortInv
<1>2. general' = Keccak!KeccakRound(Matrix(GL), shortRound)
  BY <1>1, SameDefinitionShort DEF OneRound
<1>3. NextLanes(GL, shortRound) \in Lanes /\ general' = Matrix(NextLanes(GL, shortRound))
  BY <1>1, <1>2, NextLanesAre
<1>4. GL' = Unfolded(general')
  BY DEF GL, Unfolded
<1>5. GL' = NextLanes(GL, shortRound)
  BY <1>3, <1>4, UnfoldedMatrix
<1>6. QED
  BY <1>1, <1>3, <1>5 DEF OneRound

\* The diagonal is what the first plane reads.
LEMMA DiagonalFeeds ==
    /\ \A x \in 0 .. 4 : Feeds[5 * 0 + x + 1] \in Diagonal
    /\ \A i \in Diagonal : i \in 0 .. 24 /\ i \div 5 \in 0 .. 4 /\ i % 5 = i \div 5
BY DEF Feeds, Diagonal

\* The eleventh parities, from one written lane and four that are not, are those of all lanes.
LEMMA EleventhParityIs ==
    ASSUME ShortInv, shortRound = 10, NEW x \in 0 .. 4
    PROVE  EleventhParity(x) = Parity(NextLanes(GL, shortRound), x)
<1> DEFINE next == NextLanes(GL, shortRound)
           lane == [p \in 0 .. 4 |-> IF p = x THEN ShortE(short, parity, x, x)
                    ELSE SymDiff(ShortB(short, parity, p, x), Nonlinear(short, parity, p, x))]
<1>1. short = GL /\ parity = Parities(GL) /\ GL \in Lanes
  BY DEF ShortInv
<1>2. next \in Lanes /\ \A p \in 0 .. 4 : next[5 * p + x] = Result(GL, shortRound, x, p)
  <2>1. shortRound \in 0 .. 11
    OBVIOUS
  <2>2. QED
    BY <1>1, <2>1, NextLanesAre DEF next
<1>3. \A p \in 0 .. 4 :
        /\ ShortE(short, parity, p, x) = Result(GL, shortRound, x, p)
        /\ SymDiff(ShortB(short, parity, p, x), Nonlinear(short, parity, p, x)) = Chosen(GL, Parities(GL), x, p)
  <2> TAKE p \in 0 .. 4
  <2>1. Feeding(short, GL, p)
    BY <1>1 DEF Feeding
  <2>2. shortRound \in 0 .. 11
    OBVIOUS
  <2>3. QED
    BY <1>1, <2>1, <2>2, ShortEIsResult
<1>4. \A p \in 0 .. 4 : p # x => Chosen(GL, Parities(GL), x, p) = Result(GL, shortRound, x, p)
  BY DEF Result
<1>5. EleventhParity(x) = Xored(lane, 0 .. 4)
  BY DEF EleventhParity
<1>6. \A p \in 0 .. 4 : lane[p] = next[5 * p + x]
  BY <1>2, <1>3, <1>4
<1> HIDE DEF lane, next
<1>7. /\ lane[0] = next[x] /\ lane[1] = next[5 + x] /\ lane[2] = next[10 + x]
      /\ lane[3] = next[15 + x] /\ lane[4] = next[20 + x]
  BY <1>6
<1>8. Five(lane, 0, 1, 2, 3, 4)
  <2>1. \A p \in 0 .. 4 : next[5 * p + x] \in SUBSET (0 .. 63)
    BY <1>2 DEF Lanes
  <2>2. \A p \in 0 .. 4 : lane[p] \in SUBSET (0 .. 63)
    BY <1>6, <2>1
  <2>3. QED
    BY <2>2 DEF Five, Three
<1>9. 0 .. 4 = {0, 1, 2, 3, 4}
  OBVIOUS
<1>10. Xored(lane, {0, 1, 2, 3, 4}) = Parity(next, x)
  <2>1. Xored(lane, {0, 1, 2, 3, 4}) = Keccak!Xor3(Keccak!Xor3(lane[0], lane[1], lane[2]), lane[3], lane[4])
    BY <1>8, XoredFive
  <2>2. QED
    BY <1>2, <1>7, <2>1, ParityIsSum
<1>11. QED
  BY <1>5, <1>9, <1>10 DEF next

\* The function stock_qubic.c has for 64 bytes computes KangarooTwelve's one
\* permutation of the padded block for every message: the lanes its first round
\* leaves out are zero, the parities it starts from and those it takes of lanes it
\* never writes are those of the definition, and the lanes it returns are too.
THEOREM ShortHashIsGeneral == ShortSpec => []ShortIsGeneral
<1>1. ShortInit => ShortInv
  <2> SUFFICES ASSUME ShortInit PROVE ShortInv
    OBVIOUS
  <2>1. input \in [0 .. 7 -> SUBSET (0 .. 63)] /\ shortRound = 0 /\ general = StockMatrix(Block)
    BY ShortAssumption DEF ShortInit
  <2>2. Block = FirstLanes /\ FirstLanes \in Lanes
    BY <2>1, BlockIsFirstLanes
  <2>3. general = Matrix(FirstLanes)
    BY <2>1, <2>2 DEF Matrix, StockMatrix
  <2>4. GL = FirstLanes
    BY <2>2, <2>3, UnfoldedMatrix DEF GL
  <2>5. QED
    BY <2>1, <2>2, <2>3, <2>4 DEF ShortInv
<1>2. ASSUME ShortInv, [ShortNext]_shortVars
      PROVE  ShortInv'
  <2>1. CASE FirstRound
    <3>1. /\ shortRound = 0 /\ OneRound /\ input' = input
          /\ short' = AllLanes(FirstLanes, FirstParity) /\ parity' = Columns(short')
      BY <2>1 DEF FirstRound
    <3>2. GL' = NextLanes(GL, 0) /\ GL' \in Lanes /\ general' = Matrix(GL') /\ shortRound' = 1
      BY <1>2, <3>1, GeneralStep
    <3>3. GL = FirstLanes /\ FirstParity = Parities(GL) /\ GL \in Lanes
      BY <1>2, <3>1, FirstParityIs DEF ShortInv
    <3>4. short' = GL'
      BY <3>1, <3>2, <3>3, AllLanesAreNext
    <3>5. parity' = Parities(GL')
      BY <3>1, <3>2, <3>4, ColumnsAreParities
    <3>6. QED
      BY <1>2, <3>1, <3>2, <3>4, <3>5 DEF ShortInv
  <2>2. CASE MiddleRound
    <3>1. /\ shortRound \in 1 .. 9 /\ OneRound /\ input' = input
          /\ short' = AllLanes(short, parity) /\ parity' = Columns(short')
      BY <2>2 DEF MiddleRound
    <3>2. GL' = NextLanes(GL, shortRound) /\ GL' \in Lanes /\ general' = Matrix(GL') /\ shortRound' = shortRound + 1
      BY <1>2, <3>1, GeneralStep
    <3>3. short = GL /\ parity = Parities(GL) /\ GL \in Lanes
      BY <1>2, <3>1 DEF ShortInv
    <3>4. short' = GL'
      BY <3>1, <3>2, <3>3, AllLanesAreNext
    <3>5. parity' = Parities(GL')
      BY <3>1, <3>2, <3>4, ColumnsAreParities
    <3>6. QED
      BY <1>2, <3>1, <3>2, <3>4, <3>5 DEF ShortInv
  <2>3. CASE EleventhRound
    <3>1. /\ shortRound = 10 /\ shortRound \in 0 .. 11 /\ OneRound /\ input' = input
          /\ short' = [i \in Diagonal |-> ShortE(short, parity, i \div 5, i % 5)]
          /\ parity' = [x \in 0 .. 4 |-> EleventhParity(x)]
      BY <2>3 DEF EleventhRound
    <3>2. GL' = NextLanes(GL, shortRound) /\ GL' \in Lanes /\ general' = Matrix(GL') /\ shortRound' = 11
      BY <1>2, <3>1, GeneralStep
    <3>3. short = GL /\ parity = Parities(GL) /\ GL \in Lanes
      BY <1>2, <3>1 DEF ShortInv
    <3>4. \A i \in Diagonal : ShortE(short, parity, i \div 5, i % 5) = GL'[i]
      <4> TAKE i \in Diagonal
      <4> DEFINE p == i \div 5
                 x == i % 5
      <4>1. p \in 0 .. 4 /\ x \in 0 .. 4 /\ i = 5 * p + x
        BY DiagonalFeeds
      <4> HIDE DEF p, x
      <4>2. Feeding(short, GL, p)
        BY <3>3 DEF Feeding
      <4>3. ShortE(short, parity, p, x) = Result(GL, shortRound, x, p)
        BY <3>1, <3>3, <4>1, <4>2, ShortEIsResult
      <4>4. GL'[i] = Result(GL, shortRound, x, p)
        BY <3>1, <3>2, <3>3, <4>1, NextLanesAre
      <4>5. QED
        BY <4>3, <4>4 DEF p, x
    <3>5. short' = [i \in Diagonal |-> GL'[i]]
      BY <3>1, <3>4
    <3>6. \A x \in 0 .. 4 : EleventhParity(x) = Parity(GL', x)
      BY <1>2, <3>1, <3>2, EleventhParityIs
    <3>7. parity' = Parities(GL')
      BY <3>1, <3>6 DEF Parities
    <3>8. QED
      BY <1>2, <3>1, <3>2, <3>5, <3>7 DEF ShortInv, Diagonal
  <2>4. CASE TwelfthRound
    <3>1. /\ shortRound = 11 /\ shortRound \in 0 .. 11 /\ OneRound /\ input' = input
          /\ output' = [x \in 0 .. 3 |-> ShortE(short, parity, 0, x)]
      BY <2>4 DEF TwelfthRound
    <3>2. GL' = NextLanes(GL, shortRound) /\ GL' \in Lanes /\ general' = Matrix(GL') /\ shortRound' = 12
      BY <1>2, <3>1, GeneralStep
    <3>3. short = [i \in Diagonal |-> GL[i]] /\ parity = Parities(GL) /\ GL \in Lanes
      BY <1>2, <3>1 DEF ShortInv
    <3>4. Feeding(short, GL, 0)
      BY <3>3, DiagonalFeeds DEF Feeding
    <3>5. \A x \in 0 .. 3 : output'[x] = GL'[x]
      <4> TAKE x \in 0 .. 3
      <4>1. x \in 0 .. 4 /\ x = 5 * 0 + x
        OBVIOUS
      <4>2. ShortE(short, parity, 0, x) = Result(GL, shortRound, x, 0)
        BY <3>1, <3>3, <3>4, <4>1, ShortEIsResult
      <4>3. \A y \in 0 .. 4 : GL'[5 * y + x] = Result(GL, shortRound, x, y)
        BY <3>1, <3>2, <3>3, <4>1, NextLanesAre
      <4>4. QED
        BY <3>1, <4>1, <4>2, <4>3
    <3>6. QED
      BY <1>2, <3>1, <3>2, <3>5 DEF ShortInv
  <2>5. CASE UNCHANGED shortVars
    <3>1. /\ input' = input /\ short' = short /\ parity' = parity
          /\ shortRound' = shortRound /\ output' = output /\ general' = general
      BY <2>5 DEF shortVars
    <3>2. GL' = GL
      BY <3>1 DEF GL, Unfolded
    <3>3. FirstLanes' = FirstLanes
      BY <3>1 DEF FirstLanes
    <3>4. QED
      BY <1>2, <3>1, <3>2, <3>3 DEF ShortInv, Diagonal
  <2>6. QED
    BY <1>2, <2>1, <2>2, <2>3, <2>4, <2>5 DEF ShortNext
<1>3. ShortInv => ShortIsGeneral
  <2> SUFFICES ASSUME ShortInv PROVE ShortIsGeneral
    OBVIOUS
  <2>1. GL \in Lanes /\ \A i \in 0 .. 24 : GL[i] = general[<<i % 5, i \div 5>>]
    BY DEF ShortInv, GL, Unfolded
  <2>2. \A x \in 0 .. 4, p \in 0 .. 4 : general[<<x, p>>] = GL[5 * p + x]
    <3> TAKE x \in 0 .. 4, p \in 0 .. 4
    <3>1. (5 * p + x) % 5 = x
      OBVIOUS
    <3>2. (5 * p + x) \div 5 = p
      OBVIOUS
    <3>3. 5 * p + x \in 0 .. 24
      OBVIOUS
    <3>4. QED
      BY <2>1, <3>1, <3>2, <3>3
  <2>3. ASSUME NEW x \in 0 .. 4
        PROVE  Xored([p \in 0 .. 4 |-> general[<<x, p>>]], 0 .. 4) = Parity(GL, x)
    <3> DEFINE g == [p \in 0 .. 4 |-> general[<<x, p>>]]
    <3>1. \A p \in 0 .. 4 : g[p] = GL[5 * p + x] /\ GL[5 * p + x] \in SUBSET (0 .. 63)
      <4> TAKE p \in 0 .. 4
      <4>1. g[p] = GL[5 * p + x]
        BY <2>2
      <4>2. 5 * p + x \in 0 .. 24
        OBVIOUS
      <4>3. QED
        BY <2>1, <4>1, <4>2 DEF Lanes
    <3> HIDE DEF g
    <3>2. /\ g[0] = GL[x] /\ g[1] = GL[5 + x] /\ g[2] = GL[10 + x] /\ g[3] = GL[15 + x] /\ g[4] = GL[20 + x]
      BY <3>1
    <3>3. Five(g, 0, 1, 2, 3, 4)
      BY <3>1 DEF Five, Three
    <3>4. 0 .. 4 = {0, 1, 2, 3, 4}
      OBVIOUS
    <3>5. Xored(g, {0, 1, 2, 3, 4}) = Keccak!Xor3(Keccak!Xor3(g[0], g[1], g[2]), g[3], g[4])
      BY <3>3, XoredFive
    <3>6. Xored(g, 0 .. 4) = Parity(GL, x)
      BY <2>1, <3>2, <3>4, <3>5, ParityIsSum
    <3>7. QED
      BY <3>6 DEF g
  <2>4. CASE shortRound \in 1 .. 11
    <3>1. \A i \in DOMAIN short : short[i] = general[<<i % 5, i \div 5>>]
      <4>1. CASE shortRound \in 1 .. 10
        <5>1. short = GL /\ DOMAIN GL = 0 .. 24
          BY <2>1, <4>1 DEF ShortInv, Lanes
        <5>2. QED
          BY <2>1, <5>1
      <4>2. CASE shortRound = 11
        <5>1. short = [i \in Diagonal |-> GL[i]]
          BY <4>2 DEF ShortInv
        <5>2. \A i \in Diagonal : short[i] = GL[i] /\ i \in 0 .. 24
          BY <5>1, DiagonalFeeds
        <5>3. DOMAIN short = Diagonal
          BY <5>1
        <5>4. QED
          BY <2>1, <5>2, <5>3
      <4>3. shortRound \in 1 .. 10 \/ shortRound = 11
        BY <2>4
      <4>4. QED
        BY <4>1, <4>2, <4>3
    <3>2. \A x \in 0 .. 4 : parity[x] = Parity(GL, x)
      BY <2>4 DEF ShortInv, Parities
    <3>3. QED
      BY <2>3, <2>4, <3>1, <3>2 DEF ShortIsGeneral
  <2>5. CASE shortRound = 12
    <3>1. \A x \in 0 .. 3 : output[x] = general[<<x, 0>>]
      BY <2>2, <2>5 DEF ShortInv
    <3>2. QED
      BY <2>5, <3>1 DEF ShortIsGeneral
  <2>6. CASE shortRound = 0
    BY <2>6 DEF ShortIsGeneral
  <2>7. QED
    BY <2>4, <2>5, <2>6 DEF ShortInv
<1>4. QED
  BY <1>1, <1>2, <1>3, PTL DEF ShortSpec

-----------------------------------------------------------------------------
(* Loops.                                                                  *)

\* Every turn, a step of g on states in S, of an unfinished loop brings its end nearer.
Nearer(S, g, rank) ==
    /\ g \in [S -> S] /\ rank \in [S -> Nat]
    /\ \A s \in S : rank[s] # 0 => rank[g[s]] < rank[s]
    /\ \A s \in S : rank[s] = 0 => rank[g[s]] = 0

\* The states of a loop, turn after turn, as long as they are in S.
Follows(n, S, x, g, h) ==
    /\ h[0] = x
    /\ \A k \in 1 .. n : h[k - 1] \in S => h[k] = g[h[k - 1]]

\* A loop whose rank starts at no more than its turns ends in a state of rank zero.
LEMMA LoopEnds ==
    ASSUME NEW n \in Nat, NEW S, NEW x \in S, NEW g, NEW rank, Nearer(S, g, rank), rank[x] <= n,
           NEW h, Follows(n, S, x, g, h)
    PROVE  h[n] \in S /\ rank[h[n]] = 0
<1> DEFINE Good == {k \in 0 .. n : h[k] \in S /\ (rank[h[k]] = 0 \/ rank[h[k]] <= n - k)}
<1>1. h[0] = x /\ \A k \in 1 .. n : h[k - 1] \in S => h[k] = g[h[k - 1]]
  BY DEF Follows
<1>2. 0 \in Good
  BY <1>1
<1>3. ASSUME NEW k \in 0 .. n - 1, k \in Good
      PROVE  k + 1 \in Good
  <2>1. k + 1 \in 1 .. n /\ k + 1 - 1 = k
    OBVIOUS
  <2>2. h[k] \in S /\ (rank[h[k]] = 0 \/ rank[h[k]] <= n - k)
    BY <1>3
  <2>3. h[k + 1] = g[h[k]]
    BY <1>1, <2>1, <2>2
  <2>4. h[k + 1] \in S /\ rank[h[k]] \in Nat /\ rank[h[k + 1]] \in Nat
    BY <2>2, <2>3 DEF Nearer
  <2>5. rank[h[k + 1]] = 0 \/ rank[h[k + 1]] < rank[h[k]]
    BY <2>2, <2>3 DEF Nearer
  <2>6. QED
    BY <2>1, <2>2, <2>4, <2>5
<1>4. \A k \in 0 .. n : k \in Good
  <2> HIDE DEF Good
  <2>1. QED
    BY <1>2, <1>3, UpTo
<1>5. n \in Good
  BY <1>4
<1>6. rank[h[n]] \in Nat
  BY <1>5 DEF Nearer
<1>7. QED
  BY <1>5, <1>6

\* The solution of a recursion is the function its definition says.
LEMMA SolutionIs ==
    ASSUME NEW n \in Nat, NEW S, NEW x \in S, NEW g \in [S -> S], NEW f, Solves(n, S, x, g, f)
    PROVE  /\ f = [k \in 0 .. n |-> IF k = 0 THEN x ELSE g[f[k - 1]]]
           /\ \A k \in 0 .. n : f[k] \in S
BY DEF Solves

-----------------------------------------------------------------------------
(* Bytes, blocks and divisions.                                            *)

\* Bytes are sets of tokens, blocks are rates of bytes.
Bytes(T) == SUBSET T
Blocks(T) == [0 .. Rate - 1 -> Bytes(T)]
Nodes(T) == [past : Seq(Blocks(T)), cur : Blocks(T), byteIOIndex : 0 .. Rate - 1]

\* A zero changes nothing.
LEMMA XorZero == \A x : SymDiff({}, x) = x /\ SymDiff(x, {}) = x
BY DEF SymDiff

\* The sum of two bytes is a byte.
LEMMA XorType == \A T : \A x, y \in Bytes(T) : SymDiff(x, y) \in Bytes(T)
BY DEF SymDiff, Bytes

\* What the assumption says of the sizes.
LEMMA Sizes ==
    /\ Rate \in Nat /\ Rate > 1 /\ Cap \in 1 .. Rate /\ Chunk \in Nat /\ Rate < Chunk
    /\ Lane \in Nat \ {0} /\ Lane < Rate
    /\ Rate % Lane = 0 /\ Chunk % Lane = 0 /\ (Chunk % Rate) + Lane < Rate
<1>1. {Rate, Cap, Chunk, Lane} \subseteq Nat \ {0} /\ Cap <= Rate /\ Rate < Chunk
      /\ Rate % Lane = 0 /\ Chunk % Lane = 0 /\ (Chunk % Rate) + Lane < Rate
  BY K12Assumption
<1>2. Chunk % Rate \in 0 .. Rate - 1
  BY <1>1
<1>3. QED
  BY <1>1, <1>2

\* A quotient and a remainder, once guessed, are those.
LEMMA Unique ==
    ASSUME NEW m \in Nat, m > 0, NEW q \in Int, NEW rest \in Int, 0 <= rest, rest < m,
           NEW x \in Int, x = m * q + rest
    PROVE  x % m = rest /\ x \div m = q
OBVIOUS

\* What quotient and remainder are.
LEMMA DivMod ==
    ASSUME NEW m \in Nat, m > 0, NEW x \in Nat
    PROVE  /\ x % m \in Nat /\ x % m < m /\ x \div m \in Nat
           /\ x = m * (x \div m) + (x % m)
OBVIOUS

\* Going on within a rate, or to its end.
LEMMA Onwards ==
    ASSUME NEW m \in Nat, m > 0, NEW v \in Nat, NEW more \in Nat
    PROVE  /\ (v % m) + more < m => (v + more) \div m = v \div m /\ (v + more) % m = (v % m) + more
           /\ (v % m) + more = m => (v + more) \div m = (v \div m) + 1 /\ (v + more) % m = 0
<1> DEFINE q == v \div m
           r == v % m
<1>1. q \in Nat /\ r \in Nat /\ r < m /\ v = m * q + r
  BY DivMod
<1>2. ASSUME r + more < m
      PROVE  (v + more) \div m = q /\ (v + more) % m = r + more
  <2> HIDE DEF q, r
  <2>1. v + more = m * q + (r + more)
    BY <1>1
  <2>2. QED
    BY <1>1, <1>2, <2>1, Unique
<1>3. ASSUME r + more = m
      PROVE  (v + more) \div m = q + 1 /\ (v + more) % m = 0
  <2> HIDE DEF q, r
  <2>1. m * (q + 1) = m * q + m
    BY <1>1
  <2>2. v + more = m * (q + 1) + 0
    BY <1>1, <1>3, <2>1
  <2>3. QED
    BY <1>1, <2>2, Unique
<1>4. QED
  BY <1>2, <1>3

\* Less by a whole one.
LEMMA Below ==
    ASSUME NEW d \in Nat, NEW k \in Nat, NEW q \in Nat, k < q
    PROVE  k * d + d <= q * d
<1>1. q = k + 1 + (q - k - 1) /\ q - k - 1 \in Nat
  OBVIOUS
<1>2. q * d = k * d + d + (q - k - 1) * d
  BY <1>1
<1>3. (q - k - 1) * d \in Nat /\ k * d \in Nat
  BY <1>1
<1>4. QED
  BY <1>2, <1>3
-----------------------------------------------------------------------------
(* Absorbing piece by piece.                                               *)

\* Sequences one after the other, under names of their own.
Then(p, f) == p \o f
Added(p, e) == Append(p, e)
Piece(data, i, n) == SubSeq(data, i + 1, i + n)

\* Byte j of rate k of what Bytewise absorbs, and the rate.
Spot(node, data, k, j) ==
    LET old == IF k = 0 THEN node.cur[j] ELSE {}
        i == k * Rate + j - node.byteIOIndex + 1
    IN  IF i \in 1 .. Len(data) THEN SymDiff(old, data[i]) ELSE old

Filled(node, data, k) == [j \in 0 .. Rate - 1 |-> Spot(node, data, k, j)]

\* How many rates are full then, and where the open one stands.
Full(node, data) == (node.byteIOIndex + Len(data)) \div Rate
At(node, data) == (node.byteIOIndex + Len(data)) % Rate

\* A node of these parts, and what changes when one of them does.
Node(past, cur, at) == [past |-> past, cur |-> cur, byteIOIndex |-> at]

\* Its parts are the ones it was put together from.
LEMMA NodeParts ==
    \A p, open, b : Node(p, open, b).past = p /\ Node(p, open, b).cur = open /\ Node(p, open, b).byteIOIndex = b
BY DEF Node

\* Changing one part of a node.
LEMMA NodeChanges ==
    \A p, open, b, x :
        /\ [Node(p, open, b) EXCEPT !.cur = x] = Node(p, x, b)
        /\ [Node(p, open, b) EXCEPT !.byteIOIndex = x] = Node(p, open, x)
BY DEF Node

\* The permutation closes a block.
LEMMA NodePermuted ==
    \A p, open, b : KeccakP1600_Permute_12rounds(Node(p, open, b)) = Node(Append(p, open), Zeros, b)
<1> SUFFICES ASSUME NEW p, NEW open, NEW b
             PROVE  KeccakP1600_Permute_12rounds(Node(p, open, b)) = Node(Append(p, open), Zeros, b)
  OBVIOUS
<1>1. \A x, y : [Node(p, open, b) EXCEPT !.past = x, !.cur = y] = [past |-> x, cur |-> y, byteIOIndex |-> b]
  <2> SUFFICES ASSUME NEW x, NEW y
               PROVE  [Node(p, open, b) EXCEPT !.past = x, !.cur = y] = [past |-> x, cur |-> y, byteIOIndex |-> b]
    OBVIOUS
  <2>1. [Node(p, open, b) EXCEPT !.past = x, !.cur = y] = [[Node(p, open, b) EXCEPT !.past = x] EXCEPT !.cur = y]
    OBVIOUS
  <2>2. [Node(p, open, b) EXCEPT !.past = x] = Node(x, open, b)
    BY DEF Node
  <2>3. [Node(x, open, b) EXCEPT !.cur = y] = [past |-> x, cur |-> y, byteIOIndex |-> b]
    BY DEF Node
  <2>4. QED
    BY <2>1, <2>2, <2>3
<1>2. KeccakP1600_Permute_12rounds(Node(p, open, b)) = [Node(p, open, b) EXCEPT !.past = Append(p, open), !.cur = Zeros]
  <2> DEFINE N == Node(p, open, b)
  <2>1. N.past = p /\ N.cur = open
    BY NodeParts
  <2>2. KeccakP1600_Permute_12rounds(N) = [N EXCEPT !.past = Append(N.past, N.cur), !.cur = Zeros]
    <3> HIDE DEF N
    <3>1. QED
      BY Zenon DEF KeccakP1600_Permute_12rounds
  <2> HIDE DEF N
  <2>3. QED
    BY <2>1, <2>2, Zenon DEF N
<1>3. QED
  BY <1>1, <1>2, Zenon DEF Node

\* Bytewise, rate by rate.
LEMMA BytewiseIs ==
    ASSUME NEW node, NEW data
    PROVE  Bytewise(node, data) =
               Node(node.past \o [k \in 1 .. Full(node, data) |-> Filled(node, data, k - 1)],
                    Filled(node, data, Full(node, data)), At(node, data))
BY Zenon DEF Bytewise, Filled, Spot, Full, At, Node

\* Each rate is one.
LEMMA FilledType ==
    ASSUME NEW T, NEW n0 \in Nodes(T), NEW data \in Seq(Bytes(T)), NEW k \in Nat
    PROVE  Filled(n0, data, k) \in Blocks(T)
<1>1. n0.cur \in Blocks(T) /\ {} \in Bytes(T)
  BY DEF Nodes, Bytes
<1>2. ASSUME NEW j \in 0 .. Rate - 1
      PROVE  Spot(n0, data, k, j) \in Bytes(T)
  <2> DEFINE old == IF k = 0 THEN n0.cur[j] ELSE {}
             i == k * Rate + j - n0.byteIOIndex + 1
  <2>1. old \in Bytes(T)
    BY <1>1 DEF Blocks
  <2>2. i \in 1 .. Len(data) => data[i] \in Bytes(T)
    OBVIOUS
  <2>3. i \in 1 .. Len(data) => SymDiff(old, data[i]) \in Bytes(T)
    <3> HIDE DEF old, i
    <3>1. QED
      BY <2>1, <2>2, XorType
  <2>4. Spot(n0, data, k, j) = IF i \in 1 .. Len(data) THEN SymDiff(old, data[i]) ELSE old
    BY Zenon DEF Spot
  <2>5. QED
    <3> HIDE DEF old, i
    <3>1. QED
      BY <2>1, <2>3, <2>4
<1>3. QED
  BY <1>2 DEF Filled, Blocks

\* A rate that is full already.
LEMMA FullStays ==
    ASSUME NEW T, NEW n0 \in Nodes(T), NEW str \in Seq(Bytes(T)), NEW d \in Seq(Bytes(T)), NEW k \in Nat,
           k < Full(n0, str)
    PROVE  Filled(n0, str \o d, k) = Filled(n0, str, k)
<1> DEFINE at == n0.byteIOIndex
           q == (at + Len(str)) \div Rate
           r == (at + Len(str)) % Rate
<1>1. at \in Nat /\ at < Rate /\ Rate \in Nat /\ Rate > 0 /\ Len(str) \in Nat /\ Len(d) \in Nat
  BY Sizes DEF Nodes
<1>2. q \in Nat /\ r \in Nat /\ at + Len(str) = Rate * q + r /\ k < q
  <2>1. at + Len(str) \in Nat
    <3> HIDE DEF at
    <3>1. QED
      BY <1>1
  <2>2. QED
    BY <1>1, <2>1, DivMod, Zenon DEF Full
<1>3. k * Rate + Rate <= q * Rate /\ k * Rate \in Nat /\ q * Rate = Rate * q
  <2> HIDE DEF q, r
  <2>1. QED
    BY <1>1, <1>2, Below
<1>4. ASSUME NEW j \in 0 .. Rate - 1
      PROVE  Spot(n0, str \o d, k, j) = Spot(n0, str, k, j)
  <2> DEFINE i == k * Rate + j - at + 1
  <2>1. i \in Int /\ i <= Len(str)
    <3> DEFINE low == k * Rate
               high == q * Rate
    <3>1. i = low + j - at + 1
      OBVIOUS
    <3> HIDE DEF q, r, i, at
    <3>2. low \in Nat /\ high \in Nat /\ low + Rate <= high /\ at + Len(str) = high + r
      BY <1>1, <1>2, <1>3
    <3> HIDE DEF low, high
    <3>3. QED
      BY <1>1, <1>2, <3>1, <3>2
  <2>2. i \in 1 .. Len(str) => (str \o d)[i] = str[i]
    OBVIOUS
  <2>3. Len(str \o d) = Len(str) + Len(d)
    OBVIOUS
  <2>4. i \in 1 .. Len(str \o d) <=> i \in 1 .. Len(str)
    <3> HIDE DEF i
    <3>1. QED
      BY <1>1, <2>1, <2>3
  <2>5. QED
    <3> HIDE DEF i
    <3>1. Spot(n0, str, k, j) = IF i \in 1 .. Len(str) THEN SymDiff(IF k = 0 THEN n0.cur[j] ELSE {}, str[i])
                                ELSE IF k = 0 THEN n0.cur[j] ELSE {}
      BY Zenon DEF Spot, i
    <3>2. Spot(n0, str \o d, k, j) =
            IF i \in 1 .. Len(str \o d) THEN SymDiff(IF k = 0 THEN n0.cur[j] ELSE {}, (str \o d)[i])
            ELSE IF k = 0 THEN n0.cur[j] ELSE {}
      BY Zenon DEF Spot, i
    <3>3. CASE i \in 1 .. Len(str)
      BY <2>2, <2>4, <3>1, <3>2, <3>3
    <3>4. CASE i \notin 1 .. Len(str)
      BY <2>4, <3>1, <3>2, <3>4
    <3>5. QED
      BY <3>3, <3>4
<1>5. QED
  BY <1>4, Zenon DEF Filled

\* A piece that fits goes onto the open rate.
LEMMA PieceFits ==
    ASSUME NEW T, NEW n0 \in Nodes(T), NEW str \in Seq(Bytes(T)), NEW d \in Seq(Bytes(T)),
           At(n0, str) + Len(d) <= Rate
    PROVE  Filled(n0, str \o d, Full(n0, str)) =
             [j \in 0 .. Rate - 1 |-> IF j \in At(n0, str) .. At(n0, str) + Len(d) - 1
                                      THEN SymDiff(Filled(n0, str, Full(n0, str))[j], d[j - At(n0, str) + 1])
                                      ELSE Filled(n0, str, Full(n0, str))[j]]
<1> DEFINE at == At(n0, str)
           q == Full(n0, str)
           first == n0.byteIOIndex
<1>1. first \in Nat /\ Rate \in Nat /\ Rate > 0 /\ Len(str) \in Nat /\ Len(d) \in Nat /\ Len(str \o d) = Len(str) + Len(d)
  BY Sizes DEF Nodes
<1>2. q \in Nat /\ at \in Nat /\ at < Rate /\ first + Len(str) = Rate * q + at
  <2>1. first + Len(str) \in Nat
    BY <1>1
  <2>2. QED
    BY <1>1, <2>1, DivMod, Zenon DEF At, Full
<1>3. q * Rate \in Nat /\ q * Rate = Rate * q
  <2> HIDE DEF q, at
  <2>1. QED
    BY <1>1, <1>2
<1>4. at + Len(d) <= Rate
  OBVIOUS
<1>5. ASSUME NEW j \in 0 .. Rate - 1
      PROVE  Spot(n0, str \o d, q, j) =
               IF j \in at .. at + Len(d) - 1 THEN SymDiff(Spot(n0, str, q, j), d[j - at + 1]) ELSE Spot(n0, str, q, j)
  <2> DEFINE i == q * Rate + j - first + 1
             old == IF q = 0 THEN n0.cur[j] ELSE {}
  <2>1. i \in Int /\ i = Len(str) + (j - at + 1)
    <3> HIDE DEF q, at, first
    <3>1. QED
      BY <1>1, <1>2, <1>3
  <2>2. i \in 1 .. Len(str) => (str \o d)[i] = str[i]
    OBVIOUS
  <2>3. j \in at .. at + Len(d) - 1 => (str \o d)[i] = d[j - at + 1]
    <3> HIDE DEF q, at, i
    <3>1. j \in at .. at + Len(d) - 1 => j - at + 1 \in 1 .. Len(d)
      BY <1>1, <1>2
    <3>2. \A e \in 1 .. Len(d) : (str \o d)[Len(str) + e] = d[e]
      OBVIOUS
    <3>3. QED
      BY <2>1, <3>1, <3>2
  <2>4. Spot(n0, str, q, j) = IF i \in 1 .. Len(str) THEN SymDiff(old, str[i]) ELSE old
    BY Zenon DEF Spot
  <2>5. Spot(n0, str \o d, q, j) = IF i \in 1 .. Len(str \o d) THEN SymDiff(old, (str \o d)[i]) ELSE old
    BY Zenon DEF Spot
  <2> HIDE DEF old, i
  <2>6. CASE j \in at .. at + Len(d) - 1
    <3>1. i \in 1 .. Len(str \o d) /\ i \notin 1 .. Len(str)
      <4> HIDE DEF q, at, first
      <4>1. QED
        BY <1>1, <1>2, <2>1, <2>6
    <3>2. QED
      BY <2>3, <2>4, <2>5, <2>6, <3>1, Zenon
  <2>7. CASE j \notin at .. at + Len(d) - 1
    <3>1. i \in 1 .. Len(str \o d) <=> i \in 1 .. Len(str)
      <4> HIDE DEF q, at, first
      <4>1. QED
        BY <1>1, <1>2, <2>1, <2>7
    <3>2. QED
      BY <2>2, <2>4, <2>5, <2>7, <3>1, Zenon
  <2>8. QED
    BY <2>6, <2>7
<1>6. \A j \in 0 .. Rate - 1 : Filled(n0, str, q)[j] = Spot(n0, str, q, j)
  BY DEF Filled
<1>7. QED
  <2> HIDE DEF q, at
  <2>1. Filled(n0, str \o d, q) =
                 [j \in 0 .. Rate - 1 |-> IF j \in at .. at + Len(d) - 1
                                          THEN SymDiff(Filled(n0, str, q)[j], d[j - at + 1])
                                          ELSE Filled(n0, str, q)[j]]
    <3>1. Filled(n0, str \o d, q) = [j \in 0 .. Rate - 1 |-> Spot(n0, str \o d, q, j)]
      BY DEF Filled
    <3>2. \A j \in 0 .. Rate - 1 :
            Spot(n0, str \o d, q, j) = IF j \in at .. at + Len(d) - 1
                                       THEN SymDiff(Filled(n0, str, q)[j], d[j - at + 1])
                                       ELSE Filled(n0, str, q)[j]
      BY <1>5, <1>6, Zenon
    <3>3. QED
      BY <3>1, <3>2, Zenon
  <2>2. QED
    BY <2>1, Zenon DEF q, at
\* Behind what is absorbed, the rates are empty.
LEMMA EmptyBehind ==
    ASSUME NEW T, NEW n0 \in Nodes(T), NEW str \in Seq(Bytes(T)), NEW k \in Nat,
           k # 0, n0.byteIOIndex + Len(str) <= k * Rate
    PROVE  Filled(n0, str, k) = Zeros
<1> DEFINE at == n0.byteIOIndex
           high == k * Rate
<1>1. at \in Nat /\ Rate \in Nat /\ Len(str) \in Nat
  BY Sizes DEF Nodes
<1>2. high \in Nat /\ at + Len(str) <= high
  BY <1>1
<1>3. ASSUME NEW j \in 0 .. Rate - 1
      PROVE  Spot(n0, str, k, j) = {}
  <2>1. high + j - at + 1 \notin 1 .. Len(str)
    <3> HIDE DEF high, at
    <3>1. QED
      BY <1>1, <1>2
  <2>2. QED
    BY <2>1, Zenon DEF Spot
<1>4. QED
  BY <1>3, Zenon DEF Filled, Zeros

\* One more block.
Rows(q, X) == [1 .. q -> X]
Longer(f, q, e) == [k \in 1 .. q + 1 |-> IF k = q + 1 THEN e ELSE f[k]]

\* Appending is that.
LEMMA OneMore ==
    ASSUME NEW X, NEW q \in Nat, NEW f \in Rows(q, X), NEW e \in X
    PROVE  f \in Seq(X) /\ Longer(f, q, e) = Append(f, e)
<1>1. f \in Seq(X) /\ Len(f) = q
  BY DEF Rows
<1> DEFINE g == Longer(f, q, e)
<1>2. g \in Seq(X) /\ Len(g) = q + 1
  BY DEF Longer, Rows
<1>3. Append(f, e) \in Seq(X) /\ Len(Append(f, e)) = q + 1
  BY <1>1
<1>4. \A k \in 1 .. q + 1 : Append(f, e)[k] = g[k]
  BY <1>1 DEF Longer
<1>5. QED
  <2> HIDE DEF g
  <2>1. g = Append(f, e)
    BY <1>2, <1>3, <1>4
  <2>2. QED
    BY <1>1, <2>1 DEF g

\* Appending to two sequences in a row.
LEMMA AddedLast ==
    ASSUME NEW X, NEW p \in Seq(X), NEW f \in Seq(X), NEW e \in X
    PROVE  Added(Then(p, f), e) = Then(p, Added(f, e))
BY DEF Then, Added

\* Full rates and the open one.
LEMMA Position ==
    ASSUME NEW T, NEW n0 \in Nodes(T), NEW str \in Seq(Bytes(T))
    PROVE  /\ Full(n0, str) \in Nat /\ At(n0, str) \in Nat /\ At(n0, str) < Rate
           /\ n0.byteIOIndex + Len(str) = Rate * Full(n0, str) + At(n0, str)
<1>1. n0.byteIOIndex \in Nat /\ Rate \in Nat /\ Rate > 0
  BY Sizes DEF Nodes
<1>2. n0.byteIOIndex + Len(str) \in Nat
  BY <1>1
<1>3. QED
  BY <1>1, <1>2, DivMod, Zenon DEF Full, At

\* Where they are when more is absorbed.
LEMMA PositionOn ==
    ASSUME NEW T, NEW n0 \in Nodes(T), NEW str \in Seq(Bytes(T)), NEW d \in Seq(Bytes(T))
    PROVE  /\ At(n0, str) + Len(d) < Rate =>
                Full(n0, Then(str, d)) = Full(n0, str) /\ At(n0, Then(str, d)) = At(n0, str) + Len(d)
           /\ At(n0, str) + Len(d) = Rate =>
                Full(n0, Then(str, d)) = Full(n0, str) + 1 /\ At(n0, Then(str, d)) = 0
<1> DEFINE v == n0.byteIOIndex + Len(str)
<1>1. n0.byteIOIndex \in Nat /\ Rate \in Nat /\ Rate > 0
  BY Sizes DEF Nodes
<1>2. v \in Nat /\ Len(d) \in Nat
  BY <1>1
<1>3. n0.byteIOIndex + Len(str \o d) = v + Len(d)
  BY <1>1
<1>4. /\ (v % Rate) + Len(d) < Rate => (v + Len(d)) \div Rate = v \div Rate /\ (v + Len(d)) % Rate = (v % Rate) + Len(d)
      /\ (v % Rate) + Len(d) = Rate => (v + Len(d)) \div Rate = (v \div Rate) + 1 /\ (v + Len(d)) % Rate = 0
  <2> HIDE DEF v
  <2>1. QED
    BY <1>1, <1>2, Onwards
<1>5. QED
  BY <1>3, <1>4, Zenon DEF At, Full, Then

\* What Bytewise makes is a node.
LEMMA BytewiseType ==
    ASSUME NEW T, NEW n0 \in Nodes(T), NEW str \in Seq(Bytes(T))
    PROVE  Bytewise(n0, str) \in Nodes(T)
<1> DEFINE q == Full(n0, str)
           f == [k \in 1 .. q |-> Filled(n0, str, k - 1)]
<1>1. n0.past \in Seq(Blocks(T)) /\ Rate \in Nat
  BY Sizes DEF Nodes
<1>2. q \in Nat /\ At(n0, str) \in 0 .. Rate - 1
  BY <1>1, Position
<1> HIDE DEF q
<1>3. \A k \in Nat : Filled(n0, str, k) \in Blocks(T)
  BY FilledType
<1>4. f \in Seq(Blocks(T))
  BY <1>2, <1>3
<1>5. n0.past \o f \in Seq(Blocks(T))
  <2> HIDE DEF f
  <2>1. QED
    BY <1>1, <1>4
<1>6. Bytewise(n0, str) = Node(n0.past \o f, Filled(n0, str, q), At(n0, str))
  BY BytewiseIs, Zenon DEF q
<1>7. QED
  <2> HIDE DEF f
  <2>1. QED
    BY <1>2, <1>3, <1>5, <1>6 DEF Nodes, Node

\* Bytes onto the open block from byteIOIndex on, byte by byte.
XorRun(node, data) ==
    LET at == node.byteIOIndex
    IN  [node EXCEPT !.cur = [i \in 0 .. Rate - 1 |->
            IF i \in at .. at + Len(data) - 1 THEN SymDiff(@[i], data[i - at + 1]) ELSE @[i]]]

\* A piece that fits, and the permutation when it fills the rate: bytewise, too.
LEMMA PieceOnto ==
    ASSUME NEW T, NEW n0 \in Nodes(T), NEW str \in Seq(Bytes(T)), NEW d \in Seq(Bytes(T)),
           NEW node, node = Bytewise(n0, str), node.byteIOIndex + Len(d) <= Rate
    PROVE  /\ node.byteIOIndex + Len(d) < Rate =>
                Bytewise(n0, Then(str, d)) = [XorRun(node, d) EXCEPT !.byteIOIndex = @ + Len(d)]
           /\ node.byteIOIndex + Len(d) = Rate =>
                Bytewise(n0, Then(str, d)) = [KeccakP1600_Permute_12rounds(XorRun(node, d)) EXCEPT !.byteIOIndex = 0]
<1> DEFINE at == At(n0, str)
           q == Full(n0, str)
           f == [k \in 1 .. q |-> Filled(n0, str, k - 1)]
           run == [j \in 0 .. Rate - 1 |-> IF j \in at .. at + Len(d) - 1
                                           THEN SymDiff(Filled(n0, str, q)[j], d[j - at + 1])
                                           ELSE Filled(n0, str, q)[j]]
<1>1. /\ n0.past \in Seq(Blocks(T)) /\ Rate \in Nat
      /\ Len(d) \in Nat /\ str \o d \in Seq(Bytes(T))
  BY Sizes DEF Nodes
<1>2. q \in Nat /\ at \in Nat
  BY Position
<1> HIDE DEF at, q
<1>3. node = Node(n0.past \o f, Filled(n0, str, q), at)
  BY BytewiseIs, Zenon DEF at, q
<1>4. node.byteIOIndex = at /\ node.cur = Filled(n0, str, q) /\ at + Len(d) <= Rate
  <2> HIDE DEF f
  <2>1. node.byteIOIndex = at /\ node.cur = Filled(n0, str, q)
    BY <1>3, NodeParts
  <2>2. QED
    BY <2>1
<1>5. Filled(n0, str \o d, q) = run
  BY <1>4, PieceFits DEF at, q
<1>6. XorRun(node, d) = Node(n0.past \o f, run, at)
  <2>1. XorRun(node, d) = [node EXCEPT !.cur = run]
    <3> HIDE DEF f
    <3>1. XorRun(node, d) =
            [node EXCEPT !.cur = [j \in 0 .. Rate - 1 |-> IF j \in node.byteIOIndex .. node.byteIOIndex + Len(d) - 1
                                           THEN SymDiff(node.cur[j], d[j - node.byteIOIndex + 1])
                                           ELSE node.cur[j]]]
      BY <1>3 DEF XorRun, Node
    <3>2. QED
      BY <1>4, <3>1, Zenon
  <2> HIDE DEF run, f
  <2>2. QED
    BY <1>3, <2>1, NodeChanges
<1>7. \A k \in 0 .. q - 1 : Filled(n0, str \o d, k) = Filled(n0, str, k)
  <2>1. \A k \in 0 .. q - 1 : k \in Nat /\ k < q
    BY <1>2
  <2>2. QED
    BY <2>1, FullStays, Zenon DEF q
<1>8. ASSUME at + Len(d) < Rate
      PROVE  Bytewise(n0, str \o d) = [XorRun(node, d) EXCEPT !.byteIOIndex = @ + Len(d)]
  <2>1. Full(n0, str \o d) = q /\ At(n0, str \o d) = at + Len(d)
    BY <1>8, PositionOn DEF at, q, Then
  <2>2. Bytewise(n0, str \o d) = Node(n0.past \o [k \in 1 .. q |-> Filled(n0, str \o d, k - 1)],
                                      Filled(n0, str \o d, q), at + Len(d))
    BY <2>1, BytewiseIs, Zenon
  <2>3. [k \in 1 .. q |-> Filled(n0, str \o d, k - 1)] = f
    <3>1. \A k \in 1 .. q : k - 1 \in 0 .. q - 1
      BY <1>2
    <3>2. \A k \in 1 .. q : Filled(n0, str \o d, k - 1) = Filled(n0, str, k - 1)
      BY <1>7, <3>1, Zenon
    <3>3. QED
      BY <3>2, Zenon
  <2> HIDE DEF f, run
  <2>4. [XorRun(node, d) EXCEPT !.byteIOIndex = @ + Len(d)] = Node(n0.past \o f, run, at + Len(d))
    BY <1>6, NodeParts, NodeChanges
  <2>5. QED
    BY <1>5, <2>2, <2>3, <2>4, Zenon
<1>9. ASSUME at + Len(d) = Rate
      PROVE  Bytewise(n0, str \o d) = [KeccakP1600_Permute_12rounds(XorRun(node, d)) EXCEPT !.byteIOIndex = 0]
  <2>1. Full(n0, str \o d) = q + 1 /\ At(n0, str \o d) = 0
    BY <1>9, PositionOn DEF at, q, Then
  <2>2. Bytewise(n0, str \o d) = Node(n0.past \o [k \in 1 .. q + 1 |-> Filled(n0, str \o d, k - 1)],
                                      Filled(n0, str \o d, q + 1), 0)
    BY <2>1, BytewiseIs, Zenon
  <2>3. Filled(n0, str \o d, q + 1) = Zeros
    <3>1. n0.byteIOIndex + Len(str \o d) = Rate * (q + 1) + 0
      BY <1>1, <2>1, Position, Zenon
    <3>2. q + 1 \in Nat /\ q + 1 # 0 /\ n0.byteIOIndex + Len(str \o d) <= (q + 1) * Rate
      BY <1>1, <1>2, <3>1
    <3>3. QED
      BY <1>1, <3>2, EmptyBehind
  <2>4. [k \in 1 .. q + 1 |-> Filled(n0, str \o d, k - 1)] =
          Longer(f, q, run)
    <3>1. ASSUME NEW k \in 1 .. q + 1
          PROVE  Filled(n0, str \o d, k - 1) = IF k = q + 1 THEN run ELSE f[k]
      <4>1. CASE k = q + 1
        <5> HIDE DEF run, f
        <5>1. k - 1 = q
          BY <1>2, <4>1
        <5>2. QED
          BY <1>5, <4>1, <5>1, Zenon
      <4>2. CASE k # q + 1
        <5> HIDE DEF run
        <5>1. k \in 1 .. q /\ k - 1 \in 0 .. q - 1
          BY <1>2, <4>2
        <5>2. f[k] = Filled(n0, str, k - 1)
          BY <5>1
        <5> HIDE DEF f
        <5>3. QED
          BY <1>7, <4>2, <5>1, <5>2, Zenon
      <4>3. QED
        BY <4>1, <4>2
    <3> HIDE DEF run, f
    <3>2. QED
      BY <3>1, Zenon DEF Longer
  <2>5. f \in [1 .. q -> Blocks(T)] /\ run \in Blocks(T)
    <3>1. \A k \in Nat : Filled(n0, str, k) \in Blocks(T) /\ Filled(n0, str \o d, k) \in Blocks(T)
      BY <1>1, FilledType
    <3> HIDE DEF run
    <3>2. QED
      BY <1>2, <1>5, <3>1
  <2> HIDE DEF f, run
  <2>6. Append(n0.past \o f, run) = n0.past \o Longer(f, q, run)
    <3>1. n0.past \in Seq(Blocks(T)) /\ q \in Nat /\ f \in Rows(q, Blocks(T)) /\ run \in Blocks(T)
      BY <1>1, <1>2, <2>5 DEF Rows
    <3>2. f \in Seq(Blocks(T)) /\ Longer(f, q, run) = Append(f, run)
      BY <3>1, OneMore
    <3>3. Added(Then(n0.past, f), run) = Then(n0.past, Added(f, run))
      BY <3>1, <3>2, AddedLast
    <3>4. QED
      BY <3>2, <3>3 DEF Added, Then
  <2>7. [KeccakP1600_Permute_12rounds(XorRun(node, d)) EXCEPT !.byteIOIndex = 0] =
          Node(Append(n0.past \o f, run), Zeros, 0)
    BY <1>6, NodePermuted, NodeChanges
  <2>8. QED
    BY <2>2, <2>3, <2>4, <2>6, <2>7, Zenon
<1>10. QED
  <2> HIDE DEF f, run
  <2>1. QED
    BY <1>4, <1>8, <1>9 DEF Then

\* The lane loops change the open block only.
LEMMA XorRunParts ==
    ASSUME NEW node, NEW p, NEW open, NEW b, NEW d, node = Node(p, open, b)
    PROVE  \E x : XorRun(node, d) = Node(p, x, b)
<1>1. PICK x : XorRun(node, d) = [node EXCEPT !.cur = x]
  BY Zenon DEF XorRun
<1>2. [Node(p, open, b) EXCEPT !.cur = x] = Node(p, x, b)
  BY NodeChanges
<1>3. QED
  BY <1>1, <1>2

\* Moving a node on, and wrapping it: only a full rate is permuted.
LEMMA WrapIs ==
    \A p, x, b, n :
        /\ [Node(p, x, b) EXCEPT !.byteIOIndex = @ + n] = Node(p, x, b + n)
        /\ b # Rate => Wrap(Node(p, x, b)) = Node(p, x, b)
        /\ Wrap(Node(p, x, Rate)) = Node(Append(p, x), Zeros, 0)
<1> SUFFICES ASSUME NEW p, NEW x, NEW b, NEW n
             PROVE  /\ [Node(p, x, b) EXCEPT !.byteIOIndex = @ + n] = Node(p, x, b + n)
                    /\ b # Rate => Wrap(Node(p, x, b)) = Node(p, x, b)
                    /\ Wrap(Node(p, x, Rate)) = Node(Append(p, x), Zeros, 0)
  OBVIOUS
<1>1. Node(p, x, b).byteIOIndex = b /\ Node(p, x, Rate).byteIOIndex = Rate
  BY NodeParts
<1>2. [Node(p, x, b) EXCEPT !.byteIOIndex = @ + n] = Node(p, x, b + n)
  BY <1>1, NodeChanges
<1>3. b # Rate => Wrap(Node(p, x, b)) = Node(p, x, b)
  BY <1>1, Zenon DEF Wrap
<1>4. Wrap(Node(p, x, Rate)) = [KeccakP1600_Permute_12rounds(Node(p, x, Rate)) EXCEPT !.byteIOIndex = 0]
  BY <1>1, Zenon DEF Wrap
<1>5. Wrap(Node(p, x, Rate)) = Node(Append(p, x), Zeros, 0)
  BY <1>4, NodePermuted, NodeChanges
<1>6. QED
  BY <1>2, <1>3, <1>5

\* A node is its parts.
LEMMA NodeIs == \A T : \A n \in Nodes(T) : n = Node(n.past, n.cur, n.byteIOIndex)
BY DEF Nodes, Node

\* A piece, and the wrap when it fills the rate: bytewise, too.
LEMMA WrapOnto ==
    ASSUME NEW T, NEW n0 \in Nodes(T), NEW str \in Seq(Bytes(T)), NEW d \in Seq(Bytes(T)),
           NEW node, node = Bytewise(n0, str), node.byteIOIndex + Len(d) <= Rate
    PROVE  /\ Wrap([XorRun(node, d) EXCEPT !.byteIOIndex = @ + Len(d)]) = Bytewise(n0, Then(str, d))
           /\ node.byteIOIndex = 0 /\ Len(d) = Rate =>
                KeccakP1600_Permute_12rounds(XorRun(node, d)) = Bytewise(n0, Then(str, d))
<1>1. node \in Nodes(T)
  BY BytewiseType
<1> DEFINE p == node.past
           b == node.byteIOIndex
           run == XorRun(node, d)
           next == Bytewise(n0, Then(str, d))
<1>2. node = Node(p, node.cur, b)
  BY <1>1, NodeIs
<1>3. PICK x : run = Node(p, x, b)
  <2> HIDE DEF p, b
  <2>1. \E x : XorRun(node, d) = Node(p, x, b)
    BY <1>2, XorRunParts
  <2>2. QED
    BY <2>1
<1>4. /\ b + Len(d) < Rate => next = [run EXCEPT !.byteIOIndex = @ + Len(d)]
      /\ b + Len(d) = Rate => next = [KeccakP1600_Permute_12rounds(run) EXCEPT !.byteIOIndex = 0]
  BY PieceOnto
<1>5. b \in Nat /\ Len(d) \in Nat /\ Rate \in Nat /\ b + Len(d) <= Rate
  BY <1>1, Sizes DEF Nodes
<1> HIDE DEF p, b, run, next
<1>6. [run EXCEPT !.byteIOIndex = @ + Len(d)] = Node(p, x, b + Len(d))
  BY <1>3, WrapIs
<1>7. [KeccakP1600_Permute_12rounds(run) EXCEPT !.byteIOIndex = 0] = Node(Append(p, x), Zeros, 0)
  BY <1>3, NodePermuted, NodeChanges
<1>8. CASE b + Len(d) < Rate
  <2>1. b + Len(d) # Rate
    BY <1>5, <1>8
  <2>2. Wrap(Node(p, x, b + Len(d))) = Node(p, x, b + Len(d))
    BY <2>1, WrapIs
  <2>3. ~ (b = 0 /\ Len(d) = Rate)
    BY <1>5, <1>8
  <2>4. QED
    BY <1>4, <1>6, <1>8, <2>2, <2>3, Zenon DEF next, run, b
<1>9. CASE b + Len(d) = Rate
  <2>1. Wrap(Node(p, x, Rate)) = Node(Append(p, x), Zeros, 0)
    BY WrapIs
  <2>2. b = 0 => KeccakP1600_Permute_12rounds(run) = Node(Append(p, x), Zeros, 0)
    BY <1>3, NodePermuted
  <2>3. next = Node(Append(p, x), Zeros, 0)
    BY <1>4, <1>7, <1>9, Zenon
  <2>4. Wrap([run EXCEPT !.byteIOIndex = @ + Len(d)]) = next
    BY <1>6, <1>9, <2>1, <2>3, Zenon
  <2>5. QED
    BY <2>2, <2>3, <2>4, Zenon DEF next, run, b
<1>10. QED
  BY <1>5, <1>8, <1>9

\* Pieces of a sequence, one after the other.
LEMMA PieceNext ==
    ASSUME NEW X, NEW str \in Seq(X), NEW data \in Seq(X), NEW i \in Nat, NEW n \in Nat, i + n <= Len(data)
    PROVE  /\ Piece(data, 0, i) \in Seq(X) /\ Piece(data, i, n) \in Seq(X) /\ Len(Piece(data, i, n)) = n
           /\ Then(str, Piece(data, 0, i)) \in Seq(X)
           /\ Then(Then(str, Piece(data, 0, i)), Piece(data, i, n)) = Then(str, Piece(data, 0, i + n))
<1> DEFINE front == SubSeq(data, 1, i)
           back == SubSeq(data, i + 1, i + n)
           both == SubSeq(data, 1, i + n)
<1>1. Len(data) \in Nat
  OBVIOUS
<1>2. front \in Seq(X) /\ Len(front) = i /\ \A k \in 1 .. i : front[k] = data[k]
  BY <1>1
<1>3. back \in Seq(X) /\ Len(back) = n /\ \A k \in 1 .. n : back[k] = data[i + k]
  BY <1>1
<1>4. both \in Seq(X) /\ Len(both) = i + n /\ \A k \in 1 .. i + n : both[k] = data[k]
  BY <1>1
<1> HIDE DEF front, back, both
<1>5. front \o back = both
  <2>1. front \o back \in Seq(X) /\ Len(front \o back) = i + n
    <3>1. front \in Seq(X) /\ back \in Seq(X)
      BY <1>2, <1>3
    <3>2. front \o back \in Seq(X) /\ Len(front \o back) = Len(front) + Len(back)
      BY <3>1
    <3>3. QED
      BY <1>2, <1>3, <3>2
  <2>2. \A k \in 1 .. i + n : (front \o back)[k] = both[k]
    <3> SUFFICES ASSUME NEW k \in 1 .. i + n PROVE (front \o back)[k] = both[k]
      OBVIOUS
    <3>1. CASE k <= i
      <4>1. front \in Seq(X) /\ back \in Seq(X) /\ k \in 1 .. Len(front)
        BY <1>2, <1>3, <3>1
      <4>2. (front \o back)[k] = front[k]
        BY <4>1
      <4>3. QED
        BY <1>2, <1>4, <4>1, <4>2
    <3>2. CASE k > i
      <4>1. k - i \in 1 .. n /\ i + (k - i) = k
        BY <3>2
      <4>2. (front \o back)[k] = back[k - i]
        <5>1. front \in Seq(X) /\ back \in Seq(X) /\ k \in 1 .. Len(front) + Len(back) /\ k > Len(front)
          BY <1>2, <1>3, <3>2
        <5>2. (front \o back)[k] = back[k - Len(front)]
          BY <5>1
        <5>3. QED
          BY <1>2, <5>2
      <4>3. QED
        BY <1>3, <1>4, <4>1, <4>2
    <3>3. k <= i \/ k > i
      OBVIOUS
    <3>4. QED
      BY <3>1, <3>2, <3>3, Zenon
  <2>3. QED
    BY <1>4, <2>1, <2>2
<1>6. (str \o front) \o back = str \o (front \o back) /\ str \o front \in Seq(X)
  BY <1>2, <1>3
<1>7. front = Piece(data, 0, i) /\ back = Piece(data, i, n) /\ both = Piece(data, 0, i + n)
  BY DEF Piece, front, back, both
<1>8. QED
  BY <1>2, <1>3, <1>5, <1>6, <1>7, Zenon DEF Then

\* A sequence begins with nothing and ends with itself.
LEMMA PieceEnds ==
    ASSUME NEW X, NEW str \in Seq(X), NEW data \in Seq(X)
    PROVE  Then(str, Piece(data, 0, 0)) = str /\ Piece(data, 0, Len(data)) = data
BY DEF Then, Piece

-----------------------------------------------------------------------------
(* The absorb loop of the port.                                            *)

\* The states of the loop over data when str has been absorbed before.
AbsorbState(n0, str, data, i) == [node |-> Bytewise(n0, Then(str, Piece(data, 0, i))), i |-> i]
AbsorbStates(n0, str, data) == {AbsorbState(n0, str, data, i) : i \in 0 .. Len(data)}

\* Where a node stands.
LEMMA IndexIs == \A n0, str : Bytewise(n0, str).byteIOIndex = At(n0, str)
BY Zenon DEF Bytewise, At

\* A piece, byte by byte.
LEMMA PieceBytes ==
    ASSUME NEW X, NEW data \in Seq(X), NEW i \in Nat, NEW n \in Nat, i + n <= Len(data)
    PROVE  /\ Piece(data, i, n) \in Seq(X) /\ Len(Piece(data, i, n)) = n
           /\ \A k \in 1 .. n : Piece(data, i, n)[k] = data[i + k]
BY DEF Piece

\* Bytes onto a block from a position on, byte by byte.
RunOnto(block, at, d) ==
    [i \in 0 .. Rate - 1 |-> IF i \in at .. at + Len(d) - 1 THEN SymDiff(block[i], d[i - at + 1]) ELSE block[i]]

\* The loops over bytes and lanes in terms of the block.
LaneOnto(block, l, d, shift) ==
    LET at == l * Lane + shift
    IN  [i \in 0 .. Rate - 1 |-> IF i \in at .. at + Len(d) - 1 /\ i \div Lane = l
                                 THEN SymDiff(block[i], d[i - at + 1]) ELSE block[i]]
LanesOnto(block, d, n) ==
    [i \in 0 .. Rate - 1 |-> IF i \div Lane < n THEN SymDiff(block[i], d[i + 1]) ELSE block[i]]

\* They change the block and nothing else.
LEMMA OntoParts ==
    ASSUME NEW node, NEW p, NEW open, NEW b, node = Node(p, open, b), NEW d, NEW l, NEW shift, NEW n
    PROVE  /\ XorRun(node, d) = Node(p, RunOnto(open, b, d), b)
           /\ XorLane(node, l, d, shift) = Node(p, LaneOnto(open, l, d, shift), b)
           /\ XorLanes(node, d, n) = Node(p, LanesOnto(open, d, n), b)
<1>1. node.cur = open /\ node.byteIOIndex = b
  BY NodeParts
<1>2. \A x : [node EXCEPT !.cur = x] = Node(p, x, b)
  BY NodeChanges
<1>3. XorRun(node, d) = [node EXCEPT !.cur = RunOnto(open, b, d)]
  BY <1>1, Zenon DEF XorRun, RunOnto
<1>4. XorLane(node, l, d, shift) = [node EXCEPT !.cur = LaneOnto(open, l, d, shift)]
  BY <1>1, Zenon DEF XorLane, LaneOnto
<1>5. XorLanes(node, d, n) = [node EXCEPT !.cur = LanesOnto(open, d, n)]
  BY <1>1, Zenon DEF XorLanes, LanesOnto
<1>6. QED
  BY <1>2, <1>3, <1>4, <1>5, Zenon

\* A byte is in the lane that its index over the lane's size says.
LEMMA LaneOf ==
    ASSUME NEW i \in Nat, NEW l \in Nat
    PROVE  /\ i \div Lane \in Nat
           /\ i \div Lane < l <=> i < l * Lane
           /\ i \in l * Lane .. l * Lane + Lane - 1 => i \div Lane = l
<1> DEFINE q == i \div Lane
           x == i % Lane
<1>1. Lane \in Nat /\ Lane > 0
  BY Sizes
<1>2. q \in Nat /\ x \in Nat /\ x < Lane /\ i = Lane * q + x
  BY <1>1, DivMod
<1> HIDE DEF q, x
<1>3. q < l => i < l * Lane
  <2> SUFFICES ASSUME q < l PROVE i < l * Lane
    OBVIOUS
  <2>1. q * Lane + Lane <= l * Lane
    BY <1>1, <1>2, Below
  <2>2. q * Lane = Lane * q
    BY <1>1, <1>2
  <2>3. l * Lane \in Nat /\ Lane * q \in Nat
    BY <1>1, <1>2
  <2>4. QED
    BY <1>1, <1>2, <2>1, <2>2, <2>3
<1>4. ~ (q < l) => ~ (i < l * Lane)
  <2> SUFFICES ASSUME ~ (q < l) PROVE ~ (i < l * Lane)
    OBVIOUS
  <2>1. CASE q = l
    <3>1. l * Lane = Lane * q /\ Lane * q \in Nat
      BY <1>1, <1>2, <2>1
    <3>2. QED
      BY <1>2, <3>1
  <2>2. CASE l < q
    <3>1. l * Lane + Lane <= q * Lane
      BY <1>1, <1>2, <2>2, Below
    <3>2. q * Lane = Lane * q /\ Lane * q \in Nat /\ l * Lane \in Nat
      BY <1>1, <1>2
    <3>3. QED
      BY <1>1, <1>2, <3>1, <3>2
  <2>3. QED
    BY <1>2, <2>1, <2>2
<1>5. i \in l * Lane .. l * Lane + Lane - 1 => q = l
  <2> SUFFICES ASSUME i \in l * Lane .. l * Lane + Lane - 1 PROVE q = l
    OBVIOUS
  <2> DEFINE rest == i - l * Lane
  <2>1. l * Lane \in Nat /\ l * Lane = Lane * l
    BY <1>1
  <2>2. rest \in Int /\ 0 <= rest /\ rest < Lane /\ i = Lane * l + rest
    BY <1>1, <2>1
  <2> HIDE DEF rest
  <2>3. i \div Lane = l
    BY <1>1, <2>2, Unique
  <2>4. QED
    BY <2>3 DEF q
<1>6. QED
  BY <1>2, <1>3, <1>4, <1>5 DEF q

\* Bytes within a lane.
LEMMA LaneIsRun ==
    ASSUME NEW block, NEW l \in Nat, NEW shift \in Nat, NEW d, Len(d) \in Nat, shift + Len(d) <= Lane
    PROVE  LaneOnto(block, l, d, shift) = RunOnto(block, l * Lane + shift, d)
<1> DEFINE at == l * Lane + shift
<1>1. Lane \in Nat /\ Lane > 0 /\ l * Lane \in Nat /\ at \in Nat
  BY Sizes
<1>2. ASSUME NEW i \in 0 .. Rate - 1
      PROVE  (i \in at .. at + Len(d) - 1 /\ i \div Lane = l) <=> i \in at .. at + Len(d) - 1
  <2>1. CASE i \in at .. at + Len(d) - 1
    <3>1. i \in l * Lane .. l * Lane + Lane - 1 /\ i \in Nat
      BY <1>1, <2>1
    <3>2. i \div Lane = l
      BY <3>1, LaneOf
    <3>3. QED
      BY <2>1, <3>2
  <2>2. CASE i \notin at .. at + Len(d) - 1
    BY <2>2
  <2>3. QED
    BY <2>1, <2>2
<1>3. LaneOnto(block, l, d, shift) =
          [i \in 0 .. Rate - 1 |-> IF i \in at .. at + Len(d) - 1 /\ i \div Lane = l
                                   THEN SymDiff(block[i], d[i - at + 1]) ELSE block[i]]
  BY Zenon DEF LaneOnto
<1>4. RunOnto(block, at, d) =
          [i \in 0 .. Rate - 1 |-> IF i \in at .. at + Len(d) - 1 THEN SymDiff(block[i], d[i - at + 1]) ELSE block[i]]
  BY Zenon DEF RunOnto
<1> HIDE DEF at
<1>5. ASSUME NEW i \in 0 .. Rate - 1
      PROVE  (IF i \in at .. at + Len(d) - 1 /\ i \div Lane = l THEN SymDiff(block[i], d[i - at + 1]) ELSE block[i])
             = (IF i \in at .. at + Len(d) - 1 THEN SymDiff(block[i], d[i - at + 1]) ELSE block[i])
  BY <1>2, Zenon
<1>6. LaneOnto(block, l, d, shift) = RunOnto(block, at, d)
  BY <1>3, <1>4, <1>5, Zenon
<1>7. QED
  BY <1>6 DEF at

\* Whole lanes from the first on.
LEMMA LanesAreRun ==
    ASSUME NEW X, NEW block, NEW d \in Seq(X), NEW n \in Nat, n * Lane <= Len(d)
    PROVE  LanesOnto(block, d, n) = RunOnto(block, 0, Piece(d, 0, n * Lane))
<1> DEFINE N == n * Lane
           e == Piece(d, 0, N)
<1>1. Lane \in Nat /\ N \in Nat /\ Len(d) \in Nat /\ 0 + N <= Len(d) /\ 0 \in Nat
  BY Sizes
<1>2. Len(e) = N /\ \A k \in 1 .. N : e[k] = d[0 + k]
  <2> HIDE DEF N
  <2>1. QED
    BY <1>1, PieceBytes
<1>3. \A i \in 0 .. Rate - 1 : i \in Nat
  BY Sizes
<1>4. \A i \in 0 .. Rate - 1 : i \div Lane < n <=> i < N
  BY <1>3, LaneOf
<1> HIDE DEF e, N
<1>5. ASSUME NEW i \in 0 .. Rate - 1
      PROVE  (IF i \div Lane < n THEN SymDiff(block[i], d[i + 1]) ELSE block[i])
             = (IF i \in 0 .. 0 + Len(e) - 1 THEN SymDiff(block[i], e[i - 0 + 1]) ELSE block[i])
  <2>1. CASE i < N
    <3>1. i + 1 \in 1 .. N /\ 0 + (i + 1) = i + 1 /\ i - 0 + 1 = i + 1 /\ i \in 0 .. 0 + Len(e) - 1
      BY <1>1, <1>2, <1>3, <2>1
    <3>2. e[i - 0 + 1] = d[i + 1]
      BY <1>2, <3>1
    <3>3. QED
      BY <1>4, <2>1, <3>1, <3>2, Zenon
  <2>2. CASE ~ (i < N)
    <3>1. i \notin 0 .. 0 + Len(e) - 1
      BY <1>1, <1>2, <1>3, <2>2
    <3>2. QED
      BY <1>4, <2>2, <3>1, Zenon
  <2>3. QED
    BY <2>1, <2>2
<1>6. LanesOnto(block, d, n) = RunOnto(block, 0, e)
  BY <1>5, Zenon DEF LanesOnto, RunOnto
<1>7. QED
  BY <1>6 DEF e, N

\* Where a run ends that starts there.
Past(at, d) == at + Len(d)

\* One run after the other.
LEMMA RunsOnto ==
    ASSUME NEW X, NEW block, NEW at \in Nat, NEW f \in Seq(X), NEW h \in Seq(X)
    PROVE  RunOnto(RunOnto(block, at, f), Past(at, f), h) = RunOnto(block, at, Then(f, h))
<1> DEFINE first == RunOnto(block, at, f)
           from == Past(at, f)
           w == Then(f, h)
           i == Len(f)
           n == Len(h)
<1>1. i \in Nat /\ n \in Nat /\ from = at + i
  BY DEF Past
<1>2. Len(w) = i + n /\ \A k \in 1 .. i : w[k] = f[k]
  BY DEF Then
<1>3. \A k \in 1 .. n : w[i + k] = h[k]
  BY DEF Then
<1> HIDE DEF w, from
<1>5. \A j \in 0 .. Rate - 1 :
          first[j] = IF j \in at .. at + Len(f) - 1 THEN SymDiff(block[j], f[j - at + 1]) ELSE block[j]
  BY DEF RunOnto
<1> HIDE DEF first
<1>6. ASSUME NEW j \in 0 .. Rate - 1
      PROVE  (IF j \in from .. from + Len(h) - 1 THEN SymDiff(first[j], h[j - from + 1]) ELSE first[j])
             = (IF j \in at .. at + Len(w) - 1 THEN SymDiff(block[j], w[j - at + 1]) ELSE block[j])
  <2>0. j \in Nat
    BY Sizes
  <2>1. CASE j < at
    <3>1. j \notin from .. from + Len(h) - 1 /\ j \notin at .. at + Len(w) - 1 /\ j \notin at .. at + Len(f) - 1
      BY <1>1, <1>2, <2>0, <2>1
    <3>2. QED
      BY <1>5, <3>1, Zenon
  <2>2. CASE j \in at .. at + i - 1
    <3>1. /\ j \notin from .. from + Len(h) - 1 /\ j \in at .. at + Len(w) - 1 /\ j \in at .. at + Len(f) - 1
          /\ j - at + 1 \in 1 .. i
      BY <1>1, <1>2, <2>0, <2>2
    <3>2. f[j - at + 1] = w[j - at + 1]
      BY <1>2, <3>1
    <3>3. QED
      BY <1>5, <3>1, <3>2, Zenon
  <2>3. CASE j \in at + i .. at + i + n - 1
    <3>1. /\ j \in from .. from + Len(h) - 1 /\ j \in at .. at + Len(w) - 1 /\ j \notin at .. at + Len(f) - 1
          /\ j - from + 1 \in 1 .. n /\ i + (j - from + 1) = j - at + 1
      BY <1>1, <1>2, <2>0, <2>3
    <3>2. h[j - from + 1] = w[i + (j - from + 1)]
      BY <1>3, <3>1, Zenon
    <3>4. h[j - from + 1] = w[j - at + 1]
      BY <3>1, <3>2, Zenon
    <3>5. QED
      BY <1>5, <3>1, <3>4, Zenon
  <2>4. CASE j > at + i + n - 1
    <3>1. j \notin from .. from + Len(h) - 1 /\ j \notin at .. at + Len(w) - 1 /\ j \notin at .. at + Len(f) - 1
      BY <1>1, <1>2, <2>0, <2>4
    <3>2. QED
      BY <1>5, <3>1, Zenon
  <2>5. j < at \/ j \in at .. at + i - 1 \/ j \in at + i .. at + i + n - 1 \/ j > at + i + n - 1
    BY <1>1, <2>0
  <2>6. QED
    BY <2>1, <2>2, <2>3, <2>4, <2>5, Zenon
<1>7. RunOnto(first, from, h) = RunOnto(block, at, w)
  BY <1>6, Zenon DEF RunOnto
<1>8. QED
  BY <1>7 DEF first, from, w

\* Pieces of a string in a row.
LEMMA PiecesAre ==
    ASSUME NEW X, NEW data \in Seq(X), NEW i \in Nat, NEW n \in Nat, i + n <= Len(data)
    PROVE  /\ Piece(data, 0, i) \in Seq(X) /\ Len(Piece(data, 0, i)) = i
           /\ Piece(data, i, n) \in Seq(X) /\ Len(Piece(data, i, n)) = n
           /\ Then(Piece(data, 0, i), Piece(data, i, n)) = Piece(data, 0, i + n)
<1>1. 0 \in Nat /\ 0 + i <= Len(data) /\ i + n <= Len(data) /\ <<>> \in Seq(X)
  OBVIOUS
<1>2. Piece(data, 0, i) \in Seq(X) /\ Len(Piece(data, 0, i)) = i
  BY <1>1, PieceBytes
<1>3. /\ Piece(data, i, n) \in Seq(X) /\ Len(Piece(data, i, n)) = n
      /\ Then(Then(<<>>, Piece(data, 0, i)), Piece(data, i, n)) = Then(<<>>, Piece(data, 0, i + n))
  BY <1>1, PieceNext
<1>5. Piece(data, 0, i + n) \in Seq(X)
  <2> DEFINE m == i + n
  <2>1. m \in Nat /\ 0 + m <= Len(data) /\ 0 \in Nat
    OBVIOUS
  <2> HIDE DEF m
  <2>2. Piece(data, 0, m) \in Seq(X)
    BY <2>1, PieceBytes
  <2>3. QED
    BY <2>2 DEF m
<1>6. \A f \in Seq(X) : Then(<<>>, f) = f
  BY DEF Then
<1>7. QED
  BY <1>2, <1>3, <1>5, <1>6

\* Whole lanes, and the bytes that fill none.
LEMMA FirstLanesRun ==
    ASSUME NEW T, NEW node \in Nodes(T), node.byteIOIndex = 0, NEW d \in Seq(Bytes(T))
    PROVE  FromFirstLane(node, d) = XorRun(node, d)
<1> DEFINE p == node.past
           open == node.cur
           L == Len(d)
           n == L \div Lane
           x == L % Lane
           N == n * Lane
           run == RunOnto(open, 0, Piece(d, 0, N))
           tail == Piece(d, N, x)
           lanes == XorLanes(node, d, n)
<1>1. node = Node(p, open, 0)
  BY NodeIs
<1>2. Lane \in Nat /\ Lane > 0 /\ L \in Nat
  BY Sizes
<1>3. n \in Nat /\ x \in Nat /\ x < Lane /\ L = Lane * n + x
  BY <1>2, DivMod
<1> HIDE DEF n, x
<1>4. N \in Nat /\ N + x = L /\ N <= L /\ 0 \in Nat
  <2>1. N = Lane * n /\ Lane * n \in Nat
    BY <1>2, <1>3
  <2>2. QED
    BY <1>2, <1>3, <2>1
<1>5. LanesOnto(open, d, n) = run
  BY <1>3, <1>4, LanesAreRun
<1>6. XorRun(node, d) = Node(p, RunOnto(open, 0, d), 0)
  <2> HIDE DEF p, open
  <2>1. QED
    BY <1>1, OntoParts
<1>7. lanes = Node(p, run, 0)
  <2> HIDE DEF p, open, run
  <2>1. XorLanes(node, d, n) = Node(p, LanesOnto(open, d, n), 0)
    BY <1>1, OntoParts
  <2>2. QED
    BY <1>5, <2>1
<1>8. FromFirstLane(node, d) = IF x = 0 THEN lanes ELSE XorLane(lanes, n, SubSeq(d, N + 1, L), 0)
  BY Zenon DEF FromFirstLane, n, x
<1>9. Piece(d, 0, L) = d
  BY PieceEnds
<1> HIDE DEF lanes
<1>10. CASE x = 0
  <2>1. N = L
    BY <1>4, <1>10
  <2>2. run = RunOnto(open, 0, d)
    <3> HIDE DEF N, L
    <3>1. QED
      BY <1>9, <2>1
  <2>3. QED
    BY <1>6, <1>7, <1>8, <1>10, <2>2, Zenon
<1>11. CASE x # 0
  <2>1. SubSeq(d, N + 1, L) = tail
    <3> HIDE DEF N, L
    <3>1. QED
      BY <1>4 DEF Piece
  <2>2. Len(tail) = x
    <3> HIDE DEF N
    <3>1. QED
      BY <1>3, <1>4, PieceBytes
  <2> HIDE DEF tail, p, run
  <2>3. XorLane(lanes, n, tail, 0) = Node(p, LaneOnto(run, n, tail, 0), 0)
    BY <1>7, OntoParts
  <2>4. LaneOnto(run, n, tail, 0) = RunOnto(run, n * Lane + 0, tail)
    <3>1. 0 \in Nat /\ Len(tail) \in Nat /\ 0 + Len(tail) <= Lane
      BY <1>2, <1>3, <2>2
    <3>2. QED
      BY <1>3, <3>1, LaneIsRun
  <2>5. n * Lane + 0 = 0 + N
    BY <1>4
  <2>6. RunOnto(run, 0 + N, tail) = RunOnto(open, 0, Piece(d, 0, L))
    <3> DEFINE f == Piece(d, 0, N)
    <3>1. N \in Nat /\ x \in Nat /\ L \in Nat /\ L = N + x /\ L <= Len(d) /\ 0 \in Nat
      BY <1>2, <1>3, <1>4
    <3>2. run = RunOnto(open, 0, f) /\ tail = Piece(d, N, x)
      BY DEF run, tail
    <3> HIDE DEF N, open, L
    <3>3. f \in Seq(Bytes(T)) /\ tail \in Seq(Bytes(T)) /\ Len(f) = N /\ Then(f, tail) = Piece(d, 0, L)
      BY <3>1, <3>2, PiecesAre
    <3> HIDE DEF f
    <3>4. Past(0, f) = 0 + N
      BY <3>3 DEF Past
    <3>5. RunOnto(RunOnto(open, 0, f), Past(0, f), tail) = RunOnto(open, 0, Then(f, tail))
      BY <3>1, <3>3, RunsOnto
    <3>6. QED
      BY <3>2, <3>3, <3>4, <3>5, Zenon
  <2>7. RunOnto(run, n * Lane + 0, tail) = RunOnto(open, 0, d)
    BY <1>9, <2>5, <2>6, Zenon
  <2>8. QED
    BY <1>6, <1>8, <1>11, <2>1, <2>3, <2>4, <2>7, Zenon
<1>12. QED
  BY <1>10, <1>11

\* Quotients of smaller numbers.
LEMMA Fewer ==
    ASSUME NEW d \in Nat, d > 0, NEW n \in Nat
    PROVE  /\ n \div d \in Nat
           /\ \A m \in Nat : m <= n => m \div d <= n \div d
           /\ n >= d => (n - d) \div d = (n \div d) - 1 /\ n - d \in Nat
<1> DEFINE q == n \div d
           x == n % d
<1>1. q \in Nat /\ x \in Nat /\ x < d /\ n = d * q + x
  BY DivMod
<1> HIDE DEF q, x
<1>2. ASSUME NEW m \in Nat, m <= n
      PROVE  m \div d <= q
  <2> DEFINE r == m \div d
             y == m % d
  <2>1. r \in Nat /\ y \in Nat /\ m = d * r + y
    BY DivMod
  <2> HIDE DEF r, y
  <2>2. ASSUME q < r PROVE FALSE
    <3>1. q * d + d <= r * d
      BY <1>1, <2>1, <2>2, Below
    <3>2. q * d = d * q /\ r * d = d * r /\ d * q \in Nat /\ d * r \in Nat
      BY <1>1, <2>1
    <3>3. QED
      BY <1>1, <1>2, <2>1, <3>1, <3>2
  <2>3. r <= q
    BY <1>1, <2>1, <2>2
  <2>4. QED
    BY <2>3 DEF r
<1>3. ASSUME n >= d
      PROVE  (n - d) \div d = q - 1 /\ n - d \in Nat
  <2>1. q # 0
    BY <1>1, <1>3
  <2>2. d * (q - 1) = d * q - d
    BY <1>1
  <2>3. n - d \in Nat /\ n - d = d * (q - 1) + x
    BY <1>1, <1>3, <2>2
  <2>4. (n - d) \div d = q - 1
    BY <1>1, <2>1, <2>3, Unique
  <2>5. QED
    BY <2>3, <2>4
<1>4. QED
  BY <1>1, <1>2, <1>3 DEF q

\* The states of the loop over a partial block: i bytes are on the block, and the
\* next lane and offset are where the next byte goes.
LaneState(node, data, i, l, o) ==
    [node |-> Node(node.past, RunOnto(node.cur, node.byteIOIndex, Piece(data, 0, i)), node.byteIOIndex),
     i |-> i, lanePosition |-> l, offsetInLane |-> o]
Stands(node, i, l, o) == l * Lane + o = node.byteIOIndex + i
InPlace(node, data, s) == s.i # Len(data) => Stands(node, s.i, s.lanePosition, s.offsetInLane)
LaneStates(node, data) ==
    {s \in {LaneState(node, data, i, l, o) : i \in 0 .. Len(data), l \in Nat, o \in 0 .. Lane - 1} :
        InPlace(node, data, s)}

\* Each of them.
LEMMA LaneStatesAre ==
    ASSUME NEW node, NEW data
    PROVE  /\ \A s \in LaneStates(node, data) : \E i \in 0 .. Len(data) : \E l \in Nat : \E o \in 0 .. Lane - 1 :
                 s = LaneState(node, data, i, l, o) /\ (i # Len(data) => Stands(node, i, l, o))
           /\ \A i \in 0 .. Len(data) : \A l \in Nat : \A o \in 0 .. Lane - 1 :
                 (i # Len(data) => Stands(node, i, l, o))
                 => LaneState(node, data, i, l, o) \in LaneStates(node, data)
<1> DEFINE all == {LaneState(node, data, i, l, o) : i \in 0 .. Len(data), l \in Nat, o \in 0 .. Lane - 1}
<1>1. \A i, l, o : /\ LaneState(node, data, i, l, o).i = i
                   /\ LaneState(node, data, i, l, o).lanePosition = l
                   /\ LaneState(node, data, i, l, o).offsetInLane = o
  BY DEF LaneState
<1>2. \A i, l, o : InPlace(node, data, LaneState(node, data, i, l, o))
                   <=> (i # Len(data) => Stands(node, i, l, o))
  <2> SUFFICES ASSUME NEW i, NEW l, NEW o
               PROVE  InPlace(node, data, LaneState(node, data, i, l, o))
                      <=> (i # Len(data) => Stands(node, i, l, o))
    OBVIOUS
  <2> DEFINE s == LaneState(node, data, i, l, o)
  <2>1. s.i = i /\ s.lanePosition = l /\ s.offsetInLane = o
    BY <1>1
  <2> HIDE DEF s
  <2>2. InPlace(node, data, s) <=> (i # Len(data) => Stands(node, i, l, o))
    BY <2>1 DEF InPlace
  <2>3. QED
    BY <2>2 DEF s
<1>3. \A s \in all : \E i \in 0 .. Len(data) : \E l \in Nat : \E o \in 0 .. Lane - 1 : s = LaneState(node, data, i, l, o)
  OBVIOUS
<1>4. \A i \in 0 .. Len(data) : \A l \in Nat : \A o \in 0 .. Lane - 1 : LaneState(node, data, i, l, o) \in all
  OBVIOUS
<1> HIDE DEF all
<1>5. LaneStates(node, data) = {s \in all : InPlace(node, data, s)}
  BY DEF LaneStates, all
<1>6. ASSUME NEW s \in LaneStates(node, data)
      PROVE  \E i \in 0 .. Len(data) : \E l \in Nat : \E o \in 0 .. Lane - 1 :
                 s = LaneState(node, data, i, l, o) /\ (i # Len(data) => Stands(node, i, l, o))
  <2>1. s \in all /\ InPlace(node, data, s)
    BY <1>5
  <2>2. PICK i \in 0 .. Len(data), l \in Nat, o \in 0 .. Lane - 1 : s = LaneState(node, data, i, l, o)
    BY <1>3, <2>1
  <2>3. i # Len(data) => Stands(node, i, l, o)
    BY <1>2, <2>1, <2>2, Zenon
  <2>4. QED
    BY <2>2, <2>3
<1>7. ASSUME NEW i \in 0 .. Len(data), NEW l \in Nat, NEW o \in 0 .. Lane - 1,
             i # Len(data) => Stands(node, i, l, o)
      PROVE  LaneState(node, data, i, l, o) \in LaneStates(node, data)
  <2>1. InPlace(node, data, LaneState(node, data, i, l, o))
    BY <1>2, <1>7, Zenon
  <2>2. QED
    BY <1>4, <1>5, <2>1
<1>8. QED
  BY <1>6, <1>7

\* One turn takes n bytes: up to the end of its lane, or all that is left.
LaneTurnDoes(node, data, i, l, o, n) ==
    /\ LaneTurn(data, LaneState(node, data, i, l, o)) = LaneState(node, data, i + n, l + 1, 0)
    /\ n = Len(data) - i \/ (n < Len(data) - i /\ n = Lane - o)

\* Every turn of the unfinished loop.
LEMMA LaneTurnOf ==
    ASSUME NEW T, NEW node \in Nodes(T), NEW data \in Seq(Bytes(T)), NEW i \in 0 .. Len(data), i # Len(data),
           NEW l \in Nat, NEW o \in 0 .. Lane - 1, Stands(node, i, l, o)
    PROVE  \E n \in 1 .. Len(data) - i : LaneTurnDoes(node, data, i, l, o, n)
<1> DEFINE b == node.byteIOIndex
           p == node.past
           open == node.cur
           left == Len(data) - i
           room == Lane - o
           n == IF room > left THEN left ELSE room
           f == Piece(data, 0, i)
           d == Piece(data, i, n)
           run == RunOnto(open, b, f)
           s == LaneState(node, data, i, l, o)
           lanes == XorLane(s.node, l, d, o)
<1>1. s.i = i /\ s.node = Node(p, run, b) /\ s.lanePosition = l /\ s.offsetInLane = o
  BY DEF LaneState
<1>2. i \in Nat /\ Len(data) \in Nat /\ left \in Nat /\ left >= 1 /\ room \in Nat /\ room >= 1 /\ Lane \in Nat /\ o \in Nat
  BY Sizes
<1>3. b \in Nat
  BY Sizes DEF Nodes
<1>4. n \in 1 .. left /\ n \in Nat /\ o + n <= Lane /\ (n = left \/ (n < left /\ n = room))
  <2>1. n = IF room > left THEN left ELSE room
    OBVIOUS
  <2>2. o + room = Lane
    BY <1>2
  <2> HIDE DEF n, left, room
  <2>3. QED
    BY <1>2, <2>1, <2>2
<1> HIDE DEF n
<1>5. f \in Seq(Bytes(T)) /\ d \in Seq(Bytes(T)) /\ Len(f) = i /\ Len(d) = n /\ Then(f, d) = Piece(data, 0, i + n)
  <2>1. i + n <= Len(data)
    BY <1>2, <1>4
  <2>2. /\ Piece(data, 0, i) \in Seq(Bytes(T)) /\ Len(Piece(data, 0, i)) = i
        /\ Piece(data, i, n) \in Seq(Bytes(T)) /\ Len(Piece(data, i, n)) = n
        /\ Then(Piece(data, 0, i), Piece(data, i, n)) = Piece(data, 0, i + n)
    <3> HIDE DEF f, d, s, run, lanes
    <3>1. i \in Nat /\ n \in Nat /\ i + n <= Len(data) /\ data \in Seq(Bytes(T))
      BY <1>2, <1>4, <2>1
    <3>2. QED
      BY <3>1, PiecesAre
  <2>3. QED
    BY <2>2
<1> HIDE DEF f, d
<1>6. LaneOnto(run, l, d, o) = RunOnto(run, l * Lane + o, d)
  <2>1. Len(d) \in Nat /\ o + Len(d) <= Lane
    BY <1>4, <1>5
  <2> HIDE DEF run
  <2>2. QED
    BY <1>2, <2>1, LaneIsRun
<1>7. l * Lane + o = Past(b, f)
  BY <1>5 DEF Past, Stands
<1>8. RunOnto(RunOnto(open, b, f), Past(b, f), d) = RunOnto(open, b, Then(f, d))
  BY <1>3, <1>5, RunsOnto
<1>9. LaneOnto(run, l, d, o) = RunOnto(open, b, Piece(data, 0, i + n))
  BY <1>5, <1>6, <1>7, <1>8, Zenon
<1>10. lanes = Node(p, RunOnto(open, b, Piece(data, 0, i + n)), b)
  <2> DEFINE there == s.node
  <2>1. there = Node(p, run, b)
    BY <1>1
  <2> HIDE DEF there, p, run, b
  <2>2. XorLane(there, l, d, o) = Node(p, LaneOnto(run, l, d, o), b)
    BY <2>1, OntoParts
  <2>3. QED
    BY <1>9, <2>2, Zenon DEF there
<1> HIDE DEF lanes
<1>11. LaneTurn(data, s) = [node |-> lanes, i |-> i + n, lanePosition |-> l + 1, offsetInLane |-> 0]
  <2>1. left # 0
    BY <1>2
  <2>2. SubSeq(data, i + 1, i + n) = d
    BY DEF d, Piece
  <2>3. lanes = XorLane(s.node, l, d, o)
    BY DEF lanes
  <2> HIDE DEF s
  <2>4. QED
    BY <1>1, <2>1, <2>2, <2>3, Zenon DEF LaneTurn, n
<1>12. LaneTurn(data, s) = LaneState(node, data, i + n, l + 1, 0)
  BY <1>10, <1>11, Zenon DEF LaneState
<1>13. n \in 1 .. Len(data) - i /\ (n = Len(data) - i \/ (n < Len(data) - i /\ n = Lane - o))
  BY <1>4
<1>14. LaneTurnDoes(node, data, i, l, o, n)
  BY <1>12, <1>13, Zenon DEF LaneTurnDoes
<1>15. QED
  BY <1>13, <1>14

\* The turns it needs from a state on.
LaneRank(data, s) ==
    IF Len(data) = s.i THEN 0
    ELSE IF s.offsetInLane = 0 THEN ((Len(data) - s.i) \div Lane) + 1
    ELSE ((Len(data) - s.i) \div Lane) + 2

\* Each turn of the loop brings its end nearer.
LEMMA LaneNearer ==
    ASSUME NEW T, NEW node \in Nodes(T), NEW data \in Seq(Bytes(T))
    PROVE  LET S == LaneStates(node, data)
           IN  /\ Nearer(S, [s \in S |-> LaneTurn(data, s)], [s \in S |-> LaneRank(data, s)])
               /\ \A s \in S : LaneRank(data, s) <= (Len(data) \div Lane) + 2
               /\ \A s \in S : LaneRank(data, s) = 0 => s.i = Len(data)
<1> DEFINE S == LaneStates(node, data)
           L == Len(data)
           g == [s \in S |-> LaneTurn(data, s)]
           rank == [s \in S |-> LaneRank(data, s)]
<1>1. L \in Nat /\ Lane \in Nat /\ Lane > 0 /\ node.byteIOIndex \in Nat
  BY Sizes DEF Nodes
<1>2. \A n \in Nat : /\ n \div Lane \in Nat
                     /\ \A m \in Nat : m <= n => m \div Lane <= n \div Lane
                     /\ n >= Lane => (n - Lane) \div Lane = (n \div Lane) - 1 /\ n - Lane \in Nat
  BY <1>1, Fewer
<1>3. \A i, l, o : /\ LaneState(node, data, i, l, o).i = i
                   /\ LaneState(node, data, i, l, o).lanePosition = l
                   /\ LaneState(node, data, i, l, o).offsetInLane = o
  BY DEF LaneState
<1>4. \A s \in S : \E i \in 0 .. L : \E l \in Nat : \E o \in 0 .. Lane - 1 :
          s = LaneState(node, data, i, l, o) /\ (i # L => Stands(node, i, l, o))
  BY LaneStatesAre
<1>5. \A i \in 0 .. L : \A l \in Nat : \A o \in 0 .. Lane - 1 :
          (i # L => Stands(node, i, l, o)) => LaneState(node, data, i, l, o) \in S
  BY LaneStatesAre
<1> HIDE DEF S, L
<1>6. ASSUME NEW s \in S
      PROVE  LaneRank(data, s) \in Nat /\ (LaneRank(data, s) = 0 <=> s.i = L)
             /\ LaneRank(data, s) <= (L \div Lane) + 2
  <2>1. s.i \in 0 .. L
    BY <1>3, <1>4
  <2>2. L - s.i \in Nat /\ L - s.i <= L
    BY <1>1, <2>1
  <2>3. (L - s.i) \div Lane \in Nat /\ (L - s.i) \div Lane <= L \div Lane /\ L \div Lane \in Nat
    BY <1>1, <1>2, <2>2
  <2>4. LaneRank(data, s) = IF L = s.i THEN 0 ELSE IF s.offsetInLane = 0 THEN ((L - s.i) \div Lane) + 1
                                              ELSE ((L - s.i) \div Lane) + 2
    BY Zenon DEF LaneRank, L
  <2>5. QED
    BY <2>3, <2>4
<1>7. ASSUME NEW s \in S, s.i = L
      PROVE  LaneTurn(data, s) = s
  <2>1. Len(data) - s.i = 0
    BY <1>1, <1>7 DEF L
  <2>2. QED
    BY <2>1, Zenon DEF LaneTurn
<1>8. ASSUME NEW s \in S, s.i # L
      PROVE  LaneTurn(data, s) \in S /\ LaneRank(data, LaneTurn(data, s)) < LaneRank(data, s)
  <2> DEFINE t == LaneTurn(data, s)
  <2>1. PICK i \in 0 .. L, l \in Nat, o \in 0 .. Lane - 1 :
              s = LaneState(node, data, i, l, o) /\ (i # L => Stands(node, i, l, o))
    BY <1>4
  <2>2. s.i = i /\ s.offsetInLane = o /\ i # L /\ Stands(node, i, l, o)
    BY <1>3, <1>8, <2>1
  <2>3. PICK n \in 1 .. L - i : t = LaneState(node, data, i + n, l + 1, 0) /\ (n = L - i \/ (n < L - i /\ n = Lane - o))
    <3>1. i \in 0 .. Len(data) /\ i # Len(data)
      BY <2>1, <2>2 DEF L
    <3>2. PICK n \in 1 .. Len(data) - i : LaneTurnDoes(node, data, i, l, o, n)
      BY <2>1, <2>2, <3>1, LaneTurnOf
    <3>3. QED
      BY <2>1, <3>2, Zenon DEF LaneTurnDoes, L
  <2>4. i + n \in 0 .. L /\ l + 1 \in Nat /\ 0 \in 0 .. Lane - 1 /\ (i + n # L => n # L - i)
    BY <1>1, <2>3
  <2>5. i + n # L => Stands(node, i + n, l + 1, 0)
    <3> SUFFICES ASSUME i + n # L PROVE Stands(node, i + n, l + 1, 0)
      OBVIOUS
    <3>1. n = Lane - o
      BY <1>1, <2>3
    <3>2. (l + 1) * Lane = l * Lane + Lane /\ l * Lane \in Nat
      BY <1>1
    <3>3. QED
      BY <1>1, <2>2, <3>1, <3>2 DEF Stands
  <2>6. t \in S /\ t.i = i + n /\ t.offsetInLane = 0
    <3>1. LaneState(node, data, i + n, l + 1, 0) \in S
      BY <1>5, <2>4, <2>5
    <3>2. QED
      BY <1>3, <2>3, <3>1
  <2> HIDE DEF t
  <2>7. CASE n = L - i
    <3>1. t.i = L
      BY <1>1, <2>6, <2>7
    <3>2. LaneRank(data, t) = 0 /\ LaneRank(data, s) \in Nat /\ LaneRank(data, s) # 0
      BY <1>6, <1>8, <2>6, <3>1
    <3>3. QED
      BY <2>6, <3>2 DEF t
  <2>8. CASE n < L - i /\ n = Lane - o
    <3>1. L - i \in Nat /\ L - (i + n) \in Nat /\ L - (i + n) <= L - i /\ t.i # L /\ s.i # L
      BY <1>1, <2>1, <2>2, <2>6, <2>8
    <3>2. LaneRank(data, t) = ((L - (i + n)) \div Lane) + 1
      BY <2>6, <3>1, Zenon DEF LaneRank, L
    <3>3. CASE o # 0
      <4>1. LaneRank(data, s) = ((L - i) \div Lane) + 2
        BY <2>2, <3>1, <3>3, Zenon DEF LaneRank, L
      <4>2. (L - (i + n)) \div Lane <= (L - i) \div Lane /\ (L - (i + n)) \div Lane \in Nat /\ (L - i) \div Lane \in Nat
        BY <1>2, <3>1
      <4>3. QED
        BY <2>6, <3>2, <4>1, <4>2 DEF t
    <3>4. CASE o = 0
      <4>1. LaneRank(data, s) = ((L - i) \div Lane) + 1
        BY <2>2, <3>1, <3>4, Zenon DEF LaneRank, L
      <4>2. n = Lane
        BY <1>1, <2>8, <3>4
      <4>3. L - (i + n) = (L - i) - Lane /\ L - i >= Lane
        BY <1>1, <2>8, <4>2
      <4>4. (L - (i + n)) \div Lane = ((L - i) \div Lane) - 1 /\ (L - i) \div Lane \in Nat
        BY <1>2, <3>1, <4>3
      <4>5. QED
        BY <2>6, <3>2, <4>1, <4>4 DEF t
    <3>5. QED
      BY <3>3, <3>4
  <2>9. QED
    BY <2>3, <2>7, <2>8
<1>9. g \in [S -> S] /\ rank \in [S -> Nat]
  BY <1>6, <1>7, <1>8
<1>10. \A s \in S : g[s] = LaneTurn(data, s) /\ rank[s] = LaneRank(data, s) /\ g[s] \in S
  BY <1>7, <1>8
<1>11. Nearer(S, g, rank)
  <2> HIDE DEF g, rank
  <2>1. \A s \in S : rank[s] # 0 => rank[g[s]] < rank[s]
    BY <1>6, <1>8, <1>10
  <2>2. \A s \in S : rank[s] = 0 => rank[g[s]] = 0
    BY <1>6, <1>7, <1>10
  <2>3. QED
    BY <1>9, <2>1, <2>2 DEF Nearer
<1>12. QED
  BY <1>6, <1>11 DEF S, L

\* From byteIOIndex on, lane by lane, is byte by byte.
LEMMA LanesFromRun ==
    ASSUME NEW T, NEW node \in Nodes(T), NEW data \in Seq(Bytes(T))
    PROVE  FromPosition(node, data) = XorRun(node, data)
<1> DEFINE S == LaneStates(node, data)
           g == [s \in S |-> LaneTurn(data, s)]
           rank == [s \in S |-> LaneRank(data, s)]
           b == node.byteIOIndex
           x == [node |-> node, i |-> 0, lanePosition |-> b \div Lane, offsetInLane |-> b % Lane]
           turns == (Len(data) \div Lane) + 2
           Body(f) == [k \in 0 .. turns |-> IF k = 0 THEN x ELSE LaneTurn(data, f[k - 1])]
           loop == CHOOSE f : f = Body(f)
<1>1. Len(data) \in Nat /\ Lane \in Nat /\ Lane > 0 /\ b \in Nat
  BY Sizes DEF Nodes
<1>2. turns \in Nat
  BY <1>1, DivMod
<1>3. RunOnto(node.cur, b, Piece(data, 0, 0)) = node.cur
  <2>1. Len(Piece(data, 0, 0)) = 0
    BY <1>1, PieceBytes
  <2>2. node.cur \in [0 .. Rate - 1 -> Bytes(T)]
    BY DEF Nodes, Blocks
  <2>3. \A i \in 0 .. Rate - 1 : i \notin b .. b + 0 - 1
    BY <1>1, Sizes
  <2> HIDE DEF b
  <2>4. RunOnto(node.cur, b, Piece(data, 0, 0)) = [i \in 0 .. Rate - 1 |-> node.cur[i]]
    BY <2>1, <2>3, Zenon DEF RunOnto
  <2>5. QED
    BY <2>2, <2>4
<1>4. x \in S
  <2> DEFINE l == b \div Lane
             o == b % Lane
  <2>1. l \in Nat /\ o \in 0 .. Lane - 1 /\ b = Lane * l + o
    <3>1. l \in Nat /\ o \in Nat /\ o < Lane /\ b = Lane * l + o
      BY <1>1, DivMod
    <3> HIDE DEF l, o, b
    <3>2. QED
      BY <1>1, <3>1
  <2>2. Node(node.past, node.cur, b) = node
    BY NodeIs
  <2>3. x = LaneState(node, data, 0, l, o)
    BY <1>3, <2>2, Zenon DEF LaneState
  <2> HIDE DEF x, l, o
  <2>4. Stands(node, 0, l, o)
    <3>1. l * Lane = Lane * l /\ Lane * l \in Nat
      BY <1>1, <2>1
    <3>2. QED
      BY <1>1, <2>1, <3>1 DEF Stands
  <2>5. 0 \in 0 .. Len(data)
    BY <1>1
  <2>6. LaneState(node, data, 0, l, o) \in S
    BY <2>1, <2>4, <2>5, LaneStatesAre
  <2>7. QED
    BY <2>3, <2>6
<1>5. /\ Nearer(S, g, rank)
      /\ \A s \in S : LaneRank(data, s) <= turns
      /\ \A s \in S : LaneRank(data, s) = 0 => s.i = Len(data)
  BY LaneNearer
<1>6. \A s \in S : g[s] = LaneTurn(data, s) /\ rank[s] = LaneRank(data, s)
  OBVIOUS
<1>7. FromPosition(node, data) = loop[turns].node
  BY Zenon DEF FromPosition, Loop
<1> HIDE DEF S, g, rank, x, turns
<1>8. g \in [S -> S]
  BY <1>5 DEF Nearer
<1>9. PICK f : Solves(turns, S, x, g, f)
  BY <1>2, <1>4, <1>8, Recursion
<1>10. f = Body(f)
  <2>1. f = [k \in 0 .. turns |-> IF k = 0 THEN x ELSE g[f[k - 1]]] /\ \A k \in 0 .. turns : f[k] \in S
    BY <1>2, <1>4, <1>8, <1>9, SolutionIs
  <2>2. \A k \in 0 .. turns : (IF k = 0 THEN x ELSE g[f[k - 1]]) = (IF k = 0 THEN x ELSE LaneTurn(data, f[k - 1]))
    <3> SUFFICES ASSUME NEW k \in 0 .. turns, k # 0
                 PROVE  g[f[k - 1]] = LaneTurn(data, f[k - 1])
      OBVIOUS
    <3>1. k - 1 \in 0 .. turns
      BY <1>2
    <3>2. QED
      BY <1>6, <2>1, <3>1
  <2>3. QED
    BY <2>1, <2>2, Zenon
<1>11. loop = Body(loop)
  <2> HIDE DEF Body
  <2>1. QED
    BY <1>10
<1> HIDE DEF loop
<1>12. Follows(turns, S, x, g, loop)
  <2>1. loop[0] = x
    BY <1>2, <1>11
  <2>2. \A k \in 1 .. turns : loop[k] = LaneTurn(data, loop[k - 1])
    BY <1>2, <1>11
  <2>3. QED
    BY <1>6, <2>1, <2>2, Zenon DEF Follows
<1>13. loop[turns] \in S /\ rank[loop[turns]] = 0
  BY <1>2, <1>4, <1>5, <1>6, <1>12, LoopEnds
<1>14. PICK i \in 0 .. Len(data), l \in Nat, o \in 0 .. Lane - 1 : loop[turns] = LaneState(node, data, i, l, o)
  BY <1>13, LaneStatesAre DEF S
<1>15. loop[turns].i = i /\ loop[turns].node = Node(node.past, RunOnto(node.cur, b, Piece(data, 0, i)), b)
  BY <1>14 DEF LaneState
<1>16. i = Len(data)
  <2>1. loop[turns] \in S /\ LaneRank(data, loop[turns]) = 0
    BY <1>6, <1>13
  <2>2. loop[turns].i = Len(data)
    BY <1>5, <2>1
  <2>3. QED
    BY <1>15, <2>2
<1>17. XorRun(node, data) = Node(node.past, RunOnto(node.cur, b, data), b)
  <2> DEFINE p == node.past
             open == node.cur
  <2>1. node = Node(p, open, b)
    BY NodeIs
  <2> HIDE DEF p, open, b
  <2>2. XorRun(node, data) = Node(p, RunOnto(open, b, data), b)
    BY <2>1, OntoParts
  <2>3. QED
    BY <2>2 DEF p, open
<1>18. Piece(data, 0, Len(data)) = data
  BY PieceEnds
<1>19. QED
  BY <1>7, <1>15, <1>16, <1>17, <1>18, Zenon

\* A partial block is a run of bytes, wrapped.
LEMMA PartialIs ==
    ASSUME NEW T, NEW node \in Nodes(T), NEW d \in Seq(Bytes(T))
    PROVE  PartialBlock(node, d) = Wrap([XorRun(node, d) EXCEPT !.byteIOIndex = @ + Len(d)])
<1> DEFINE filled == IF node.byteIOIndex = 0 THEN FromFirstLane(node, d) ELSE FromPosition(node, d)
<1>1. filled = XorRun(node, d)
  BY FirstLanesRun, LanesFromRun
<1>2. PartialBlock(node, d) = Wrap([filled EXCEPT !.byteIOIndex = @ + Len(d)])
  BY Zenon DEF PartialBlock
<1> HIDE DEF filled
<1>3. QED
  BY <1>1, <1>2, Zenon

\* All lanes of a rate at once.
LEMMA WholeLanes ==
    ASSUME NEW T, NEW node \in Nodes(T), node.byteIOIndex = 0, NEW d \in Seq(Bytes(T)), Len(d) = Rate
    PROVE  XorLanes(node, d, Rate \div Lane) = XorRun(node, d)
<1> DEFINE p == node.past
           open == node.cur
           n == Rate \div Lane
<1>1. Rate \in Nat /\ Lane \in Nat /\ Lane > 0 /\ Rate % Lane = 0
  BY Sizes
<1>2. n \in Nat /\ Rate = Lane * n + (Rate % Lane)
  BY <1>1, DivMod
<1> HIDE DEF n
<1>3. n * Lane = Rate
  <2>1. n * Lane = Lane * n /\ Lane * n \in Nat
    BY <1>1, <1>2
  <2>2. QED
    BY <1>1, <1>2, <2>1
<1>4. node = Node(p, open, 0)
  BY NodeIs
<1>5. n * Lane <= Len(d)
  BY <1>1, <1>3
<1>6. Piece(d, 0, n * Lane) = d
  BY <1>3, PieceEnds
<1> HIDE DEF p, open
<1>7. LanesOnto(open, d, n) = RunOnto(open, 0, Piece(d, 0, n * Lane))
  BY <1>2, <1>5, LanesAreRun
<1>8. XorRun(node, d) = Node(p, RunOnto(open, 0, d), 0)
  BY <1>4, OntoParts
<1>9. XorLanes(node, d, n) = Node(p, LanesOnto(open, d, n), 0)
  BY <1>4, OntoParts
<1>10. QED
  BY <1>6, <1>7, <1>8, <1>9, Zenon DEF n

\* The node after so many whole rates of the data.
RatesIn(n0, str, data, k) == Bytewise(n0, Then(str, Piece(data, 0, k * Rate)))

\* One rate more.
LEMMA RateNext ==
    ASSUME NEW T, NEW n0 \in Nodes(T), NEW str \in Seq(Bytes(T)), NEW data \in Seq(Bytes(T)),
           NEW k \in Nat, NEW node, node = RatesIn(n0, str, data, k), node.byteIOIndex = 0,
           (k + 1) * Rate <= Len(data)
    PROVE  /\ KeccakP1600_Permute_12rounds(
                  XorLanes(node, SubSeq(data, k * Rate + 1, (k + 1) * Rate), Rate \div Lane))
                = RatesIn(n0, str, data, k + 1)
           /\ RatesIn(n0, str, data, k + 1).byteIOIndex = 0
<1> DEFINE i == k * Rate
           next == (k + 1) * Rate
           d == Piece(data, i, Rate)
           before == Then(str, Piece(data, 0, i))
<1>1. Rate \in Nat /\ Rate > 1 /\ Len(data) \in Nat
  BY Sizes
<1>2. i \in Nat /\ next = i + Rate
  BY <1>1
<1>3. next <= Len(data)
  OBVIOUS
<1>4. SubSeq(data, i + 1, next) = d
  BY <1>2, Zenon DEF Piece
<1>5. node = Bytewise(n0, before)
  BY Zenon DEF RatesIn
<1>6. RatesIn(n0, str, data, k + 1) = Bytewise(n0, Then(str, Piece(data, 0, next)))
  BY Zenon DEF RatesIn
<1> HIDE DEF i, next
<1>7. /\ Piece(data, 0, i) \in Seq(Bytes(T)) /\ d \in Seq(Bytes(T)) /\ Len(d) = Rate
      /\ before \in Seq(Bytes(T)) /\ Then(before, d) = Then(str, Piece(data, 0, i + Rate))
  <2>1. i + Rate <= Len(data)
    BY <1>2, <1>3
  <2>2. /\ Piece(data, 0, i) \in Seq(Bytes(T)) /\ Piece(data, i, Rate) \in Seq(Bytes(T)) /\ Len(Piece(data, i, Rate)) = Rate
        /\ Then(str, Piece(data, 0, i)) \in Seq(Bytes(T))
        /\ Then(Then(str, Piece(data, 0, i)), Piece(data, i, Rate)) = Then(str, Piece(data, 0, i + Rate))
    <3> DEFINE n == Rate
    <3>1. n \in Nat /\ i \in Nat /\ i + n <= Len(data)
      BY <1>1, <1>2, <2>1
    <3> HIDE DEF d, before, n
    <3>2. /\ Piece(data, 0, i) \in Seq(Bytes(T)) /\ Piece(data, i, n) \in Seq(Bytes(T)) /\ Len(Piece(data, i, n)) = n
          /\ Then(str, Piece(data, 0, i)) \in Seq(Bytes(T))
          /\ Then(Then(str, Piece(data, 0, i)), Piece(data, i, n)) = Then(str, Piece(data, 0, i + n))
      BY <3>1, PieceNext
    <3>3. QED
      BY <3>2 DEF n
  <2>3. QED
    BY <2>2
<1> HIDE DEF d, before
<1>8. node \in Nodes(T)
  BY <1>5, <1>7, BytewiseType
<1>9. XorLanes(node, d, Rate \div Lane) = XorRun(node, d)
  BY <1>7, <1>8, WholeLanes
<1>10. KeccakP1600_Permute_12rounds(XorRun(node, d)) = Bytewise(n0, Then(before, d))
  <2>1. node.byteIOIndex + Len(d) <= Rate
    BY <1>1, <1>7
  <2>2. /\ Wrap([XorRun(node, d) EXCEPT !.byteIOIndex = @ + Len(d)]) = Bytewise(n0, Then(before, d))
        /\ node.byteIOIndex = 0 /\ Len(d) = Rate =>
             KeccakP1600_Permute_12rounds(XorRun(node, d)) = Bytewise(n0, Then(before, d))
    BY <1>5, <1>7, <2>1, WrapOnto
  <2>3. QED
    BY <1>7, <2>2
<1>11. Bytewise(n0, Then(before, d)).byteIOIndex = 0
  <2>1. At(n0, before) = 0
    BY <1>5, IndexIs
  <2>2. At(n0, before) + Len(d) = Rate
    BY <1>1, <1>7, <2>1
  <2>3. At(n0, Then(before, d)) = 0
    BY <1>7, <2>2, PositionOn
  <2>4. QED
    BY <2>3, IndexIs
<1>12. Then(before, d) = Then(str, Piece(data, 0, next))
  BY <1>2, <1>7, Zenon
<1>13. KeccakP1600_Permute_12rounds(XorLanes(node, SubSeq(data, i + 1, next), Rate \div Lane))
         = RatesIn(n0, str, data, k + 1)
  BY <1>4, <1>6, <1>9, <1>10, <1>12, Zenon
<1>14. RatesIn(n0, str, data, k + 1).byteIOIndex = 0
  BY <1>6, <1>11, <1>12, Zenon
<1>15. QED
  BY <1>13, <1>14, Zenon DEF i, next

\* All whole rates there are, one after the other in registers.
LEMMA WholeOnto ==
    ASSUME NEW T, NEW n0 \in Nodes(T), NEW str \in Seq(Bytes(T)), NEW data \in Seq(Bytes(T)),
           NEW node, node = Bytewise(n0, str), node.byteIOIndex = 0, NEW m \in Nat, Len(data) = m * Rate
    PROVE  WholeRates(node, data) = Bytewise(n0, Then(str, data)) /\ Bytewise(n0, Then(str, data)).byteIOIndex = 0
<1> DEFINE q == Len(data) \div Rate
           Turn(v, k) == KeccakP1600_Permute_12rounds(
                             XorLanes(v, SubSeq(data, (k - 1) * Rate + 1, k * Rate), Rate \div Lane))
           Body(f) == [k \in 0 .. q |-> IF k = 0 THEN node ELSE Turn(f[k - 1], k)]
           rates == CHOOSE f : f = Body(f)
           w == [k \in 0 .. q |-> RatesIn(n0, str, data, k)]
<1>1. Rate \in Nat /\ Rate > 1 /\ m * Rate \in Nat
  BY Sizes
<1>2. q = m
  <2>1. m * Rate = Rate * m + 0
    BY <1>1
  <2>2. Len(data) \in Int /\ Len(data) = Rate * m + 0 /\ 0 <= 0 /\ 0 < Rate
    BY <1>1, <2>1
  <2>3. Len(data) \div Rate = m
    BY <1>1, <2>2, Unique
  <2>4. QED
    BY <2>3
<1>3. WholeRates(node, data) = rates[q]
  BY Zenon DEF WholeRates
<1>4. RatesIn(n0, str, data, 0) = node
  <2>1. 0 * Rate = 0
    BY <1>1
  <2>2. Then(str, Piece(data, 0, 0)) = str
    BY PieceEnds
  <2>3. QED
    BY <2>1, <2>2, Zenon DEF RatesIn
<1> HIDE DEF q
<1> DEFINE Good == {k \in 0 .. m : RatesIn(n0, str, data, k).byteIOIndex = 0}
<1>5. ASSUME NEW k \in 0 .. m - 1, RatesIn(n0, str, data, k).byteIOIndex = 0
      PROVE  Turn(RatesIn(n0, str, data, k), k + 1) = RatesIn(n0, str, data, k + 1)
             /\ RatesIn(n0, str, data, k + 1).byteIOIndex = 0
  <2> DEFINE v == RatesIn(n0, str, data, k)
             top == (k + 1) * Rate
  <2>1. k \in Nat /\ k + 1 - 1 = k /\ k < m
    OBVIOUS
  <2>2. top <= Len(data)
    <3>1. k * Rate + Rate <= m * Rate /\ top = k * Rate + Rate
      BY <1>1, <2>1, Below
    <3>2. QED
      BY <3>1
  <2>3. v = RatesIn(n0, str, data, k) /\ v.byteIOIndex = 0
    BY <1>5
  <2> HIDE DEF v
  <2>4. /\ KeccakP1600_Permute_12rounds(XorLanes(v, SubSeq(data, k * Rate + 1, (k + 1) * Rate), Rate \div Lane))
             = RatesIn(n0, str, data, k + 1)
        /\ RatesIn(n0, str, data, k + 1).byteIOIndex = 0
    BY <2>1, <2>2, <2>3, RateNext
  <2>5. SubSeq(data, (k + 1 - 1) * Rate + 1, (k + 1) * Rate) = SubSeq(data, k * Rate + 1, (k + 1) * Rate)
    BY <2>1
  <2>6. QED
    BY <2>3, <2>4, <2>5
<1>6. \A k \in 0 .. m : k \in Good
  <2>1. 0 \in Good
    BY <1>4
  <2>2. \A k \in 0 .. m - 1 : k \in Good => k + 1 \in Good
    <3> SUFFICES ASSUME NEW k \in 0 .. m - 1, k \in Good PROVE k + 1 \in Good
      OBVIOUS
    <3>1. RatesIn(n0, str, data, k).byteIOIndex = 0 /\ k + 1 \in 0 .. m
      OBVIOUS
    <3>2. RatesIn(n0, str, data, k + 1).byteIOIndex = 0
      BY <1>5, <3>1, Zenon
    <3>3. QED
      BY <3>1, <3>2
  <2> HIDE DEF Good
  <2>3. QED
    BY <2>1, <2>2, UpTo
<1>7. \A k \in 0 .. m : RatesIn(n0, str, data, k).byteIOIndex = 0
  BY <1>6
<1>8. ASSUME NEW k \in 0 .. m, k # 0
      PROVE  Turn(RatesIn(n0, str, data, k - 1), k) = RatesIn(n0, str, data, k)
  <2> DEFINE j == k - 1
  <2>1. j \in 0 .. m - 1 /\ j \in 0 .. m /\ j + 1 = k
    BY <1>8
  <2> HIDE DEF j, Turn
  <2>2. RatesIn(n0, str, data, j).byteIOIndex = 0
    BY <1>7, <2>1
  <2>3. Turn(RatesIn(n0, str, data, j), j + 1) = RatesIn(n0, str, data, j + 1)
    BY <1>5, <2>1, <2>2, Zenon
  <2>4. QED
    BY <2>1, <2>3, Zenon DEF j
<1>9. w = Body(w)
  <2> HIDE DEF Turn
  <2>1. ASSUME NEW k \in 0 .. q
        PROVE  RatesIn(n0, str, data, k) = IF k = 0 THEN node ELSE Turn(w[k - 1], k)
    <3>1. CASE k = 0
      BY <1>4, <3>1
    <3>2. CASE k # 0
      <4>1. k - 1 \in 0 .. q
        BY <1>2, <3>2
      <4>2. w[k - 1] = RatesIn(n0, str, data, k - 1)
        BY <4>1
      <4>3. QED
        BY <1>2, <1>8, <3>2, <4>2, Zenon
    <3>3. QED
      BY <3>1, <3>2
  <2> HIDE DEF w
  <2>2. w = [k \in 0 .. q |-> RatesIn(n0, str, data, k)]
    BY DEF w
  <2>3. QED
    BY <2>1, <2>2, Zenon
<1> HIDE DEF w, Turn
<1>10. rates = Body(rates)
  <2> HIDE DEF Body
  <2>1. QED
    BY <1>9
<1> HIDE DEF rates
<1> DEFINE Same == {k \in 0 .. m : rates[k] = RatesIn(n0, str, data, k)}
<1>11. \A k \in 0 .. m : k \in Same
  <2>1. 0 \in Same
    <3>1. 0 \in 0 .. q /\ 0 \in 0 .. m
      BY <1>2
    <3>2. rates[0] = node
      BY <1>10, <3>1
    <3>3. QED
      BY <1>4, <3>1, <3>2
  <2>2. \A k \in 0 .. m - 1 : k \in Same => k + 1 \in Same
    <3> SUFFICES ASSUME NEW k \in 0 .. m - 1, k \in Same PROVE k + 1 \in Same
      OBVIOUS
    <3>1. k + 1 \in 0 .. q /\ k + 1 # 0 /\ k + 1 - 1 = k /\ k + 1 \in 0 .. m /\ k \in 0 .. m
      BY <1>2
    <3>2. rates[k + 1] = Turn(rates[k], k + 1)
      <4> DEFINE j == k + 1
      <4>1. j \in 0 .. q /\ j # 0 /\ j - 1 = k
        BY <3>1
      <4> HIDE DEF j
      <4>2. rates[j] = Turn(rates[j - 1], j)
        BY <1>10, <4>1
      <4>3. QED
        BY <4>1, <4>2 DEF j
    <3>3. RatesIn(n0, str, data, k).byteIOIndex = 0 /\ rates[k] = RatesIn(n0, str, data, k)
      BY <1>7, <3>1
    <3>4. rates[k + 1] = RatesIn(n0, str, data, k + 1)
      BY <1>5, <3>1, <3>2, <3>3, Zenon
    <3>5. QED
      BY <3>1, <3>4
  <2> HIDE DEF Same
  <2>3. QED
    BY <2>1, <2>2, UpTo
<1>12. m \in 0 .. m
  OBVIOUS
<1>13. rates[q] = RatesIn(n0, str, data, m) /\ RatesIn(n0, str, data, m).byteIOIndex = 0
  BY <1>2, <1>7, <1>11, <1>12
<1>14. RatesIn(n0, str, data, m) = Bytewise(n0, Then(str, data))
  <2>1. Piece(data, 0, Len(data)) = data
    BY PieceEnds
  <2>2. QED
    BY <2>1, Zenon DEF RatesIn
<1>15. QED
  BY <1>3, <1>13, <1>14, Zenon

\* One turn absorbs n bytes: all that is left, what fits, or all whole rates there are.
TurnDoes(n0, str, data, i, n, s) ==
    /\ AbsorbTurn(data, s) = AbsorbState(n0, str, data, i + n)
    /\ \/ n = Len(data) - i
       \/ /\ n < Len(data) - i
          /\ AbsorbTurn(data, s).node.byteIOIndex = 0
          /\ s.node.byteIOIndex # 0 \/ (Len(data) - i >= Rate /\ Len(data) - (i + n) < Rate)

\* Every turn of the unfinished loop takes some bytes and leaves such a state.
LEMMA TurnOf ==
    ASSUME NEW T, NEW n0 \in Nodes(T), NEW str \in Seq(Bytes(T)), NEW data \in Seq(Bytes(T)),
           NEW i \in 0 .. Len(data), i # Len(data), NEW s, s = AbsorbState(n0, str, data, i)
    PROVE  \E n \in 1 .. Len(data) - i : TurnDoes(n0, str, data, i, n, s)
<1> DEFINE left == Len(data) - i
           b == s.node.byteIOIndex
           room == Rate - b
           m == left \div Rate
           whole == b = 0 /\ left >= Rate
           before == Then(str, Piece(data, 0, i))
           n == IF whole THEN m * Rate ELSE IF left > room THEN room ELSE left
           d == Piece(data, i, n)
           after == Bytewise(n0, Then(before, d))
<1>1. s.i = i /\ s.node = Bytewise(n0, before)
  BY DEF AbsorbState
<1>2. i \in Nat /\ Len(data) \in Nat /\ left \in Nat /\ left >= 1 /\ Rate \in Nat /\ Rate > 1
  BY Sizes
<1>3. i + left <= Len(data)
  BY <1>2
<1>4. Piece(data, 0, i) \in Seq(Bytes(T)) /\ before \in Seq(Bytes(T))
  <2>1. i + 0 <= Len(data) /\ 0 \in Nat
    BY <1>2
  <2>2. QED
    BY <1>2, <2>1, PieceNext
<1>5. s.node \in Nodes(T)
  BY <1>1, <1>4, BytewiseType
<1>6. b \in Nat /\ b < Rate
  BY <1>2, <1>5 DEF Nodes
<1>7. m \in Nat /\ left % Rate \in Nat /\ left % Rate < Rate /\ left = m * Rate + (left % Rate) /\ m * Rate \in Nat
  <2>1. m \in Nat /\ left % Rate \in Nat /\ left % Rate < Rate /\ left = Rate * m + (left % Rate)
    BY <1>2, DivMod
  <2>2. Rate * m = m * Rate /\ m * Rate \in Nat
    <3> HIDE DEF m
    <3>1. QED
      BY <1>2, <2>1
  <2>3. QED
    BY <2>1, <2>2
<1> DEFINE rest == left % Rate
           all == m * Rate
<1> HIDE DEF before, b, m, rest
<1>8. CASE whole
  <2>1. n = m * Rate
    BY <1>8
  <2>2. m * Rate # 0
    <3>1. left >= Rate /\ rest < Rate /\ rest \in Nat /\ left = all + rest /\ all \in Nat
      BY <1>7, <1>8 DEF rest
    <3> HIDE DEF left, all
    <3>2. all # 0
      BY <1>2, <3>1
    <3>3. QED
      BY <3>2 DEF all
  <2>3. n \in Nat /\ n # 0 /\ i + n <= Len(data) /\ n <= left /\ left - n < Rate
    <3>1. n = all /\ all \in Nat /\ all # 0 /\ rest \in Nat /\ rest < Rate /\ left = all + rest
      BY <1>7, <2>1, <2>2 DEF rest
    <3> HIDE DEF n, all, left
    <3>2. QED
      BY <1>2, <1>3, <3>1
  <2> HIDE DEF n
  <2>4. /\ Piece(data, i, n) \in Seq(Bytes(T)) /\ Len(Piece(data, i, n)) = n
        /\ Then(Then(str, Piece(data, 0, i)), Piece(data, i, n)) = Then(str, Piece(data, 0, i + n))
    <3>1. i \in Nat /\ n \in Nat /\ i + n <= Len(data)
      BY <1>2, <2>3
    <3> HIDE DEF d, after, left, room, whole, all
    <3>2. /\ Piece(data, 0, i) \in Seq(Bytes(T)) /\ Piece(data, i, n) \in Seq(Bytes(T)) /\ Len(Piece(data, i, n)) = n
          /\ Then(str, Piece(data, 0, i)) \in Seq(Bytes(T))
          /\ Then(Then(str, Piece(data, 0, i)), Piece(data, i, n)) = Then(str, Piece(data, 0, i + n))
      BY <3>1, PieceNext
    <3>3. QED
      BY <3>2
  <2>5. d \in Seq(Bytes(T)) /\ Len(d) = m * Rate /\ Then(before, d) = Then(str, Piece(data, 0, i + n))
    BY <2>1, <2>4 DEF before
  <2> HIDE DEF d
  <2>6. s.node.byteIOIndex = 0
    BY <1>8 DEF b
  <2>7. WholeRates(s.node, d) = after /\ after.byteIOIndex = 0
    BY <1>1, <1>4, <1>7, <2>5, <2>6, WholeOnto
  <2>8. AbsorbTurn(data, s) = [node |-> WholeRates(s.node, d), i |-> i + n]
    <3>1. left # 0
      BY <1>2
    <3>2. Len(data) - s.i = left
      BY <1>1
    <3> HIDE DEF left
    <3>3. QED
      BY <1>1, <1>8, <2>1, <3>1, <3>2, Zenon DEF AbsorbTurn, d, Piece, b, m
  <2>9. AbsorbTurn(data, s) = AbsorbState(n0, str, data, i + n)
    BY <2>5, <2>7, <2>8, Zenon DEF AbsorbState
  <2>10. AbsorbTurn(data, s).node.byteIOIndex = 0
    <3> HIDE DEF after
    <3>1. AbsorbTurn(data, s).node = after
      BY <2>7, <2>8
    <3>2. QED
      BY <2>7, <3>1
  <2>11. n \in 1 .. Len(data) - i
    BY <1>2, <2>3
  <2>12. n = Len(data) - i \/ (n < Len(data) - i /\ Len(data) - i >= Rate /\ Len(data) - (i + n) < Rate)
    BY <1>2, <1>8, <2>3
  <2>13. TurnDoes(n0, str, data, i, n, s)
    BY <2>9, <2>10, <2>12, Zenon DEF TurnDoes
  <2>14. QED
    BY <2>11, <2>13
<1>9. CASE ~ whole
  <2>1. n = IF left > room THEN room ELSE left
    BY <1>9
  <2>2. room \in Nat /\ room >= 1 /\ b + room = Rate
    BY <1>2, <1>6
  <2>3. b # 0 \/ left < room
    BY <1>2, <1>6, <1>9
  <2>4. n \in Nat /\ n # 0 /\ n <= left /\ i + n <= Len(data) /\ b + n <= Rate /\ (n = left \/ (n < left /\ b # 0 /\ b + n = Rate))
    <3> HIDE DEF n, left, room, whole
    <3>1. QED
      BY <1>2, <1>6, <1>3, <2>1, <2>2, <2>3
  <2> HIDE DEF n
  <2>5. /\ Piece(data, i, n) \in Seq(Bytes(T)) /\ Len(Piece(data, i, n)) = n
        /\ Then(Then(str, Piece(data, 0, i)), Piece(data, i, n)) = Then(str, Piece(data, 0, i + n))
    BY <1>2, <2>4, PieceNext
  <2>6. d \in Seq(Bytes(T)) /\ Len(d) = n /\ Then(before, d) = Then(str, Piece(data, 0, i + n))
    BY <2>5 DEF before
  <2> HIDE DEF d
  <2>7. PartialBlock(s.node, d) = after
    <3>1. PartialBlock(s.node, d) = Wrap([XorRun(s.node, d) EXCEPT !.byteIOIndex = @ + Len(d)])
      BY <1>5, <2>6, PartialIs
    <3>2. /\ Wrap([XorRun(s.node, d) EXCEPT !.byteIOIndex = @ + Len(d)]) = after
          /\ b = 0 /\ Len(d) = Rate => KeccakP1600_Permute_12rounds(XorRun(s.node, d)) = after
      BY <1>1, <1>4, <2>4, <2>6, WrapOnto DEF b
    <3>3. QED
      BY <3>1, <3>2, Zenon
  <2>8. AbsorbTurn(data, s) = [node |-> PartialBlock(s.node, d), i |-> i + n]
    <3>1. left # 0
      BY <1>2
    <3>2. Len(data) - s.i = left /\ Rate - b = room
      BY <1>1
    <3> HIDE DEF left, room
    <3>3. QED
      BY <1>1, <1>9, <2>1, <3>1, <3>2, Zenon DEF AbsorbTurn, d, Piece, b
  <2>9. AbsorbTurn(data, s) = AbsorbState(n0, str, data, i + n)
    BY <2>6, <2>7, <2>8, Zenon DEF AbsorbState
  <2>10. b + n = Rate => AbsorbTurn(data, s).node.byteIOIndex = 0
    <3>1. b = At(n0, before)
      BY <1>1, IndexIs DEF b
    <3>2. after.byteIOIndex = At(n0, Then(before, d))
      BY IndexIs
    <3>3. At(n0, before) + Len(d) = Rate => At(n0, Then(before, d)) = 0
      BY <1>4, <2>6, PositionOn
    <3> HIDE DEF after
    <3>4. AbsorbTurn(data, s).node = after
      BY <2>7, <2>8
    <3>5. QED
      BY <2>6, <3>1, <3>2, <3>3, <3>4
  <2>11. n \in 1 .. Len(data) - i
    BY <1>2, <2>4
  <2>12. n = Len(data) - i \/ (n < Len(data) - i /\ s.node.byteIOIndex # 0 /\ b + n = Rate)
    BY <2>4 DEF b
  <2>13. TurnDoes(n0, str, data, i, n, s)
    BY <2>9, <2>10, <2>12, Zenon DEF TurnDoes
  <2>14. QED
    BY <2>11, <2>13
<1>10. QED
  BY <1>8, <1>9

\* The turns it needs from a state on: what fits, all whole rates, the rest.
AbsorbRank(data, s) ==
    IF Len(data) = s.i THEN 0
    ELSE IF s.node.byteIOIndex # 0 THEN 3
    ELSE IF Len(data) - s.i >= Rate THEN 2 ELSE 1

\* Each turn of the loop brings its end nearer.
LEMMA AbsorbNearer ==
    ASSUME NEW T, NEW n0 \in Nodes(T), NEW str \in Seq(Bytes(T)), NEW data \in Seq(Bytes(T))
    PROVE  LET S == AbsorbStates(n0, str, data)
           IN  /\ Nearer(S, [s \in S |-> AbsorbTurn(data, s)], [s \in S |-> AbsorbRank(data, s)])
               /\ \A s \in S : AbsorbRank(data, s) <= 3
               /\ \A s \in S : AbsorbRank(data, s) = 0 => s.i = Len(data)
<1> DEFINE S == AbsorbStates(n0, str, data)
           L == Len(data)
           g == [s \in S |-> AbsorbTurn(data, s)]
           rank == [s \in S |-> AbsorbRank(data, s)]
<1>1. L \in Nat /\ Rate \in Nat /\ Rate > 1
  BY Sizes
<1>2. \A s \in S : \E i \in 0 .. L : s = AbsorbState(n0, str, data, i) /\ s.i = i
  BY DEF AbsorbStates, AbsorbState
<1>3. \A i \in 0 .. L : AbsorbState(n0, str, data, i) \in S /\ AbsorbState(n0, str, data, i).i = i
  BY DEF AbsorbStates, AbsorbState
<1> HIDE DEF S, L
<1>4. \A s : AbsorbRank(data, s) = IF L = s.i THEN 0 ELSE IF s.node.byteIOIndex # 0 THEN 3 ELSE IF L - s.i >= Rate THEN 2 ELSE 1
  BY Zenon DEF AbsorbRank, L
<1>5. \A s \in S : AbsorbRank(data, s) \in Nat /\ AbsorbRank(data, s) <= 3 /\ (AbsorbRank(data, s) = 0 <=> s.i = L)
  BY <1>4
<1>6. ASSUME NEW s \in S, s.i = L
      PROVE  AbsorbTurn(data, s) = s
  <2>1. Len(data) - s.i = 0
    BY <1>1, <1>6 DEF L
  <2>2. QED
    BY <2>1, Zenon DEF AbsorbTurn
<1>7. ASSUME NEW s \in S, s.i # L
      PROVE  AbsorbTurn(data, s) \in S /\ AbsorbRank(data, AbsorbTurn(data, s)) < AbsorbRank(data, s)
  <2> DEFINE t == AbsorbTurn(data, s)
  <2>1. PICK i \in 0 .. L : s = AbsorbState(n0, str, data, i) /\ s.i = i
    BY <1>2
  <2>2. PICK n \in 1 .. L - i :
              /\ t = AbsorbState(n0, str, data, i + n)
              /\ \/ n = L - i
                 \/ /\ n < L - i /\ t.node.byteIOIndex = 0
                    /\ s.node.byteIOIndex # 0 \/ (L - i >= Rate /\ L - (i + n) < Rate)
    <3>1. i \in 0 .. Len(data) /\ i # Len(data)
      BY <1>7, <2>1 DEF L
    <3>2. PICK n \in 1 .. Len(data) - i : TurnDoes(n0, str, data, i, n, s)
      BY <2>1, <3>1, TurnOf, Zenon
    <3>3. QED
      BY <3>2, Zenon DEF TurnDoes, L
  <2>3. i + n \in 0 .. L
    BY <1>1, <2>2
  <2>4. t \in S /\ t.i = i + n
    BY <1>3, <2>2, <2>3
  <2> HIDE DEF t
  <2>5. CASE n = L - i
    <3>1. t.i = L
      BY <1>1, <2>4, <2>5
    <3>2. AbsorbRank(data, t) = 0 /\ AbsorbRank(data, s) \in Nat /\ AbsorbRank(data, s) # 0
      BY <1>5, <1>7, <2>4, <3>1
    <3>3. QED
      BY <2>4, <3>2 DEF t
  <2>6. CASE /\ n < L - i /\ t.node.byteIOIndex = 0
             /\ s.node.byteIOIndex # 0 \/ (L - i >= Rate /\ L - (i + n) < Rate)
    <3>1. t.i # L /\ s.i # L
      BY <1>1, <2>1, <2>4, <2>6
    <3>2. AbsorbRank(data, t) = IF L - (i + n) >= Rate THEN 2 ELSE 1
      BY <1>4, <2>4, <2>6, <3>1, Zenon
    <3>3. CASE s.node.byteIOIndex # 0
      <4>1. AbsorbRank(data, s) = 3
        BY <1>4, <3>1, <3>3, Zenon
      <4>2. QED
        BY <2>4, <3>2, <4>1 DEF t
    <3>4. CASE s.node.byteIOIndex = 0
      <4>1. L - i >= Rate /\ L - (i + n) < Rate
        BY <2>6, <3>4
      <4>2. AbsorbRank(data, s) = 2
        BY <1>4, <2>1, <3>1, <3>4, <4>1, Zenon
      <4>3. AbsorbRank(data, t) = 1
        BY <1>1, <3>2, <4>1
      <4>4. QED
        BY <2>4, <4>2, <4>3 DEF t
    <3>5. QED
      BY <3>3, <3>4
  <2>7. QED
    BY <2>2, <2>5, <2>6
<1>8. g \in [S -> S] /\ rank \in [S -> Nat]
  BY <1>5, <1>6, <1>7
<1>9. \A s \in S : g[s] = AbsorbTurn(data, s) /\ rank[s] = AbsorbRank(data, s) /\ g[s] \in S
  BY <1>6, <1>7
<1>10. Nearer(S, g, rank)
  <2> HIDE DEF g, rank
  <2>1. \A s \in S : rank[s] # 0 => rank[g[s]] < rank[s]
    BY <1>5, <1>7, <1>9
  <2>2. \A s \in S : rank[s] = 0 => rank[g[s]] = 0
    BY <1>5, <1>6, <1>9
  <2>3. QED
    BY <1>8, <2>1, <2>2 DEF Nearer
<1>11. QED
  BY <1>5, <1>10 DEF S, L

\* Absorbing data after str is absorbing both.
LEMMA AbsorbOnto ==
    ASSUME NEW T, NEW n0 \in Nodes(T), NEW str \in Seq(Bytes(T)), NEW data \in Seq(Bytes(T)),
           NEW node, node = Bytewise(n0, str)
    PROVE  KangarooTwelve_F_Absorb(node, data) = Bytewise(n0, Then(str, data))
<1> DEFINE S == AbsorbStates(n0, str, data)
           g == [s \in S |-> AbsorbTurn(data, s)]
           rank == [s \in S |-> AbsorbRank(data, s)]
           x == [node |-> node, i |-> 0]
           turns == 3
           Body(f) == [k \in 0 .. turns |-> IF k = 0 THEN x ELSE AbsorbTurn(data, f[k - 1])]
           loop == CHOOSE f : f = Body(f)
<1>1. Len(data) \in Nat
  OBVIOUS
<1>2. turns \in Nat
  OBVIOUS
<1>3. x \in S /\ x = AbsorbState(n0, str, data, 0)
  <2>1. x = AbsorbState(n0, str, data, 0)
    BY PieceEnds DEF AbsorbState
  <2>2. QED
    BY <1>1, <2>1 DEF AbsorbStates
<1>4. /\ Nearer(S, g, rank)
      /\ \A s \in S : AbsorbRank(data, s) <= turns
      /\ \A s \in S : AbsorbRank(data, s) = 0 => s.i = Len(data)
  BY AbsorbNearer
<1>5. \A s \in S : g[s] = AbsorbTurn(data, s) /\ rank[s] = AbsorbRank(data, s)
  OBVIOUS
<1>6. KangarooTwelve_F_Absorb(node, data) = loop[turns].node
  BY Zenon DEF KangarooTwelve_F_Absorb, Loop
<1> HIDE DEF S, g, rank, x, turns
<1>7. g \in [S -> S]
  BY <1>4 DEF Nearer
<1>8. PICK f : Solves(turns, S, x, g, f)
  BY <1>2, <1>3, <1>7, Recursion
<1>9. f = Body(f)
  <2>1. f = [k \in 0 .. turns |-> IF k = 0 THEN x ELSE g[f[k - 1]]] /\ \A k \in 0 .. turns : f[k] \in S
    BY <1>2, <1>3, <1>7, <1>8, SolutionIs
  <2>2. \A k \in 0 .. turns : (IF k = 0 THEN x ELSE g[f[k - 1]]) = (IF k = 0 THEN x ELSE AbsorbTurn(data, f[k - 1]))
    <3> SUFFICES ASSUME NEW k \in 0 .. turns, k # 0
                 PROVE  g[f[k - 1]] = AbsorbTurn(data, f[k - 1])
      OBVIOUS
    <3>1. k - 1 \in 0 .. turns
      BY <1>2
    <3>2. QED
      BY <1>5, <2>1, <3>1
  <2>3. QED
    BY <2>1, <2>2, Zenon
<1>10. loop = Body(loop)
  <2> HIDE DEF Body
  <2>1. QED
    BY <1>9
<1> HIDE DEF loop
<1>11. Follows(turns, S, x, g, loop)
  <2>1. loop[0] = x
    BY <1>2, <1>10
  <2>2. \A k \in 1 .. turns : loop[k] = AbsorbTurn(data, loop[k - 1])
    BY <1>2, <1>10
  <2>3. QED
    BY <1>5, <2>1, <2>2, Zenon DEF Follows
<1>12. loop[turns] \in S /\ rank[loop[turns]] = 0
  BY <1>2, <1>3, <1>4, <1>5, <1>11, LoopEnds
<1>13. PICK i \in 0 .. Len(data) : loop[turns] = AbsorbState(n0, str, data, i)
  BY <1>12 DEF S, AbsorbStates
<1>14. loop[turns].i = i /\ loop[turns].node = Bytewise(n0, Then(str, Piece(data, 0, i)))
  BY <1>13 DEF AbsorbState
<1>15. i = Len(data)
  <2>1. loop[turns] \in S /\ AbsorbRank(data, loop[turns]) = 0
    BY <1>5, <1>12
  <2>2. loop[turns].i = Len(data)
    BY <1>4, <2>1
  <2>3. QED
    BY <1>14, <2>2
<1>16. QED
  BY <1>6, <1>14, <1>15, PieceEnds

-----------------------------------------------------------------------------
(* Ending a node.                                                          *)

\* A node that starts with nothing.
LEMMA FreshNode == \A T : Fresh \in Nodes(T) /\ Fresh = Node(<<>>, Zeros, 0)
<1> SUFFICES ASSUME NEW T PROVE Fresh \in Nodes(T) /\ Fresh = Node(<<>>, Zeros, 0)
  OBVIOUS
<1>1. Zeros \in Blocks(T) /\ 0 \in 0 .. Rate - 1 /\ <<>> \in Seq(Blocks(T))
  BY Sizes DEF Zeros, Blocks, Bytes
<1>2. QED
  BY <1>1 DEF Fresh, Nodes, Node

\* A byte onto a block.
Onto(block, at, byte) == [block EXCEPT ![at] = SymDiff(@, byte)]

\* XORing a byte changes the open block only.
LEMMA XorAtParts == \A p, open, b, at, byte : XorAt(Node(p, open, b), at, byte) = Node(p, Onto(open, at, byte), b)
<1> SUFFICES ASSUME NEW p, NEW open, NEW b, NEW at, NEW byte
             PROVE  XorAt(Node(p, open, b), at, byte) = Node(p, Onto(open, at, byte), b)
  OBVIOUS
<1> DEFINE n == Node(p, open, b)
<1>1. n.cur = open
  BY NodeParts
<1>2. XorAt(n, at, byte) = [n EXCEPT !.cur = [n.cur EXCEPT ![at] = SymDiff(n.cur[at], byte)]]
  <2> HIDE DEF n
  <2>1. QED
    BY Zenon DEF XorAt
<1>3. XorAt(n, at, byte) = [n EXCEPT !.cur = Onto(open, at, byte)]
  <2> HIDE DEF n
  <2>1. QED
    BY <1>1, <1>2, Zenon DEF Onto
<1>4. QED
  BY <1>3, NodeChanges

\* The padded string of a sponge, byte by byte, and its blocks.
Padded(str, suffix, n) == str \o <<Byte(suffix)>> \o ZeroBytes(n * Rate - Len(str) - 1)
Closed(str, suffix, n) == [Padded(str, suffix, n) EXCEPT ![n * Rate] = SymDiff(@, Byte(128))]

\* The sponge over it.
LEMMA SpongeIs ==
    ASSUME NEW str, NEW suffix
    PROVE  LET n == Len(str) \div Rate + 1
           IN  Sponge(str, suffix) =
                 [past |-> [b \in 1 .. n |-> [i \in 0 .. Rate - 1 |-> Closed(str, suffix, n)[(b - 1) * Rate + i + 1]]],
                  cur |-> Zeros]
BY Zenon DEF Sponge, Closed, Padded

\* Each byte of the padded string.
LEMMA PaddedBytes ==
    ASSUME NEW T, NEW str \in Seq(Bytes(T)), NEW suffix, Byte(suffix) \in Bytes(T), NEW n \in Nat,
           Len(str) < n * Rate
    PROVE  /\ DOMAIN Padded(str, suffix, n) = 1 .. n * Rate
           /\ \A x \in 1 .. n * Rate : Padded(str, suffix, n)[x] = IF x <= Len(str) THEN str[x]
                                                                   ELSE IF x = Len(str) + 1 THEN Byte(suffix) ELSE {}
<1> DEFINE L == Len(str)
           e == <<Byte(suffix)>>
           m == n * Rate - L - 1
           z == ZeroBytes(m)
           s == str \o e
           N == n * Rate
<1>1. L \in Nat /\ n * Rate \in Nat /\ Rate \in Nat
  BY Sizes
<1>2. N \in Nat /\ m \in Nat /\ L + 1 + m = N
  BY <1>1
<1>3. e \in Seq(Bytes(T)) /\ Len(e) = 1 /\ e[1] = Byte(suffix)
  OBVIOUS
<1>4. s \in Seq(Bytes(T)) /\ Len(s) = L + 1 /\ (\A x \in 1 .. L : s[x] = str[x]) /\ s[L + 1] = Byte(suffix)
  <2> DEFINE X == Bytes(T)
  <2>0. str \in Seq(X) /\ e \in Seq(X)
    BY <1>3
  <2> HIDE DEF e, X
  <2>1. s \in Seq(X) /\ Len(s) = L + Len(e)
    BY <2>0
  <2>2. \A x \in 1 .. L : s[x] = str[x]
    BY <2>0
  <2>3. s[L + 1] = e[1]
    <3>1. \A x \in 1 .. Len(e) : s[L + x] = e[x]
      BY <2>0
    <3> HIDE DEF s, L
    <3>2. QED
      BY <1>3, <3>1
  <2> HIDE DEF s, L
  <2>4. QED
    BY <1>3, <2>1, <2>2, <2>3 DEF X
<1>5. z \in Seq(Bytes(T)) /\ Len(z) = m /\ \A x \in 1 .. m : z[x] = {}
  <2> HIDE DEF m
  <2>1. QED
    BY <1>2 DEF ZeroBytes, Bytes
<1>6. Padded(str, suffix, n) = s \o z
  BY Zenon DEF Padded
<1> HIDE DEF L, s, z, m, e, N
<1>7. s \o z \in Seq(Bytes(T)) /\ Len(s \o z) = N
  <2>1. s \o z \in Seq(Bytes(T)) /\ Len(s \o z) = Len(s) + Len(z)
    BY <1>4, <1>5
  <2>2. QED
    BY <1>2, <1>4, <1>5, <2>1
<1>8. ASSUME NEW x \in 1 .. N
      PROVE  (s \o z)[x] = IF x <= L THEN str[x] ELSE IF x = L + 1 THEN Byte(suffix) ELSE {}
  <2>1. x <= L + 1 => (s \o z)[x] = s[x]
    BY <1>1, <1>4, <1>5
  <2>2. x > L + 1 => (s \o z)[x] = z[x - (L + 1)] /\ x - (L + 1) \in 1 .. m
    <3> SUFFICES ASSUME x > L + 1
                 PROVE  (s \o z)[x] = z[x - (L + 1)] /\ x - (L + 1) \in 1 .. m
      OBVIOUS
    <3>1. x - (L + 1) \in 1 .. m /\ x = Len(s) + (x - (L + 1))
      BY <1>1, <1>2, <1>4
    <3>2. \A e1 \in 1 .. m : (s \o z)[Len(s) + e1] = z[e1]
      BY <1>4, <1>5
    <3>3. QED
      BY <3>1, <3>2
  <2>3. CASE x <= L
    BY <1>1, <1>4, <2>1, <2>3
  <2>4. CASE x = L + 1
    BY <1>1, <1>4, <2>1, <2>4
  <2>5. CASE x > L + 1
    <3>1. ~ (x <= L) /\ x # L + 1
      BY <1>1, <1>2, <2>5
    <3>2. (s \o z)[x] = {}
      BY <1>5, <2>2, <2>5
    <3>3. QED
      BY <3>1, <3>2, Zenon
  <2>6. x <= L \/ x = L + 1 \/ x > L + 1
    BY <1>1, <1>2
  <2>7. QED
    BY <2>3, <2>4, <2>5, <2>6, Zenon
<1>9. QED
  <2>1. DOMAIN (s \o z) = 1 .. N
    BY <1>2, <1>7
  <2>2. QED
    BY <1>6, <1>8, <2>1, Zenon DEF L, N

\* The node that has absorbed str into nothing, its last block with the suffix and
\* the last rate bit.
Absorbed(str) == Bytewise(Fresh, str)
LastBlock(str, suffix) ==
    Onto(Onto(Filled(Fresh, str, Full(Fresh, str)), At(Fresh, str), Byte(suffix)), Rate - 1, Byte(128))

\* Byte by byte.
LEMMA OntoIs ==
    ASSUME NEW g, NEW block, block = [j \in 0 .. Rate - 1 |-> g[j]], NEW at \in 0 .. Rate - 1, NEW byte
    PROVE  Onto(block, at, byte) = [j \in 0 .. Rate - 1 |-> IF j = at THEN SymDiff(g[j], byte) ELSE g[j]]
BY DEF Onto

\* A block stays one.
LEMMA OntoType ==
    ASSUME NEW T, NEW block \in Blocks(T), NEW at \in 0 .. Rate - 1, NEW byte \in Bytes(T)
    PROVE  Onto(block, at, byte) \in Blocks(T)
<1>1. SymDiff(block[at], byte) \in Bytes(T)
  BY XorType DEF Blocks
<1>2. QED
  BY <1>1 DEF Onto, Blocks

\* The sponge's blocks are the node's, and the last one.
LEMMA SpongeBlocks ==
    ASSUME NEW T, NEW str \in Seq(Bytes(T)), NEW suffix, Byte(suffix) \in Bytes(T)
    PROVE  /\ Sponge(str, suffix).cur = Zeros
           /\ LET q == Full(Fresh, str)
              IN  Sponge(str, suffix).past = Longer([k \in 1 .. q |-> Filled(Fresh, str, k - 1)], q, LastBlock(str, suffix))
<1> DEFINE q == Full(Fresh, str)
           at == At(Fresh, str)
           L == Len(str)
           n == (L \div Rate) + 1
           P == Padded(str, suffix, n)
           C == Closed(str, suffix, n)
           f == [k \in 1 .. q |-> Filled(Fresh, str, k - 1)]
           N == n * Rate
<1>1. L \in Nat /\ Rate \in Nat /\ Rate > 1
  BY Sizes
<1>2. Fresh.byteIOIndex = 0 /\ Fresh \in Nodes(T)
  BY FreshNode, NodeParts
<1>3. q \in Nat /\ at \in Nat /\ at < Rate /\ L = Rate * q + at
  <2>1. q \in Nat /\ at \in Nat /\ at < Rate /\ 0 + L = Rate * q + at
    BY <1>2, Position
  <2>2. QED
    BY <1>1, <2>1
<1>4. n = q + 1
  BY <1>1, <1>2 DEF Full
<1>5. /\ N \in Nat /\ N = Rate * q + Rate /\ L < N /\ n \in Nat
  <2> HIDE DEF q, at, L, n
  <2>1. (q + 1) * Rate = Rate * q + Rate /\ Rate * q \in Nat
    BY <1>1, <1>3
  <2>2. QED
    BY <1>1, <1>3, <1>4, <2>1
<1>6. /\ DOMAIN P = 1 .. N
      /\ \A x \in 1 .. N : P[x] = IF x <= L THEN str[x] ELSE IF x = L + 1 THEN Byte(suffix) ELSE {}
  <2> HIDE DEF n
  <2>1. QED
    BY <1>5, PaddedBytes, Zenon
<1>7. \A x \in 1 .. N : C[x] = IF x = N THEN SymDiff(P[x], Byte(128)) ELSE P[x]
  <2>1. C = [P EXCEPT ![N] = SymDiff(P[N], Byte(128))]
    BY Zenon DEF Closed
  <2> HIDE DEF C, P, N
  <2>2. QED
    BY <1>6, <2>1
<1>8. Sponge(str, suffix).cur = Zeros /\
      Sponge(str, suffix).past = [b \in 1 .. n |-> [i \in 0 .. Rate - 1 |-> C[(b - 1) * Rate + i + 1]]]
  <2> HIDE DEF C, n
  <2>1. Sponge(str, suffix) = [past |-> [b \in 1 .. n |-> [i \in 0 .. Rate - 1 |-> C[(b - 1) * Rate + i + 1]]], cur |-> Zeros]
    BY SpongeIs, Zenon DEF C, n
  <2>2. QED
    BY <2>1
<1> HIDE DEF q, at, n, P, C, N
<1>9. ASSUME NEW k \in 0 .. q, NEW j \in 0 .. Rate - 1
      PROVE  /\ k * Rate + j + 1 \in 1 .. N
             /\ Spot(Fresh, str, k, j) = IF k * Rate + j + 1 <= L THEN str[k * Rate + j + 1] ELSE {}
  <2> DEFINE x == k * Rate + j + 1
  <2>1. k * Rate \in Nat /\ k * Rate <= q * Rate /\ q * Rate = Rate * q
    <3>1. k = q \/ k < q
      BY <1>3
    <3>2. k < q => k * Rate + Rate <= q * Rate
      BY <1>1, <1>3, Below
    <3>3. k * Rate \in Nat /\ q * Rate = Rate * q /\ q * Rate \in Nat
      BY <1>1, <1>3
    <3>4. QED
      BY <1>1, <3>1, <3>2, <3>3
  <2>2. x \in Nat /\ x >= 1 /\ x <= N
    <3> DEFINE low == k * Rate
               high == q * Rate
    <3>1. low \in Nat /\ high \in Nat /\ low <= high /\ N = high + Rate /\ x = low + j + 1
      BY <1>1, <1>3, <1>5, <2>1
    <3> HIDE DEF low, high, x
    <3>2. QED
      BY <1>1, <3>1
  <2>3. k * Rate + j - Fresh.byteIOIndex + 1 = x
    BY <1>2, <2>1
  <2>4. (IF k = 0 THEN Fresh.cur[j] ELSE {}) = {}
    BY DEF Fresh, Zeros
  <2>5. Spot(Fresh, str, k, j) = IF x \in 1 .. L THEN SymDiff({}, str[x]) ELSE {}
    <3> HIDE DEF x
    <3>1. QED
      BY <2>3, <2>4, Zenon DEF Spot
  <2>6. x \in 1 .. L <=> x <= L
    <3> HIDE DEF x, L
    <3>1. QED
      BY <1>1, <2>2
  <2>7. Spot(Fresh, str, k, j) = IF x <= L THEN str[x] ELSE {}
    <3> HIDE DEF x, L
    <3>1. QED
      BY <2>5, <2>6, XorZero, Zenon
  <2>8. QED
    BY <1>5, <2>2, <2>7
<1>10. ASSUME NEW k \in 0 .. q - 1
       PROVE  [i \in 0 .. Rate - 1 |-> C[k * Rate + i + 1]] = Filled(Fresh, str, k)
  <2>1. ASSUME NEW j \in 0 .. Rate - 1
        PROVE  C[k * Rate + j + 1] = Spot(Fresh, str, k, j)
    <3> DEFINE x == k * Rate + j + 1
               low == k * Rate
               high == q * Rate
    <3>1. low \in Nat /\ low + Rate <= high /\ high = Rate * q /\ high \in Nat
      BY <1>1, <1>3, Below
    <3>2. x = low + j + 1
      OBVIOUS
    <3>3. x <= L /\ x < N /\ x \in Nat
      <4> HIDE DEF low, high, x, L
      <4>1. QED
        BY <1>1, <1>3, <1>5, <3>1, <3>2
    <3>4. x \in 1 .. N /\ Spot(Fresh, str, k, j) = IF x <= L THEN str[x] ELSE {}
      BY <1>3, <1>9
    <3>5. x # N
      <4> HIDE DEF x
      <4>1. QED
        BY <1>5, <3>3
    <3> HIDE DEF x, L
    <3>6. QED
      BY <1>6, <1>7, <3>3, <3>4, <3>5, Zenon DEF x
  <2>2. QED
    BY <2>1, Zenon DEF Filled
<1>11. [i \in 0 .. Rate - 1 |-> C[q * Rate + i + 1]] = LastBlock(str, suffix)
  <2> DEFINE F == Filled(Fresh, str, q)
             G == Onto(F, at, Byte(suffix))
  <2>1. F = [j \in 0 .. Rate - 1 |-> Spot(Fresh, str, q, j)]
    BY Zenon DEF Filled
  <2>2. G = [j \in 0 .. Rate - 1 |-> IF j = at THEN SymDiff(Spot(Fresh, str, q, j), Byte(suffix)) ELSE Spot(Fresh, str, q, j)]
    <3>1. \A j \in 0 .. Rate - 1 : F[j] = Spot(Fresh, str, q, j)
      BY <2>1
    <3> HIDE DEF F
    <3>2. F = [j \in 0 .. Rate - 1 |-> F[j]]
      BY <2>1
    <3>3. at \in 0 .. Rate - 1
      BY <1>1, <1>3
    <3>4. G = [j \in 0 .. Rate - 1 |-> IF j = at THEN SymDiff(F[j], Byte(suffix)) ELSE F[j]]
      BY <3>2, <3>3 DEF Onto
    <3>5. QED
      BY <3>1, <3>4, Zenon
  <2>3. LastBlock(str, suffix) = Onto(G, Rate - 1, Byte(128))
    BY Zenon DEF LastBlock, q, at
  <2>4. \A j \in 0 .. Rate - 1 : G[j] = IF j = at THEN SymDiff(Spot(Fresh, str, q, j), Byte(suffix)) ELSE Spot(Fresh, str, q, j)
    <3> HIDE DEF G
    <3>1. QED
      BY <2>2, Zenon
  <2>5. LastBlock(str, suffix) = [j \in 0 .. Rate - 1 |-> IF j = Rate - 1 THEN SymDiff(G[j], Byte(128)) ELSE G[j]]
    <3> HIDE DEF G
    <3>1. QED
      BY <1>1, <2>2, <2>3, OntoIs, SMTT(20)
  <2> HIDE DEF G, F
  <2>6. ASSUME NEW j \in 0 .. Rate - 1
        PROVE  C[q * Rate + j + 1] = IF j = Rate - 1 THEN SymDiff(G[j], Byte(128)) ELSE G[j]
    <3> DEFINE x == q * Rate + j + 1
               high == q * Rate
    <3>1. x \in 1 .. N /\ Spot(Fresh, str, q, j) = IF x <= L THEN str[x] ELSE {}
      BY <1>3, <1>9
    <3>2. high = Rate * q /\ high \in Nat /\ x = high + j + 1
      BY <1>1, <1>3
    <3> HIDE DEF x, high, L
    <3>3. (x <= L <=> j < at) /\ (x = L + 1 <=> j = at) /\ (x = N <=> j = Rate - 1)
      BY <1>1, <1>3, <1>5, <3>2
    <3>4. P[x] = G[j]
      <4>1. P[x] = IF x <= L THEN str[x] ELSE IF x = L + 1 THEN Byte(suffix) ELSE {}
        BY <1>6, <3>1, Zenon
      <4>2. ~ (j < at /\ j = at)
        BY <1>3
      <4>3. CASE j = at
        BY <2>4, <3>1, <3>3, <4>1, <4>2, <4>3, XorZero, Zenon
      <4>4. CASE j # at
        BY <2>4, <3>1, <3>3, <4>1, <4>4, Zenon
      <4>5. QED
        BY <4>3, <4>4
    <3>5. QED
      BY <1>7, <3>1, <3>3, <3>4, Zenon DEF x
  <2>7. QED
    BY <2>5, <2>6, Zenon
<1>12. Sponge(str, suffix).past = Longer(f, q, LastBlock(str, suffix))
  <2>1. ASSUME NEW b \in 1 .. q + 1
        PROVE  [i \in 0 .. Rate - 1 |-> C[(b - 1) * Rate + i + 1]] = IF b = q + 1 THEN LastBlock(str, suffix) ELSE f[b]
    <3>1. CASE b = q + 1
      <4>1. b - 1 = q
        BY <1>3, <3>1
      <4>2. QED
        BY <1>11, <3>1, <4>1, Zenon
    <3>2. CASE b # q + 1
      <4>1. b - 1 \in 0 .. q - 1 /\ b \in 1 .. q
        BY <1>3, <3>2
      <4>2. f[b] = Filled(Fresh, str, b - 1)
        BY <4>1
      <4> HIDE DEF f
      <4>3. QED
        BY <1>10, <3>2, <4>1, <4>2, Zenon
    <3>3. QED
      BY <3>1, <3>2
  <2> HIDE DEF f
  <2>2. QED
    BY <1>4, <1>8, <2>1, Zenon DEF Longer
<1>13. QED
  BY <1>8, <1>12, Zenon DEF q

\* Suffix, last rate bit and permutation make a sponge of the string.
LEMMA Closes ==
    ASSUME NEW T, NEW str \in Seq(Bytes(T)), NEW suffix, Byte(suffix) \in Bytes(T), Byte(128) \in Bytes(T),
           NEW p, NEW open, NEW b, NEW at,
           p = Absorbed(str).past, open = Absorbed(str).cur, at = Absorbed(str).byteIOIndex
    PROVE  KeccakP1600_Permute_12rounds(XorAt(XorAt(Node(p, open, b), at, Byte(suffix)), Rate - 1, Byte(128)))
             = Node(Sponge(str, suffix).past, Zeros, b)
<1> DEFINE q == Full(Fresh, str)
           f == [k \in 1 .. q |-> Filled(Fresh, str, k - 1)]
           last == LastBlock(str, suffix)
<1>1. Fresh \in Nodes(T) /\ Fresh.past = <<>>
  BY FreshNode, NodeParts
<1>2. q \in Nat /\ \A k \in Nat : Filled(Fresh, str, k) \in Blocks(T)
  BY <1>1, Position, FilledType
<1> HIDE DEF q
<1>3. f \in Seq(Blocks(T))
  BY <1>2
<1>4. Absorbed(str) = Node(<<>> \o f, Filled(Fresh, str, q), At(Fresh, str))
  BY <1>1, BytewiseIs, Zenon DEF Absorbed, q
<1>5. <<>> \o f = f
  <2> HIDE DEF f
  <2>1. QED
    BY <1>3
<1>6. p = f /\ open = Filled(Fresh, str, q) /\ at = At(Fresh, str)
  <2> HIDE DEF f
  <2>1. Absorbed(str) = Node(f, Filled(Fresh, str, q), At(Fresh, str))
    BY <1>4, <1>5
  <2>2. QED
    BY <2>1, NodeParts
<1>7. XorAt(XorAt(Node(p, open, b), at, Byte(suffix)), Rate - 1, Byte(128)) = Node(p, last, b)
  <2>1. XorAt(Node(p, open, b), at, Byte(suffix)) = Node(p, Onto(open, at, Byte(suffix)), b)
    BY XorAtParts
  <2>2. XorAt(Node(p, Onto(open, at, Byte(suffix)), b), Rate - 1, Byte(128)) = Node(p, Onto(Onto(open, at, Byte(suffix)), Rate - 1, Byte(128)), b)
    BY XorAtParts
  <2>3. QED
    BY <1>6, <2>1, <2>2, Zenon DEF LastBlock, q
<1>8. KeccakP1600_Permute_12rounds(Node(p, last, b)) = Node(Append(p, last), Zeros, b)
  <2> HIDE DEF last
  <2>1. QED
    BY NodePermuted
<1>9. Append(f, last) = Sponge(str, suffix).past
  <2>1. last \in Blocks(T)
    <3>1. At(Fresh, str) \in 0 .. Rate - 1 /\ Rate - 1 \in 0 .. Rate - 1
      BY <1>1, Position, Sizes
    <3>2. Filled(Fresh, str, q) \in Blocks(T)
      BY <1>2
    <3>3. Onto(Filled(Fresh, str, q), At(Fresh, str), Byte(suffix)) \in Blocks(T)
      BY <3>1, <3>2, OntoType
    <3>4. QED
      BY <3>1, <3>3, OntoType DEF LastBlock, q
  <2>2. f \in Rows(q, Blocks(T))
    BY <1>2 DEF Rows
  <2> HIDE DEF last, f
  <2>3. Longer(f, q, last) = Append(f, last)
    BY <1>2, <2>1, <2>2, OneMore
  <2>4. Sponge(str, suffix).past = Longer(f, q, last)
    BY SpongeBlocks, Zenon DEF f, q, last
  <2>5. QED
    BY <2>3, <2>4
<1>10. QED
  <2> HIDE DEF last, f
  <2>1. QED
    BY <1>6, <1>7, <1>8, <1>9

-----------------------------------------------------------------------------
(* Zeros, and the byte after the first chunk.                              *)

\* Zeros change nothing.
LEMMA XorRunZeros ==
    ASSUME NEW T, NEW node \in Nodes(T), NEW d, \A x \in 1 .. Len(d) : d[x] = {}, Len(d) \in Nat
    PROVE  XorRun(node, d) = node
<1> DEFINE at == node.byteIOIndex
           run == [j \in 0 .. Rate - 1 |-> IF j \in at .. at + Len(d) - 1 THEN SymDiff(node.cur[j], d[j - at + 1])
                                           ELSE node.cur[j]]
<1>1. at \in Nat /\ node.cur = [j \in 0 .. Rate - 1 |-> node.cur[j]]
  BY Sizes DEF Nodes, Blocks
<1> HIDE DEF at
<1>2. ASSUME NEW j \in 0 .. Rate - 1
      PROVE  (IF j \in at .. at + Len(d) - 1 THEN SymDiff(node.cur[j], d[j - at + 1]) ELSE node.cur[j]) = node.cur[j]
  <2>1. CASE j \in at .. at + Len(d) - 1
    <3>1. j - at + 1 \in 1 .. Len(d)
      BY <1>1, <2>1
    <3>2. d[j - at + 1] = {}
      BY <3>1
    <3>3. QED
      BY <3>2, <2>1, XorZero, Zenon
  <2>2. CASE j \notin at .. at + Len(d) - 1
    BY <2>2, Zenon
  <2>3. QED
    BY <2>1, <2>2
<1>3. run = node.cur
  BY <1>1, <1>2, Zenon
<1>4. XorRun(node, d) = [node EXCEPT !.cur = run]
  BY <1>1, Zenon DEF XorRun, at
<1> HIDE DEF run
<1>5. QED
  <2>1. [node EXCEPT !.cur = node.cur] = node
    BY DEF Nodes
  <2>2. QED
    BY <1>3, <1>4, <2>1, Zenon

\* Skipping a byte is absorbing a zero.
LEMMA SkipIsZero ==
    ASSUME NEW T, NEW str \in Seq(Bytes(T)), NEW node, node = Absorbed(str)
    PROVE  SkipByte(node) = Absorbed(Then(str, <<{}>>))
<1> DEFINE d == <<{}>>
<1>1. Fresh \in Nodes(T) /\ d \in Seq(Bytes(T)) /\ Len(d) = 1 /\ \A x \in 1 .. Len(d) : d[x] = {}
  BY FreshNode DEF Bytes
<1>2. node \in Nodes(T)
  BY <1>1, BytewiseType DEF Absorbed
<1>3. node.byteIOIndex \in Nat /\ node.byteIOIndex + Len(d) <= Rate
  BY <1>1, <1>2, Sizes DEF Nodes
<1> HIDE DEF d
<1>4. Wrap([XorRun(node, d) EXCEPT !.byteIOIndex = @ + Len(d)]) = Bytewise(Fresh, Then(str, d))
  <2>1. node = Bytewise(Fresh, str)
    BY Zenon DEF Absorbed
  <2>2. d \in Seq(Bytes(T)) /\ Fresh \in Nodes(T) /\ node.byteIOIndex + Len(d) <= Rate
    BY <1>1, <1>3
  <2>3. /\ Wrap([XorRun(node, d) EXCEPT !.byteIOIndex = @ + Len(d)]) = Bytewise(Fresh, Then(str, d))
        /\ node.byteIOIndex = 0 /\ Len(d) = Rate =>
             KeccakP1600_Permute_12rounds(XorRun(node, d)) = Bytewise(Fresh, Then(str, d))
    BY <2>1, <2>2, WrapOnto
  <2>4. QED
    BY <2>3
<1>5. XorRun(node, d) = node
  BY <1>1, <1>2, XorRunZeros
<1>6. QED
  BY <1>1, <1>4, <1>5, Zenon DEF SkipByte, Absorbed, d

\* The lane that begins with the given byte, and the same byte onto the state.
LEMMA XorOne ==
    ASSUME NEW T, NEW node \in Nodes(T), NEW e \in Bytes(T)
    PROVE  XorAt(node, node.byteIOIndex, e) = XorRun(node, <<e>>)
<1> DEFINE at == node.byteIOIndex
           block == node.cur
           run == [j \in 0 .. Rate - 1 |-> IF j \in at .. at + Len(<<e>>) - 1 THEN SymDiff(block[j], <<e>>[j - at + 1])
                                           ELSE block[j]]
<1>1. at \in 0 .. Rate - 1 /\ block = [j \in 0 .. Rate - 1 |-> block[j]] /\ Rate \in Nat
  BY Sizes DEF Nodes, Blocks
<1>2. node = Node(node.past, block, at)
  BY NodeIs
<1>3. XorRun(node, <<e>>) = [node EXCEPT !.cur = run]
  BY Zenon DEF XorRun
<1> HIDE DEF at, block
<1>4. run = [j \in 0 .. Rate - 1 |-> IF j = at THEN SymDiff(block[j], e) ELSE block[j]]
  <2>1. ASSUME NEW j \in 0 .. Rate - 1
        PROVE  /\ j \in at .. at + Len(<<e>>) - 1 <=> j = at
               /\ j = at => <<e>>[j - at + 1] = e
    BY <1>1
  <2>2. QED
    BY <2>1, Zenon
<1>5. Onto(block, at, e) = [j \in 0 .. Rate - 1 |-> IF j = at THEN SymDiff(block[j], e) ELSE block[j]]
  BY <1>1 DEF Onto
<1> HIDE DEF run
<1>6. XorAt(node, at, e) = Node(node.past, Onto(block, at, e), at)
  BY <1>2, XorAtParts
<1>7. [node EXCEPT !.cur = run] = Node(node.past, run, at)
  BY <1>2, NodeChanges
<1>8. QED
  BY <1>3, <1>4, <1>5, <1>6, <1>7, Zenon DEF at

\* Sequences one after the other.
LEMMA ThenType ==
    ASSUME NEW X, NEW f \in Seq(X), NEW g \in Seq(X)
    PROVE  Then(f, g) \in Seq(X) /\ Len(Then(f, g)) = Len(f) + Len(g)
BY DEF Then

\* Putting sequences one after the other is associative.
LEMMA ThenThen ==
    ASSUME NEW X, NEW f \in Seq(X), NEW g \in Seq(X), NEW h \in Seq(X)
    PROVE  Then(Then(f, g), h) = Then(f, Then(g, h))
BY DEF Then

\* Zeros are bytes.
LEMMA ZeroBytesType ==
    ASSUME NEW T, NEW n \in Nat
    PROVE  /\ ZeroBytes(n) \in Seq(Bytes(T)) /\ Len(ZeroBytes(n)) = n
           /\ \A x \in 1 .. n : ZeroBytes(n)[x] = {}
BY DEF ZeroBytes, Bytes

\* Where the first chunk ends, a lane of the block begins and fits.
LEMMA ChunkEnds ==
    /\ (Chunk % Rate) % Lane = 0 /\ Chunk % Rate \in Nat /\ (Chunk % Rate) + Lane < Rate
    /\ (((Chunk % Rate) + 1 + Lane - 1) \div Lane) * Lane = (Chunk % Rate) + Lane
<1> DEFINE r == Chunk % Rate
           q == Chunk \div Rate
           x == Chunk \div Lane
           y == Rate \div Lane
<1>1. Rate \in Nat /\ Chunk \in Nat /\ Lane \in Nat /\ Lane > 0 /\ Rate > 0 /\ r + Lane < Rate
  BY Sizes
<1>2. r \in Nat /\ q \in Nat /\ Chunk = Rate * q + r
  BY <1>1, DivMod
<1>3. x \in Nat /\ Chunk = Lane * x
  <2>1. Chunk % Lane = 0 /\ x \in Nat /\ Chunk = Lane * x + (Chunk % Lane)
    BY <1>1, DivMod, Sizes
  <2>2. Lane * x \in Nat
    BY <1>1, <2>1
  <2> HIDE DEF x
  <2>3. QED
    BY <2>1, <2>2
<1>4. y \in Nat /\ Rate = Lane * y
  <2>1. Rate % Lane = 0 /\ y \in Nat /\ Rate = Lane * y + (Rate % Lane)
    BY <1>1, DivMod, Sizes
  <2>2. Lane * y \in Nat
    BY <1>1, <2>1
  <2> HIDE DEF y
  <2>3. QED
    BY <2>1, <2>2
<1> HIDE DEF r, q, x, y
<1> DEFINE z == x - y * q
<1>5. r = Lane * z /\ z \in Int
  <2>1. Rate * q = Lane * (y * q) /\ y * q \in Nat
    BY <1>1, <1>2, <1>4
  <2> DEFINE w == y * q
  <2>2. Lane * (x - w) = Lane * x - Lane * w
    <3> HIDE DEF w
    <3>1. w \in Nat
      BY <2>1 DEF w
    <3>2. QED
      BY <1>1, <1>3, <3>1
  <2>3. z = x - w /\ Rate * q = Lane * w /\ w \in Nat /\ Lane * w \in Nat /\ Lane * x \in Nat
    BY <1>1, <1>3, <2>1
  <2> HIDE DEF w, z
  <2>4. QED
    BY <1>2, <1>3, <2>2, <2>3
<1> HIDE DEF z
<1>6. r % Lane = 0
  <2>1. r = Lane * z + 0
    BY <1>2, <1>5
  <2>2. QED
    BY <1>1, <1>2, <1>5, <2>1, Unique
<1>7. (r + Lane) \div Lane = z + 1 /\ (z + 1) * Lane = r + Lane
  <2>1. Lane * (z + 1) = Lane * z + Lane /\ (z + 1) * Lane = Lane * (z + 1)
    BY <1>1, <1>5
  <2>2. r + Lane = Lane * (z + 1) + 0 /\ r + Lane \in Int /\ z + 1 \in Int
    BY <1>1, <1>2, <1>5, <2>1
  <2>3. QED
    BY <1>1, <2>1, <2>2, Unique
<1>8. r + 1 + Lane - 1 = r + Lane
  BY <1>1, <1>2
<1>9. QED
  BY <1>1, <1>2, <1>6, <1>7, <1>8 DEF r

\* 0x03 and zeros to the end of its lane, absorbed.
LEMMA MarksFirst ==
    ASSUME NEW T, NEW str \in Seq(Bytes(T)), Len(str) = Chunk, Byte(3) \in Bytes(T), NEW node, node = Absorbed(str)
    PROVE  MarkFirstChunk(node) = Absorbed(Then(Then(str, <<Byte(3)>>), ZeroBytes(Lane - 1)))
<1> DEFINE mark == <<Byte(3)>>
           rest == ZeroBytes(Lane - 1)
           at == Chunk % Rate
           marked == Then(str, mark)
           m == Absorbed(marked)
           x == XorAt(node, at, Byte(3))
<1>1. Fresh \in Nodes(T) /\ Fresh.byteIOIndex = 0
  BY FreshNode, NodeParts
<1>2. at \in Nat /\ at + Lane < Rate /\ Lane \in Nat /\ Lane >= 1 /\ Rate \in Nat /\ Rate > 1
      /\ ((at + 1 + Lane - 1) \div Lane) * Lane = at + Lane
  BY ChunkEnds, Sizes
<1>3. mark \in Seq(Bytes(T)) /\ Len(mark) = 1
  OBVIOUS
<1>4. rest \in Seq(Bytes(T)) /\ Len(rest) = Lane - 1 /\ \A z \in 1 .. Len(rest) : rest[z] = {}
  <2>1. Lane - 1 \in Nat
    BY <1>2
  <2>2. QED
    BY <2>1, ZeroBytesType
<1> HIDE DEF mark, rest
<1>5. marked \in Seq(Bytes(T))
  BY <1>3, ThenType
<1> HIDE DEF marked
<1>6. node = Bytewise(Fresh, str) /\ node \in Nodes(T)
  <2>1. node = Bytewise(Fresh, str)
    BY Zenon DEF Absorbed
  <2>2. QED
    BY <1>1, <2>1, BytewiseType
<1>7. At(Fresh, str) = at /\ node.byteIOIndex = at
  <2>1. At(Fresh, str) = (0 + Len(str)) % Rate
    BY <1>1, Zenon DEF At
  <2>2. 0 + Len(str) = Chunk
    BY Sizes
  <2>3. QED
    BY <1>6, <2>1, <2>2, IndexIs
<1>8. m = Bytewise(Fresh, marked) /\ m \in Nodes(T)
  <2>1. m = Bytewise(Fresh, marked)
    BY Zenon DEF Absorbed
  <2>2. QED
    BY <1>1, <1>5, <2>1, BytewiseType
<1> HIDE DEF at, m
<1>9. m = [XorRun(node, mark) EXCEPT !.byteIOIndex = @ + Len(mark)] /\ m.byteIOIndex = at + 1
  <2>1. node.byteIOIndex + Len(mark) < Rate /\ node.byteIOIndex + Len(mark) <= Rate
        /\ At(Fresh, str) + Len(mark) < Rate
    BY <1>2, <1>3, <1>7
  <2>2. /\ node.byteIOIndex + Len(mark) < Rate =>
               Bytewise(Fresh, Then(str, mark)) = [XorRun(node, mark) EXCEPT !.byteIOIndex = @ + Len(mark)]
        /\ node.byteIOIndex + Len(mark) = Rate =>
               Bytewise(Fresh, Then(str, mark)) = [KeccakP1600_Permute_12rounds(XorRun(node, mark)) EXCEPT !.byteIOIndex = 0]
    <3>1. Fresh \in Nodes(T) /\ mark \in Seq(Bytes(T)) /\ node = Bytewise(Fresh, str) /\ node.byteIOIndex + Len(mark) <= Rate
      BY <1>1, <1>3, <1>6, <2>1
    <3>2. QED
      BY <3>1, PieceOnto
  <2>3. At(Fresh, Then(str, mark)) = At(Fresh, str) + Len(mark)
    <3>1. Fresh \in Nodes(T) /\ mark \in Seq(Bytes(T))
      BY <1>1, <1>3
    <3>2. /\ At(Fresh, str) + Len(mark) < Rate =>
                Full(Fresh, Then(str, mark)) = Full(Fresh, str) /\ At(Fresh, Then(str, mark)) = At(Fresh, str) + Len(mark)
          /\ At(Fresh, str) + Len(mark) = Rate =>
                Full(Fresh, Then(str, mark)) = Full(Fresh, str) + 1 /\ At(Fresh, Then(str, mark)) = 0
      BY <3>1, PositionOn
    <3>3. QED
      BY <2>1, <3>2
  <2>4. m.byteIOIndex = At(Fresh, Then(str, mark))
    BY <1>8, IndexIs DEF marked
  <2>5. QED
    BY <1>3, <1>7, <1>8, <2>1, <2>2, <2>3, <2>4 DEF marked
<1>10. XorAt(node, node.byteIOIndex, Byte(3)) = XorRun(node, mark)
  BY <1>6, XorOne DEF mark
<1>11. SkipByte(XorAt(node, node.byteIOIndex, Byte(3))) = m
  <2>1. m.byteIOIndex # Rate
    BY <1>2, <1>9
  <2>2. Wrap(m) = m
    BY <2>1, Zenon DEF Wrap
  <2>3. [XorRun(node, mark) EXCEPT !.byteIOIndex = @ + 1] = m
    BY <1>3, <1>9, Zenon
  <2>4. QED
    BY <1>10, <2>2, <2>3, Zenon DEF SkipByte
<1>12. MarkFirstChunk(node) = [m EXCEPT !.byteIOIndex = at + Lane]
  <2>1. MarkFirstChunk(node) = [m EXCEPT !.byteIOIndex = ((m.byteIOIndex + Lane - 1) \div Lane) * Lane]
    BY <1>11, Zenon DEF MarkFirstChunk
  <2>2. ((m.byteIOIndex + Lane - 1) \div Lane) * Lane = at + Lane
    BY <1>2, <1>9
  <2>3. QED
    BY <2>1, <2>2, Zenon
<1>13. Absorbed(Then(marked, rest)) = [m EXCEPT !.byteIOIndex = at + Lane]
  <2>1. m.byteIOIndex + Len(rest) = at + Lane /\ m.byteIOIndex + Len(rest) < Rate /\ m.byteIOIndex + Len(rest) <= Rate
    BY <1>2, <1>4, <1>9
  <2>2. /\ m.byteIOIndex + Len(rest) < Rate =>
               Bytewise(Fresh, Then(marked, rest)) = [XorRun(m, rest) EXCEPT !.byteIOIndex = @ + Len(rest)]
        /\ m.byteIOIndex + Len(rest) = Rate =>
               Bytewise(Fresh, Then(marked, rest)) = [KeccakP1600_Permute_12rounds(XorRun(m, rest)) EXCEPT !.byteIOIndex = 0]
    BY <1>1, <1>4, <1>5, <1>8, <2>1, PieceOnto
  <2>3. XorRun(m, rest) = m
    <3>1. Len(rest) \in Nat
      BY <1>2, <1>4
    <3>2. QED
      BY <1>4, <1>8, <3>1, XorRunZeros
  <2>4. [m EXCEPT !.byteIOIndex = @ + Len(rest)] = [m EXCEPT !.byteIOIndex = at + Lane]
    BY <2>1, Zenon
  <2>5. QED
    BY <2>1, <2>2, <2>3, <2>4, Zenon DEF Absorbed
<1>14. QED
  BY <1>12, <1>13, Zenon DEF marked, rest, mark

\* Absorbing from the start.
LEMMA AbsorbedNothing == Absorbed(<<>>) = Fresh
<1>1. Fresh \in Nodes({}) /\ Fresh = Node(<<>>, Zeros, 0) /\ <<>> \in Seq(Bytes({}))
  BY FreshNode
<1>2. Fresh.past = <<>> /\ Fresh.byteIOIndex = 0 /\ Rate \in Nat /\ Rate > 0
  BY <1>1, NodeParts, Sizes
<1>3. Full(Fresh, <<>>) = 0 /\ At(Fresh, <<>>) = 0
  <2>1. Fresh.byteIOIndex + Len(<<>>) = Rate * 0 + 0
    BY <1>2
  <2>2. 0 % Rate = 0 /\ 0 \div Rate = 0
    BY <1>2
  <2>3. Fresh.byteIOIndex + Len(<<>>) = 0
    BY <1>2
  <2>4. QED
    BY <2>2, <2>3 DEF Full, At
<1>4. Filled(Fresh, <<>>, 0) = Zeros
  <2>1. ASSUME NEW j \in 0 .. Rate - 1
        PROVE  Spot(Fresh, <<>>, 0, j) = {}
    <3>1. Fresh.cur[j] = {}
      BY DEF Fresh, Zeros
    <3>2. 0 * Rate + j - Fresh.byteIOIndex + 1 \notin 1 .. Len(<<>>)
      BY <1>2
    <3>3. QED
      BY <3>1, <3>2, Zenon DEF Spot
  <2>2. QED
    BY <2>1, Zenon DEF Filled, Zeros
<1>5. Absorbed(<<>>) = Node(<<>> \o [k \in 1 .. 0 |-> Filled(Fresh, <<>>, k - 1)], Zeros, 0)
  BY <1>2, <1>3, <1>4, BytewiseIs, Zenon DEF Absorbed
<1>6. <<>> \o [k \in 1 .. 0 |-> Filled(Fresh, <<>>, k - 1)] = <<>>
  OBVIOUS
<1>7. QED
  BY <1>1, <1>5, <1>6

\* Absorbing goes on where it ended.
LEMMA AbsorbedOn ==
    ASSUME NEW T, NEW str \in Seq(Bytes(T)), NEW data \in Seq(Bytes(T)), NEW node, node = Absorbed(str)
    PROVE  KangarooTwelve_F_Absorb(node, data) = Absorbed(Then(str, data))
<1>1. Fresh \in Nodes(T) /\ node = Bytewise(Fresh, str)
  BY FreshNode, Zenon DEF Absorbed
<1>2. KangarooTwelve_F_Absorb(node, data) = Bytewise(Fresh, Then(str, data))
  BY <1>1, AbsorbOnto
<1>3. QED
  BY <1>2, Zenon DEF Absorbed

\* The port's loop over a whole string, into a fresh node.
LEMMA AbsorbedAll ==
    ASSUME NEW T, NEW data \in Seq(Bytes(T))
    PROVE  KangarooTwelve_F_Absorb(Fresh, data) = Absorbed(data)
<1> DEFINE none == <<>>
<1>1. none \in Seq(Bytes(T)) /\ Then(none, data) = data /\ Fresh = Absorbed(none)
  BY AbsorbedNothing DEF Then
<1> HIDE DEF none
<1>2. KangarooTwelve_F_Absorb(Fresh, data) = Absorbed(Then(none, data))
  BY <1>1, AbsorbedOn
<1>3. QED
  BY <1>1, <1>2

\* A node of its own for the zero that ends the message.
LEMMA OneZeroIs == OneZero = Absorbed(<<{}>>)
<1> DEFINE none == <<>>
           d == <<{}>>
<1>1. none \in Seq(Bytes({})) /\ Fresh = Absorbed(none) /\ Then(none, d) = d
  BY AbsorbedNothing DEF Then
<1>2. Fresh = Node(<<>>, Zeros, 0)
  BY FreshNode
<1> HIDE DEF none, d
<1>3. SkipByte(Fresh) = Absorbed(Then(none, d))
  BY <1>1, SkipIsZero DEF d
<1>4. OneZero = Node(<<>>, Zeros, 1)
  <2>1. [Node(<<>>, Zeros, 0) EXCEPT !.byteIOIndex = 1] = Node(<<>>, Zeros, 1)
    BY NodeChanges
  <2>2. QED
    BY <1>2, <2>1, Zenon DEF OneZero
<1>5. SkipByte(Fresh) = Node(<<>>, Zeros, 1)
  <2>1. [Fresh EXCEPT !.byteIOIndex = @ + 1] = Node(<<>>, Zeros, 1)
    <3>1. Fresh.byteIOIndex + 1 = 1
      BY <1>2, NodeParts
    <3>2. [Node(<<>>, Zeros, 0) EXCEPT !.byteIOIndex = 1] = Node(<<>>, Zeros, 1)
      BY NodeChanges
    <3>3. [Fresh EXCEPT !.byteIOIndex = Fresh.byteIOIndex + 1] = Node(<<>>, Zeros, 1)
      BY <1>2, <3>1, <3>2, Zenon
    <3>4. QED
      BY <3>3
  <2>2. Wrap(Node(<<>>, Zeros, 1)) = Node(<<>>, Zeros, 1)
    <3>1. Node(<<>>, Zeros, 1).byteIOIndex # Rate
      BY NodeParts, Sizes
    <3>2. QED
      BY <3>1, Zenon DEF Wrap
  <2>3. QED
    BY <2>1, <2>2, Zenon DEF SkipByte
<1>6. QED
  BY <1>1, <1>3, <1>4, <1>5 DEF d

-----------------------------------------------------------------------------
(* The tree.                                                               *)

\* The number of the last leaf, and each part of the message.
LastOf(length) == length \div Chunk
PartOf(length, k) ==
    SubSeq(Append(Message(0, length), {}), k * Chunk + 1, IF k = LastOf(length) THEN length + 1 ELSE (k + 1) * Chunk)

\* Messages are byte strings.
LEMMA MessageType ==
    ASSUME NEW X, \A i \in Nat : {<<"m", i>>} \in X, NEW from \in Nat, NEW n \in Nat
    PROVE  /\ Message(from, n) \in Seq(X) /\ Len(Message(from, n)) = n
           /\ \A i \in 1 .. n : Message(from, n)[i] = {<<"m", from + i>>}
<1>1. \A i \in 1 .. n : from + i \in Nat
  OBVIOUS
<1>2. Message(from, n) \in [1 .. n -> X] /\ \A i \in 1 .. n : Message(from, n)[i] = {<<"m", from + i>>}
  BY <1>1, Zenon DEF Message
<1> HIDE DEF Message
<1>3. QED
  BY <1>2

\* The parts are chunks, and what is left with the zero that ends the message.
LEMMA PartIs ==
    ASSUME NEW X, {} \in X, \A i \in Nat : {<<"m", i>>} \in X, NEW length \in Nat, NEW k \in 0 .. LastOf(length)
    PROVE  /\ k * Chunk \in Nat
           /\ k # LastOf(length) => k * Chunk + Chunk <= length /\ PartOf(length, k) = Message(k * Chunk, Chunk)
           /\ k = LastOf(length) => /\ length - k * Chunk \in 0 .. Chunk - 1
                                    /\ PartOf(length, k) = Then(Message(k * Chunk, length - k * Chunk), <<{}>>)
<1> DEFINE last == LastOf(length)
           low == k * Chunk
           rest == length % Chunk
           str == Append(Message(0, length), {})
           M(f, n) == Message(f, n)
<1>1. Chunk \in Nat /\ Chunk > 0
  BY Sizes
<1>2. last \in Nat /\ rest \in Nat /\ rest < Chunk /\ length = Chunk * last + rest
  BY <1>1, DivMod DEF LastOf
<1>3. last * Chunk = Chunk * last /\ last * Chunk \in Nat /\ low \in Nat
  <2> HIDE DEF last, rest
  <2>1. QED
    BY <1>1, <1>2
<1>4. k \in Nat /\ (k = last \/ k < last) /\ (k + 1) * Chunk = low + Chunk
  <2>1. k \in 0 .. last
    OBVIOUS
  <2> HIDE DEF last
  <2>2. QED
    BY <1>1, <1>2, <2>1
<1>5. k < last => low + Chunk <= last * Chunk
  <2> HIDE DEF last
  <2>1. QED
    BY <1>1, <1>2, <1>4, Below
<1> HIDE DEF last, rest, low
<1>6. k # last => low + Chunk <= length
  BY <1>1, <1>2, <1>3, <1>4, <1>5
<1>7. k = last => length - low = rest
  BY <1>1, <1>2, <1>3 DEF low
<1>8. str \in Seq(X) /\ Len(str) = length + 1 /\ str[length + 1] = {} /\ \A i \in 1 .. length : str[i] = {<<"m", i>>}
  <2>1. Message(0, length) \in Seq(X) /\ Len(Message(0, length)) = length
        /\ \A i \in 1 .. length : Message(0, length)[i] = {<<"m", 0 + i>>}
    BY MessageType
  <2>2. \A i \in 1 .. length : 0 + i = i
    OBVIOUS
  <2>3. \A i \in 1 .. length : Message(0, length)[i] = {<<"m", i>>}
    BY <2>1, <2>2, Zenon
  <2> DEFINE m == Message(0, length)
  <2> HIDE DEF m
  <2>4. m \in Seq(X) /\ Len(m) = length
    BY <2>1 DEF m
  <2>5. Append(m, {}) \in Seq(X) /\ Len(Append(m, {})) = length + 1 /\ Append(m, {})[length + 1] = {}
        /\ \A i \in 1 .. length : Append(m, {})[i] = m[i]
    BY <2>4
  <2>6. QED
    BY <2>3, <2>5 DEF m
<1> HIDE DEF str
<1>9. ASSUME k # last
      PROVE  PartOf(length, k) = Message(low, Chunk)
  <2> DEFINE p == SubSeq(str, low + 1, low + Chunk)
             m == Message(low, Chunk)
  <2>1. PartOf(length, k) = p
    BY <1>4, <1>9, Zenon DEF PartOf, str, low, last
  <2>2. m \in Seq(X) /\ Len(m) = Chunk /\ \A i \in 1 .. Chunk : m[i] = {<<"m", low + i>>}
    BY <1>1, <1>3, MessageType
  <2>3. p \in Seq(X) /\ Len(p) = Chunk /\ \A i \in 1 .. Chunk : p[i] = str[low + i]
    BY <1>1, <1>3, <1>6, <1>8, <1>9
  <2>4. \A i \in 1 .. Chunk : low + i \in 1 .. length
    BY <1>1, <1>3, <1>6, <1>9
  <2> HIDE DEF p, m
  <2>5. \A i \in 1 .. Chunk : p[i] = m[i]
    BY <1>8, <2>2, <2>3, <2>4, Zenon
  <2>6. p = m
    BY <2>2, <2>3, <2>5
  <2>7. QED
    BY <2>1, <2>6 DEF m
<1>10. ASSUME k = last
       PROVE  PartOf(length, k) = Then(Message(low, length - low), <<{}>>)
  <2> DEFINE p == Piece(str, low, rest + 1)
             m == Message(low, rest)
             z == <<{}>>
             t == m \o z
  <2>1. PartOf(length, k) = p
    <3>1. PartOf(length, k) = SubSeq(str, low + 1, length + 1)
      BY <1>10, Zenon DEF PartOf, str, low, last
    <3>2. length + 1 = low + (rest + 1)
      BY <1>2, <1>3, <1>7, <1>10
    <3>3. QED
      BY <3>1, <3>2, Zenon DEF Piece
  <2>2. m \in Seq(X) /\ Len(m) = rest /\ \A i \in 1 .. rest : m[i] = {<<"m", low + i>>}
    BY <1>2, <1>3, MessageType
  <2>3. length = low + rest
    BY <1>2, <1>3, <1>7, <1>10
  <2>4. p \in Seq(X) /\ Len(p) = rest + 1 /\ \A i \in 1 .. rest + 1 : p[i] = str[low + i]
    <3>1. rest + 1 \in Nat /\ low + (rest + 1) <= Len(str)
      BY <1>2, <1>3, <1>8, <2>3
    <3> DEFINE n == rest + 1
    <3>2. str \in Seq(X) /\ low \in Nat /\ n \in Nat /\ low + n <= Len(str)
      BY <1>3, <1>8, <3>1
    <3> HIDE DEF n
    <3>3. /\ Piece(str, low, n) \in Seq(X) /\ Len(Piece(str, low, n)) = n
          /\ \A i \in 1 .. n : Piece(str, low, n)[i] = str[low + i]
      BY <3>2, PieceBytes
    <3>4. QED
      BY <3>3 DEF n
  <2>5. \A i \in 1 .. rest : low + i \in 1 .. length
    BY <1>2, <1>3, <2>3
  <2> HIDE DEF p, m
  <2>6. \A i \in 1 .. rest : p[i] = m[i]
    <3>1. \A i \in 1 .. rest : p[i] = str[low + i]
      BY <1>2, <2>4
    <3>2. QED
      BY <1>8, <2>2, <2>5, <3>1, Zenon
  <2>7. p[rest + 1] = {}
    <3>1. low + (rest + 1) = length + 1 /\ rest + 1 \in 1 .. rest + 1
      BY <1>2, <1>3, <2>3
    <3>2. QED
      BY <1>8, <2>4, <3>1, Zenon
  <2>8. t \in Seq(X) /\ Len(t) = rest + 1 /\ t[rest + 1] = {} /\ \A i \in 1 .. rest : t[i] = m[i]
    BY <1>2, <2>2
  <2> HIDE DEF t
  <2>9. \A i \in 1 .. rest + 1 : p[i] = t[i]
    <3>1. \A i \in 1 .. rest + 1 : i = rest + 1 \/ i \in 1 .. rest
      BY <1>2
    <3>2. QED
      BY <2>6, <2>7, <2>8, <3>1, Zenon
  <2>10. p = t
    BY <2>4, <2>8, <2>9
  <2>11. QED
    BY <1>7, <1>10, <2>1, <2>10, Zenon DEF Then, t, m
<1>11. k = last => length - low \in 0 .. Chunk - 1
  BY <1>1, <1>2, <1>7
<1>12. QED
  BY <1>3, <1>6, <1>9, <1>10, <1>11 DEF low, last

-----------------------------------------------------------------------------
(* Chaining values in a row.                                               *)

\* The first n values one after the other, byte by byte.
Joined(v, n) == [j \in 1 .. n * Cap |-> v[((j - 1) \div Cap) + 1][((j - 1) % Cap) + 1]]

\* m values, each of the capacity's length.
ValuesOf(X, m) == [1 .. m -> {e \in Seq(X) : Len(e) = Cap}]

\* Each of the bytes joined.
LEMMA JoinedByte ==
    ASSUME NEW v, NEW n \in Nat, NEW k \in 1 .. n, NEW i \in 1 .. Cap
    PROVE  (k - 1) * Cap + i \in 1 .. n * Cap /\ Joined(v, n)[(k - 1) * Cap + i] = v[k][i]
<1> DEFINE low == (k - 1) * Cap
           high == n * Cap
           j == low + i
<1>1. Cap \in Nat /\ Cap > 0
  BY Sizes
<1>2. low \in Nat /\ high \in Nat /\ low + Cap <= high
  <2>1. k - 1 \in Nat /\ k - 1 < n
    OBVIOUS
  <2>2. low \in Nat /\ high \in Nat
    BY <1>1, <2>1
  <2>3. (k - 1) * Cap + Cap <= n * Cap
    <3> DEFINE l == k - 1
    <3>1. l \in Nat /\ l < n
      BY <2>1
    <3> HIDE DEF l
    <3>2. l * Cap + Cap <= n * Cap
      BY <1>1, <3>1, Below
    <3>3. QED
      BY <3>2 DEF l
  <2>4. QED
    BY <2>2, <2>3
<1>3. low = Cap * (k - 1)
  BY <1>1
<1> HIDE DEF low, high
<1>4. j \in 1 .. high
  BY <1>1, <1>2
<1>5. (j - 1) \div Cap = k - 1 /\ (j - 1) % Cap = i - 1
  <2>1. j - 1 = Cap * (k - 1) + (i - 1) /\ j - 1 \in Int /\ k - 1 \in Int /\ i - 1 \in Int /\ 0 <= i - 1 /\ i - 1 < Cap
    BY <1>1, <1>2, <1>3
  <2>2. QED
    BY <1>1, <2>1, Unique
<1>6. Joined(v, n)[j] = v[((j - 1) \div Cap) + 1][((j - 1) % Cap) + 1]
  <2> HIDE DEF j
  <2>1. QED
    BY <1>4 DEF Joined, high
<1>7. ((j - 1) \div Cap) + 1 = k /\ ((j - 1) % Cap) + 1 = i
  BY <1>5
<1>8. QED
  BY <1>4, <1>6, <1>7 DEF low, high

\* Every byte joined is a byte of a value.
LEMMA JoinedPlace ==
    ASSUME NEW n \in Nat, NEW j \in 1 .. n * Cap
    PROVE  \E k \in 1 .. n : \E i \in 1 .. Cap : j = (k - 1) * Cap + i
<1> DEFINE q == (j - 1) \div Cap
           r == (j - 1) % Cap
           low == q * Cap
           high == n * Cap
<1>1. Cap \in Nat /\ Cap > 0 /\ high \in Nat /\ j - 1 \in Nat /\ j <= high
  BY Sizes
<1>2. q \in Nat /\ r \in Nat /\ r < Cap /\ j - 1 = Cap * q + r
  BY <1>1, DivMod
<1> HIDE DEF q, r
<1>3. low \in Nat /\ low = Cap * q
  BY <1>1, <1>2
<1>4. q < n
  <2> SUFFICES ASSUME n <= q PROVE FALSE
    BY <1>2
  <2>1. high <= low
    <3>1. n = q \/ n < q
      BY <1>2
    <3>2. n < q => n * Cap + Cap <= q * Cap
      BY <1>1, <1>2, Below
    <3> HIDE DEF low, high
    <3>3. n < q => high + Cap <= low
      BY <3>2 DEF low, high
    <3>4. n = q => high = low
      BY DEF low, high
    <3>5. QED
      BY <1>1, <1>3, <3>1, <3>3, <3>4
  <2> HIDE DEF low, high
  <2>2. QED
    BY <1>1, <1>2, <1>3, <2>1
<1>5. j = ((q + 1) - 1) * Cap + (r + 1) /\ q + 1 \in 1 .. n /\ r + 1 \in 1 .. Cap
  <2>1. (q + 1) - 1 = q
    BY <1>2
  <2>2. j = low + (r + 1)
    <3> HIDE DEF low, high
    <3>1. QED
      BY <1>1, <1>2, <1>3
  <2>3. ((q + 1) - 1) * Cap = low
    BY <2>1, Zenon
  <2> HIDE DEF low, high
  <2>4. q + 1 \in 1 .. n /\ r + 1 \in 1 .. Cap
    BY <1>1, <1>2, <1>4
  <2>5. QED
    BY <2>2, <2>3, <2>4, Zenon
<1> DEFINE k == q + 1
           i == r + 1
<1>6. k \in 1 .. n
  BY <1>5
<1>7. i \in 1 .. Cap
  BY <1>5
<1>8. j = (k - 1) * Cap + i
  BY <1>5, Zenon
<1> HIDE DEF k, i
<1>9. QED
  BY <1>6, <1>7, <1>8

\* Joined values are a byte string, and the next value comes after them.
LEMMA JoinedType ==
    ASSUME NEW X, NEW m \in Nat, NEW v \in ValuesOf(X, m), NEW n \in 0 .. m
    PROVE  Joined(v, n) \in Seq(X) /\ Len(Joined(v, n)) = n * Cap
<1> DEFINE N == n * Cap
<1>1. Cap \in Nat /\ N \in Nat
  BY Sizes
<1>2. \A k \in 1 .. m : v[k] \in Seq(X) /\ Len(v[k]) = Cap
  BY DEF ValuesOf
<1>3. ASSUME NEW j \in 1 .. N
      PROVE  Joined(v, n)[j] \in X
  <2>1. PICK k \in 1 .. n : \E i \in 1 .. Cap : j = (k - 1) * Cap + i
    BY JoinedPlace
  <2>2. PICK i \in 1 .. Cap : j = (k - 1) * Cap + i
    BY <2>1
  <2>3. Joined(v, n)[(k - 1) * Cap + i] = v[k][i]
    BY JoinedByte
  <2>4. v[k][i] \in X
    <3>1. v[k] \in Seq(X) /\ Len(v[k]) = Cap
      BY <1>2
    <3>2. QED
      BY <3>1
  <2>5. QED
    BY <2>2, <2>3, <2>4, Zenon
<1>4. Joined(v, n) \in [1 .. N -> X]
  <2>1. Joined(v, n) = [j \in 1 .. N |-> Joined(v, n)[j]]
    BY DEF Joined
  <2>2. QED
    BY <1>3, <2>1, Zenon
<1> HIDE DEF N
<1>5. QED
  BY <1>1, <1>4 DEF N

\* One value more.
LEMMA JoinedNext ==
    ASSUME NEW X, NEW m \in Nat, NEW v \in ValuesOf(X, m), NEW n \in Nat, n < m
    PROVE  Joined(v, n + 1) = Then(Joined(v, n), v[n + 1])
<1> DEFINE p == Joined(v, n)
           e == v[n + 1]
           g == Joined(v, n + 1)
           t == p \o e
           low == n * Cap
           N == (n + 1) * Cap
<1>1. Cap \in Nat /\ Cap > 0 /\ low \in Nat /\ N = low + Cap /\ N \in Nat /\ n \in 0 .. m /\ n + 1 \in 0 .. m /\ n + 1 \in 1 .. m
  BY Sizes
<1>2. e \in Seq(X) /\ Len(e) = Cap
  BY <1>1 DEF ValuesOf
<1>3. p \in Seq(X) /\ Len(p) = low
  BY <1>1, JoinedType
<1>4. g \in Seq(X) /\ Len(g) = N
  <2> DEFINE next == n + 1
  <2>1. next \in 0 .. m
    BY <1>1
  <2> HIDE DEF next
  <2>2. Joined(v, next) \in Seq(X) /\ Len(Joined(v, next)) = next * Cap
    BY <2>1, JoinedType
  <2>3. QED
    BY <2>2 DEF next
<1>5. ASSUME NEW k \in 1 .. n, NEW i \in 1 .. Cap
      PROVE  p[(k - 1) * Cap + i] = g[(k - 1) * Cap + i] /\ (k - 1) * Cap + i \in 1 .. low
  <2>1. (k - 1) * Cap + i \in 1 .. n * Cap /\ Joined(v, n)[(k - 1) * Cap + i] = v[k][i]
    BY JoinedByte
  <2>2. k \in 1 .. n + 1 /\ n + 1 \in Nat
    OBVIOUS
  <2>3. Joined(v, n + 1)[(k - 1) * Cap + i] = v[k][i]
    BY <2>2, JoinedByte, Zenon
  <2>4. QED
    BY <2>1, <2>3
<1>6. ASSUME NEW i \in 1 .. Cap
      PROVE  g[low + i] = e[i]
  <2> DEFINE next == n + 1
  <2>1. next \in 1 .. next /\ next \in Nat /\ next - 1 = n
    OBVIOUS
  <2> HIDE DEF next
  <2>2. Joined(v, next)[(next - 1) * Cap + i] = v[next][i]
    BY <2>1, JoinedByte
  <2>3. QED
    BY <2>1, <2>2 DEF next
<1> HIDE DEF p, e, g, N
<1>7. t \in Seq(X) /\ Len(t) = N /\ (\A x \in 1 .. low : t[x] = p[x]) /\ \A x \in 1 .. Cap : t[low + x] = e[x]
  <2>0. p \in Seq(X) /\ e \in Seq(X)
    BY <1>2, <1>3
  <2>1. t \in Seq(X) /\ Len(t) = Len(p) + Len(e)
    BY <2>0
  <2>2. \A x \in 1 .. Len(p) : t[x] = p[x]
    BY <2>0
  <2>3. \A x \in 1 .. Len(e) : t[Len(p) + x] = e[x]
    <3> SUFFICES ASSUME NEW x \in 1 .. Len(e) PROVE t[Len(p) + x] = e[x]
      OBVIOUS
    <3>1. /\ Len(p) \in Nat /\ Len(p) + x \in 1 .. Len(p) + Len(e) /\ Len(p) + x > Len(p)
          /\ (Len(p) + x) - Len(p) = x
      BY <2>0
    <3>2. t[Len(p) + x] = e[(Len(p) + x) - Len(p)]
      BY <2>0, <3>1
    <3>3. QED
      BY <3>1, <3>2
  <2> HIDE DEF t, low
  <2>4. QED
    BY <1>1, <1>2, <1>3, <2>1, <2>2, <2>3
<1> HIDE DEF t
<1>8. ASSUME NEW j \in 1 .. N
      PROVE  t[j] = g[j]
  <2>1. CASE j \in 1 .. low
    <3>1. PICK k \in 1 .. n : \E i \in 1 .. Cap : j = (k - 1) * Cap + i
      BY <2>1, JoinedPlace
    <3>2. PICK i \in 1 .. Cap : j = (k - 1) * Cap + i
      BY <3>1
    <3>3. p[j] = g[j]
      BY <1>5, <3>2, Zenon
    <3>4. QED
      BY <1>7, <2>1, <3>3, Zenon
  <2>2. CASE j \notin 1 .. low
    <3> HIDE DEF low
    <3>1. j - low \in 1 .. Cap /\ low + (j - low) = j
      BY <1>1, <2>2
    <3>2. QED
      BY <1>6, <1>7, <3>1
  <2>3. QED
    BY <2>1, <2>2
<1>9. t = g
  BY <1>4, <1>7, <1>8
<1>10. QED
  BY <1>9, Zenon DEF Then, t, p, e, g

\* No value at all.
LEMMA JoinedFirst ==
    ASSUME NEW v
    PROVE  Joined(v, 0) = <<>>
<1>1. 0 * Cap = 0
  BY Sizes
<1>2. Joined(v, 0) = [j \in 1 .. 0 |-> v[((j - 1) \div Cap) + 1][((j - 1) % Cap) + 1]]
  BY <1>1, Zenon DEF Joined
<1>3. QED
  BY <1>2

\* Flattening is joining.
LEMMA FlattenIs ==
    ASSUME NEW X, NEW m \in Nat, m # 0, NEW v \in ValuesOf(X, m)
    PROVE  FlattenSeq(v) = Joined(v, m)
<1> DEFINE Body(f) == [i \in 1 .. m |-> IF i = 1 THEN v[i] ELSE f[i - 1] \o v[i]]
           flat == CHOOSE f : f = Body(f)
           J == [i \in 1 .. m |-> Joined(v, i)]
<1>1. Len(v) = m
  BY DEF ValuesOf
<1>2. FlattenSeq(v) = flat[m]
  BY <1>1, Zenon DEF FlattenSeq
<1>3. Joined(v, 1) = v[1]
  <2>1. Joined(v, 0 + 1) = Then(Joined(v, 0), v[0 + 1])
    <3>1. 0 < m /\ 0 \in Nat
      OBVIOUS
    <3>2. QED
      BY <3>1, JoinedNext
  <2>2. v[1] \in Seq(X)
    BY DEF ValuesOf
  <2>3. <<>> \o v[1] = v[1]
    BY <2>2
  <2>4. 0 + 1 = 1
    OBVIOUS
  <2>5. QED
    BY <2>1, <2>3, <2>4, JoinedFirst, Zenon DEF Then
<1>4. \A i \in 2 .. m : Joined(v, i) = Joined(v, i - 1) \o v[i]
  <2> SUFFICES ASSUME NEW i \in 2 .. m PROVE Joined(v, i) = Joined(v, i - 1) \o v[i]
    OBVIOUS
  <2> DEFINE n == i - 1
  <2>1. n \in Nat /\ n < m /\ n + 1 = i
    OBVIOUS
  <2> HIDE DEF n
  <2>2. Joined(v, n + 1) = Then(Joined(v, n), v[n + 1])
    BY <2>1, JoinedNext
  <2>3. QED
    BY <2>1, <2>2 DEF n, Then
<1>5. J = Body(J)
  <2>1. ASSUME NEW i \in 1 .. m
        PROVE  Joined(v, i) = IF i = 1 THEN v[i] ELSE J[i - 1] \o v[i]
    <3>1. CASE i = 1
      BY <1>3, <3>1, Zenon
    <3>2. CASE i # 1
      <4>1. i \in 2 .. m /\ i - 1 \in 1 .. m
        BY <3>2
      <4>2. J[i - 1] = Joined(v, i - 1)
        BY <4>1
      <4> HIDE DEF J
      <4>3. QED
        BY <1>4, <3>2, <4>1, <4>2, Zenon
    <3>3. QED
      BY <3>1, <3>2
  <2>2. QED
    BY <2>1, Zenon
<1> HIDE DEF J
<1>6. flat = Body(flat)
  <2> HIDE DEF Body
  <2>1. QED
    BY <1>5
<1> HIDE DEF flat
<1> DEFINE Right == {i \in 0 .. m : i = 0 \/ flat[i] = Joined(v, i)}
<1>7. ASSUME NEW i \in 0 .. m - 1, i \in Right
      PROVE  i + 1 \in Right
  <2> DEFINE next == i + 1
  <2>1. next \in 1 .. m /\ next \in 0 .. m /\ next - 1 = i
    OBVIOUS
  <2>2. flat[next] = IF next = 1 THEN v[next] ELSE flat[i] \o v[next]
    <3>1. \A x \in 1 .. m : flat[x] = IF x = 1 THEN v[x] ELSE flat[x - 1] \o v[x]
      BY <1>6
    <3> HIDE DEF next, Body
    <3>2. QED
      BY <2>1, <3>1, Zenon
  <2>3. next = 1 <=> i = 0
    OBVIOUS
  <2>4. next # 1 => next \in 2 .. m
    OBVIOUS
  <2> HIDE DEF next
  <2>5. flat[next] = Joined(v, next)
    <3>1. CASE i = 0
      BY <1>3, <2>2, <2>3, <3>1, Zenon
    <3>2. CASE i # 0
      <4>1. flat[i] = Joined(v, i)
        BY <1>7, <3>2
      <4>2. Joined(v, next) = Joined(v, next - 1) \o v[next]
        BY <1>4, <2>3, <2>4, <3>2, Zenon
      <4>3. QED
        BY <2>1, <2>2, <2>3, <3>2, <4>1, <4>2, Zenon
    <3>3. QED
      BY <3>1, <3>2
  <2>6. QED
    BY <2>1, <2>5 DEF next
<1>8. \A i \in 0 .. m : i \in Right
  <2>1. 0 \in Right
    OBVIOUS
  <2> HIDE DEF Right
  <2>2. QED
    BY <1>7, <2>1, UpTo
<1>9. QED
  BY <1>2, <1>8

-----------------------------------------------------------------------------
(* The length encoding.                                                    *)

\* Dividing by the base brings a number down.
LEMMA Lower ==
    ASSUME NEW u \in Nat
    PROVE  u \div Base \in Nat /\ u % Base \in Nat /\ (u # 0 => u \div Base < u) /\ (u = 0 => u \div Base = 0)
<1> DEFINE q == u \div Base
           r == u % Base
<1>1. Base \in Nat /\ Base >= 2
  BY K12Assumption
<1>2. q \in Nat /\ r \in Nat /\ u = Base * q + r
  BY <1>1, DivMod
<1> HIDE DEF q, r
<1>3. Base * q >= q + q
  <2>1. Base * q = q + q + (Base - 2) * q
    BY <1>1, <1>2
  <2>2. Base - 2 \in Nat
    BY <1>1
  <2> DEFINE l == Base - 2
  <2>3. l * q \in Nat
    <3>1. l \in Nat
      BY <2>2
    <3> HIDE DEF l
    <3>2. QED
      BY <1>2, <3>1
  <2>4. Base * q = q + q + l * q
    BY <2>1, Zenon
  <2> DEFINE w == l * q
  <2> HIDE DEF l, w
  <2>5. w \in Nat /\ Base * q = q + q + w
    BY <2>3, <2>4 DEF w
  <2>6. QED
    BY <1>2, <2>5
<1> DEFINE p == Base * q
<1>4. p \in Nat /\ p >= q + q /\ u = p + r
  BY <1>1, <1>2, <1>3
<1> HIDE DEF p
<1>5. (u # 0 => q < u) /\ (u = 0 => q = 0)
  BY <1>2, <1>4
<1>6. QED
  BY <1>2, <1>5 DEF q, r

\* The least number of a set.
LEMMA Least ==
    ASSUME NEW S \in SUBSET Nat, NEW e \in S
    PROVE  \E k \in S : \A x \in S : k <= x
<1>1. PICK k \in S : \A x \in S : <<x, k>> \notin OpToRel(<, Nat)
  BY NatLessThanWellFounded, WFMin
<1>2. \A x \in S : x < k => <<x, k>> \in OpToRel(<, Nat)
  BY DEF OpToRel
<1>3. \A x \in S : ~ (x < k)
  BY <1>1, <1>2, Zenon
<1>4. \A x \in S : k <= x
  BY <1>3
<1>5. QED
  BY <1>4

\* What is left of a number after each division.
ShiftOf(v) == CHOOSE f : f = [k \in 0 .. v |-> IF k = 0 THEN v ELSE f[k - 1] \div Base]

\* It comes down to zero, and no number of it is larger than the one it starts with.
LEMMA ShiftIs ==
    ASSUME NEW v \in Nat
    PROVE  /\ ShiftOf(v) = [k \in 0 .. v |-> IF k = 0 THEN v ELSE ShiftOf(v)[k - 1] \div Base]
           /\ ShiftOf(v)[0] = v /\ \A k \in 0 .. v : ShiftOf(v)[k] \in 0 .. v
           /\ \A k \in 1 .. v : ShiftOf(v)[k] = ShiftOf(v)[k - 1] \div Base
           /\ ShiftOf(v)[v] = 0
<1> DEFINE g == [u \in Nat |-> u \div Base]
           rank == [u \in Nat |-> u]
           Body(f) == [k \in 0 .. v |-> IF k = 0 THEN v ELSE f[k - 1] \div Base]
           shift == ShiftOf(v)
<1>1. g \in [Nat -> Nat] /\ \A u \in Nat : g[u] = u \div Base
  BY Lower
<1> HIDE DEF g
<1>2. PICK f : Solves(v, Nat, v, g, f)
  BY <1>1, Recursion
<1>3. f = Body(f)
  <2>1. f \in [0 .. v -> Nat] /\ f[0] = v /\ \A k \in 1 .. v : f[k - 1] \in Nat /\ f[k] = g[f[k - 1]]
    BY <1>2 DEF Solves
  <2>2. \A k \in 1 .. v : f[k] = f[k - 1] \div Base
    BY <1>1, <2>1
  <2>3. QED
    BY <2>1, <2>2
<1>4. shift = Body(shift)
  <2>1. shift = CHOOSE h : h = Body(h)
    BY Zenon DEF ShiftOf
  <2> HIDE DEF Body
  <2>2. QED
    BY <1>3, <2>1
<1> HIDE DEF shift
<1>5. shift[0] = v /\ \A k \in 1 .. v : shift[k] = shift[k - 1] \div Base
  BY <1>4
<1> DEFINE Naturals == {k \in 0 .. v : shift[k] \in 0 .. v}
<1>6. \A k \in 0 .. v : k \in Naturals
  <2>1. 0 \in Naturals
    BY <1>5
  <2>2. ASSUME NEW k \in 0 .. v - 1, k \in Naturals
        PROVE  k + 1 \in Naturals
    <3> DEFINE next == k + 1
    <3>1. next \in 1 .. v /\ next \in 0 .. v /\ next - 1 = k
      OBVIOUS
    <3>2. shift[k] \in 0 .. v
      BY <2>2
    <3> HIDE DEF next
    <3>3. shift[next] = shift[k] \div Base
      BY <1>5, <3>1
    <3>4. shift[next] \in 0 .. v
      <4> DEFINE u == shift[k]
      <4>1. u \in Nat /\ u <= v
        BY <3>2
      <4> HIDE DEF u
      <4>2. u \div Base \in Nat /\ (u # 0 => u \div Base < u) /\ (u = 0 => u \div Base = 0)
        BY <4>1, Lower
      <4>3. QED
        BY <3>3, <4>1, <4>2 DEF u
    <3>5. QED
      BY <3>1, <3>4 DEF next
  <2> HIDE DEF Naturals
  <2>3. QED
    BY <2>1, <2>2, UpTo
<1>7. \A k \in 0 .. v : shift[k] \in 0 .. v
  BY <1>6
<1>8. shift[v] = 0
  <2>1. Nearer(Nat, g, rank)
    <3>1. \A u \in Nat : rank[u] = u /\ g[u] \in Nat
      BY <1>1
    <3>2. \A u \in Nat : (u # 0 => g[u] < u) /\ (u = 0 => g[u] = 0)
      BY <1>1, Lower
    <3>3. rank \in [Nat -> Nat]
      OBVIOUS
    <3> HIDE DEF rank
    <3>4. QED
      BY <1>1, <3>1, <3>2, <3>3 DEF Nearer
  <2>2. Follows(v, Nat, v, g, shift)
    BY <1>1, <1>5 DEF Follows
  <2>3. rank[v] <= v /\ \A u \in Nat : rank[u] = u
    OBVIOUS
  <2> HIDE DEF rank
  <2>4. shift[v] \in Nat /\ rank[shift[v]] = 0
    <3>1. v \in Nat /\ rank[v] <= v
      BY <2>3
    <3> DEFINE S == Nat
               x == v
    <3>2. x \in S /\ Nearer(S, g, rank) /\ rank[x] <= v /\ Follows(v, S, x, g, shift)
      BY <2>1, <2>2, <3>1, Zenon
    <3> HIDE DEF S, x
    <3>3. shift[v] \in S /\ rank[shift[v]] = 0
      BY <3>2, LoopEnds
    <3>4. QED
      BY <3>3 DEF S
  <2>5. QED
    BY <2>3, <2>4
<1>9. QED
  BY <1>4, <1>5, <1>7, <1>8 DEF shift

\* The digits of every number up to v.
DigitsUpTo(v, f) == [u \in 0 .. v |-> IF u = 0 THEN <<>> ELSE Append(f[u \div Base], Byte(u % Base))]
DigitsOf(v) == CHOOSE f : f = DigitsUpTo(v, f)

\* There are such digits for every number.
LEMMA DigitsSolved == \A v \in Nat : DigitsOf(v) = DigitsUpTo(v, DigitsOf(v))
<1> SUFFICES ASSUME NEW v \in Nat PROVE DigitsOf(v) = DigitsUpTo(v, DigitsOf(v))
  OBVIOUS
<1> DEFINE Solvable == {m \in 0 .. v : \E f : f = DigitsUpTo(m, f)}
<1>1. \E f : f = DigitsUpTo(0, f)
  <2> DEFINE f == [u \in 0 .. 0 |-> <<>>]
  <2>1. \A u \in 0 .. 0 : <<>> = IF u = 0 THEN <<>> ELSE Append(f[u \div Base], Byte(u % Base))
    <3> HIDE DEF f
    <3>1. \A u \in 0 .. 0 : u = 0
      OBVIOUS
    <3>2. QED
      BY <3>1, Zenon
  <2>2. f = DigitsUpTo(0, f)
    BY <2>1, Zenon DEF DigitsUpTo
  <2>3. QED
    BY <2>2
<1>2. ASSUME NEW m \in 0 .. v - 1, NEW f, f = DigitsUpTo(m, f)
      PROVE  \E h : h = DigitsUpTo(m + 1, h)
  <2> DEFINE next == m + 1
             Digit(h, u) == Append(h[u \div Base], Byte(u % Base))
             h == [u \in 0 .. next |-> IF u = next THEN Digit(f, u) ELSE f[u]]
  <2>1. next \in Nat /\ next # 0 /\ \A u \in 0 .. next : u \in Nat /\ (u = next \/ u \in 0 .. m)
    OBVIOUS
  <2>2. ASSUME NEW u \in 0 .. next, u # 0
        PROVE  h[u \div Base] = f[u \div Base]
    <3> DEFINE w == u \div Base
    <3>1. w \in Nat /\ w < u
      BY <2>1, <2>2, Lower
    <3> HIDE DEF w
    <3>2. w \in 0 .. next /\ w # next
      BY <2>1, <3>1
    <3>3. h[w] = f[w]
      BY <3>2
    <3>4. QED
      BY <3>3 DEF w
  <2>3. ASSUME NEW u \in 0 .. m
        PROVE  f[u] = IF u = 0 THEN <<>> ELSE Digit(f, u)
    <3>1. f = [x \in 0 .. m |-> IF x = 0 THEN <<>> ELSE Digit(f, x)]
      BY <1>2, Zenon DEF DigitsUpTo
    <3> HIDE DEF Digit
    <3>2. QED
      BY <3>1
  <2>4. ASSUME NEW u \in 0 .. next
        PROVE  (IF u = next THEN Digit(f, u) ELSE f[u]) = IF u = 0 THEN <<>> ELSE Digit(h, u)
    <3>1. u # 0 => Digit(h, u) = Digit(f, u)
      <4> HIDE DEF h
      <4>1. QED
        BY <2>2, Zenon
    <3> HIDE DEF h, Digit
    <3>2. CASE u = next
      <4>1. u # 0
        BY <2>1, <3>2
      <4>2. QED
        BY <3>1, <3>2, <4>1, Zenon
    <3>3. CASE u # next
      <4>1. u \in 0 .. m
        BY <2>1, <3>3, Zenon
      <4>2. QED
        BY <2>3, <3>1, <3>3, <4>1, Zenon
    <3>4. QED
      BY <3>2, <3>3
  <2>5. h = [u \in 0 .. next |-> IF u = 0 THEN <<>> ELSE Digit(h, u)]
    <3>1. h = [u \in 0 .. next |-> IF u = next THEN Digit(f, u) ELSE f[u]]
      OBVIOUS
    <3> HIDE DEF h, Digit, next
    <3>2. QED
      BY <2>4, <3>1, Zenon
  <2>6. h = DigitsUpTo(next, h)
    <3> HIDE DEF h, next
    <3>1. QED
      BY <2>5, Zenon DEF DigitsUpTo
  <2>7. QED
    BY <2>6, Zenon
<1>3. \A m \in 0 .. v : m \in Solvable
  <2>1. 0 \in Solvable /\ \A m \in 0 .. v - 1 : m \in Solvable => m + 1 \in Solvable
    <3>1. \A m \in 0 .. v - 1 : m + 1 \in 0 .. v
      OBVIOUS
    <3>2. 0 \in 0 .. v
      OBVIOUS
    <3>3. QED
      BY <1>1, <1>2, <3>1, <3>2, Zenon
  <2> HIDE DEF Solvable
  <2>2. QED
    BY <2>1, UpTo
<1>4. \E f : f = DigitsUpTo(v, f)
  <2>1. v \in 0 .. v
    OBVIOUS
  <2>2. QED
    BY <1>3, <2>1, Zenon
<1>5. QED
  BY <1>4, Zenon DEF DigitsOf

\* All bytes there are as numbers.
Encoded == {Byte(u) : u \in Nat}

\* encbuf is the encoding of the number of leaves, and the two bytes behind it.
LEMMA EncodeIs ==
    ASSUME NEW v \in Nat
    PROVE  LengthEncode(v) \in Seq(Encoded) /\ encbuf(v) = Then(LengthEncode(v), <<Byte(255), Byte(255)>>)
<1> DEFINE shift == ShiftOf(v)
           digits == DigitsOf(v)
           IsEnd(k) == shift[k] = 0 /\ \A m \in 0 .. k - 1 : shift[m] # 0
           n == CHOOSE k \in 0 .. v : IsEnd(k)
           row == [j \in 1 .. n |-> Byte(shift[n - j] % Base)]
           Upper(k) == [j \in 1 .. k |-> Byte(shift[n - j] % Base)]
<1>1. encbuf(v) = row \o <<Byte(n), Byte(255), Byte(255)>>
  BY Zenon DEF encbuf, ShiftOf
<1>2. LengthEncode(v) = Append(digits[v], Byte(Len(digits[v])))
  BY Zenon DEF LengthEncode, Digits, DigitsOf, DigitsUpTo
<1>3. /\ shift[0] = v /\ \A k \in 0 .. v : shift[k] \in 0 .. v
      /\ \A k \in 1 .. v : shift[k] = shift[k - 1] \div Base
      /\ shift[v] = 0
  BY ShiftIs
<1>4. digits[0] = <<>> /\ \A u \in 1 .. v : digits[u] = Append(digits[u \div Base], Byte(u % Base))
  <2>1. digits = DigitsUpTo(v, digits)
    BY DigitsSolved
  <2> HIDE DEF digits
  <2>2. digits = [u \in 0 .. v |-> IF u = 0 THEN <<>> ELSE Append(digits[u \div Base], Byte(u % Base))]
    BY <2>1, Zenon DEF DigitsUpTo
  <2> DEFINE Digit(u) == Append(digits[u \div Base], Byte(u % Base))
  <2>3. \A u \in 0 .. v : digits[u] = IF u = 0 THEN <<>> ELSE Digit(u)
    <3> HIDE DEF Digit
    <3>1. QED
      BY <2>2 DEF Digit
  <2>4. 0 \in 0 .. v /\ \A u \in 1 .. v : u # 0 /\ u \in 0 .. v
    OBVIOUS
  <2>5. QED
    BY <2>3, <2>4, Zenon
<1> HIDE DEF shift, digits
<1>5. n \in 0 .. v /\ shift[n] = 0 /\ \A m \in 0 .. n - 1 : shift[m] # 0
  <2> DEFINE Zs == {k \in 0 .. v : shift[k] = 0}
  <2>1. Zs \in SUBSET Nat /\ v \in Zs
    BY <1>3
  <2> HIDE DEF Zs
  <2>2. PICK k \in Zs : \A x \in Zs : k <= x
    BY <2>1, Least
  <2>3. k \in 0 .. v /\ shift[k] = 0
    BY <2>2 DEF Zs
  <2>4. ASSUME NEW m \in 0 .. k - 1
        PROVE  shift[m] # 0
    <3>1. m \in 0 .. v /\ ~ (k <= m)
      BY <2>3
    <3>2. m \notin Zs
      BY <2>2, <3>1
    <3>3. QED
      BY <3>1, <3>2 DEF Zs
  <2>5. IsEnd(k)
    BY <2>3, <2>4, Zenon
  <2> HIDE DEF IsEnd
  <2>6. n \in 0 .. v /\ IsEnd(n)
    BY <2>3, <2>5, Zenon
  <2>7. QED
    BY <2>6 DEF IsEnd
<1> HIDE DEF n
<1> DEFINE Right == {k \in 0 .. n : Upper(k) \in Rows(k, Encoded) /\ digits[shift[n - k]] = Upper(k)}
<1>6. ASSUME NEW k \in 0 .. n - 1, k \in Right
      PROVE  k + 1 \in Right
  <2> DEFINE i == n - (k + 1)
             e == Byte(shift[i] % Base)
             next == k + 1
  <2>1. i \in 0 .. n - 1 /\ i \in 0 .. v /\ i + 1 \in 1 .. v /\ i + 1 = n - k /\ n - next = i /\ (i + 1) - 1 = i
        /\ next \in 0 .. n /\ k \in Nat
    BY <1>5
  <2>2. shift[i] \in 1 .. v /\ shift[i] \in Nat
    <3>1. shift[i] \in 0 .. v /\ shift[i] # 0
      BY <1>3, <1>5, <2>1
    <3>2. QED
      BY <3>1
  <2>3. shift[n - k] = shift[i] \div Base
    <3> DEFINE after == i + 1
    <3>1. after \in 1 .. v /\ after = n - k /\ after - 1 = i
      BY <2>1
    <3> HIDE DEF after, i
    <3>2. shift[after] = shift[i] \div Base
      BY <1>3, <3>1
    <3>3. QED
      BY <3>1, <3>2
  <2>4. digits[shift[i]] = Append(Upper(k), e)
    <3>1. digits[shift[i]] = Append(digits[shift[i] \div Base], Byte(shift[i] % Base))
      BY <1>4, <2>2
    <3>2. digits[shift[n - k]] = Upper(k)
      BY <1>6
    <3>3. QED
      BY <2>3, <3>1, <3>2, Zenon
  <2>5. e \in Encoded
    <3>1. shift[i] % Base \in Nat
      BY <2>2, Lower
    <3>2. QED
      BY <3>1, Zenon DEF Encoded
  <2>6. Upper(next) = Longer(Upper(k), k, e)
    <3>1. ASSUME NEW j \in 1 .. next
          PROVE  Byte(shift[n - j] % Base) = IF j = next THEN e ELSE Upper(k)[j]
      <4>1. CASE j = next
        BY <2>1, <4>1, Zenon
      <4>2. CASE j # next
        <5>1. j \in 1 .. k
          BY <2>1, <4>2
        <5> HIDE DEF next, i, e
        <5>2. Upper(k)[j] = Byte(shift[n - j] % Base)
          BY <5>1
        <5>3. QED
          BY <4>2, <5>2, Zenon
      <4>3. QED
        BY <4>1, <4>2
    <3>2. Upper(next) = [j \in 1 .. next |-> Byte(shift[n - j] % Base)]
      OBVIOUS
    <3>3. Longer(Upper(k), k, e) = [j \in 1 .. next |-> IF j = next THEN e ELSE Upper(k)[j]]
      BY Zenon DEF Longer
    <3> HIDE DEF Upper, e, next
    <3>4. QED
      BY <3>1, <3>2, <3>3, Zenon
  <2>7. Upper(k) \in Rows(k, Encoded)
    BY <1>6
  <2> HIDE DEF e, Upper
  <2>8. Longer(Upper(k), k, e) = Append(Upper(k), e)
    BY <2>1, <2>5, <2>7, OneMore
  <2>9. Longer(Upper(k), k, e) \in Rows(next, Encoded)
    BY <2>1, <2>5, <2>7 DEF Longer, Rows
  <2>10. Upper(next) \in Rows(next, Encoded) /\ digits[shift[n - next]] = Upper(next)
    <3> HIDE DEF next, i
    <3>1. QED
      BY <2>1, <2>4, <2>6, <2>8, <2>9, Zenon
  <2>11. QED
    BY <2>1, <2>10
<1>7. \A k \in 0 .. n : k \in Right
  <2>1. 0 \in Right
    <3>1. shift[n - 0] = 0
      BY <1>5
    <3>2. Upper(0) = <<>> /\ Upper(0) \in Rows(0, Encoded)
      BY DEF Rows
    <3>3. 0 \in 0 .. n
      BY <1>5
    <3> HIDE DEF Upper
    <3>4. QED
      BY <1>4, <3>1, <3>2, <3>3
  <2>2. n \in Nat
    BY <1>5
  <2> HIDE DEF Right
  <2>3. QED
    BY <1>6, <2>1, <2>2, UpTo
<1>8. row \in Rows(n, Encoded) /\ digits[v] = row
  <2>1. n \in 0 .. n /\ n - n = 0
    BY <1>5
  <2>2. n \in Right
    BY <1>7, <2>1
  <2> HIDE DEF Upper
  <2>3. Upper(n) \in Rows(n, Encoded) /\ digits[shift[0]] = Upper(n)
    BY <2>1, <2>2
  <2>4. QED
    BY <1>3, <2>3 DEF Upper
<1>9. n \in Nat
  BY <1>5
<1> HIDE DEF row
<1>10. row \in Seq(Encoded) /\ Len(row) = n
  BY <1>8, <1>9 DEF Rows
<1>11. Byte(n) \in Encoded /\ Byte(255) \in Encoded
  <2>1. 255 \in Nat
    OBVIOUS
  <2>2. QED
    BY <1>9, <2>1, Zenon DEF Encoded
<1>12. LengthEncode(v) = Append(row, Byte(n))
  BY <1>2, <1>8, <1>10, Zenon
<1>13. row \o <<Byte(n), Byte(255), Byte(255)>> = Append(row, Byte(n)) \o <<Byte(255), Byte(255)>>
  <2> DEFINE X == Encoded
             x == Byte(n)
             y == Byte(255)
  <2>1. row \in Seq(X) /\ x \in X /\ y \in X
    BY <1>10, <1>11
  <2> HIDE DEF X, x, y
  <2>2. row \o <<x, y, y>> = Append(row, x) \o <<y, y>>
    BY <2>1
  <2>3. QED
    BY <2>2 DEF x, y
<1>14. Append(row, Byte(n)) \in Seq(Encoded)
  BY <1>10, <1>11
<1>15. QED
  BY <1>1, <1>12, <1>13, <1>14, Zenon DEF Then

-----------------------------------------------------------------------------
(* The strings of the definition.                                          *)

\* The chaining value of each leaf, and the final node after n of them.
ValueOf(length, k) == Output(Sponge(PartOf(length, k), 11), Cap)
Values(length) == [k \in 1 .. LastOf(length) |-> ValueOf(length, k)]
HeadOf(length) == Then(Then(PartOf(length, 0), <<Byte(3)>>), ZeroBytes(Lane - 1))
TreeOf(length, n) == Then(HeadOf(length), Joined(Values(length), n))

\* What the last sponge is over, and its suffix.
StringOf(length) ==
    IF LastOf(length) = 0 THEN PartOf(length, 0) ELSE Then(TreeOf(length, LastOf(length)), encbuf(LastOf(length)))
SuffixOf(length) == IF LastOf(length) = 0 THEN 7 ELSE 6

\* Every byte that occurs, and the tokens they are made of.
Letters ==
    Encoded \cup {{<<"m", i>>} : i \in Nat} \cup {ValueOf(length, k)[i] : length \in Nat, k \in Nat, i \in 1 .. Cap}
Tokens == UNION Letters

\* Every byte of a message, a length or a chaining value is a set of tokens.
LEMMA LettersAre ==
    /\ {} \in Bytes(Tokens) /\ Letters \subseteq Bytes(Tokens)
    /\ Encoded \subseteq Bytes(Tokens) /\ \A u \in Nat : Byte(u) \in Bytes(Tokens)
    /\ \A i \in Nat : {<<"m", i>>} \in Bytes(Tokens)
    /\ \A length, k \in Nat : ValueOf(length, k) \in Seq(Bytes(Tokens)) /\ Len(ValueOf(length, k)) = Cap
<1>1. {} \in Bytes(Tokens)
  BY DEF Bytes
<1>2. Letters \subseteq Bytes(Tokens)
  <2> DEFINE L == Letters
  <2> HIDE DEF L
  <2>1. L \subseteq SUBSET (UNION L)
    OBVIOUS
  <2>2. QED
    BY <2>1 DEF L, Bytes, Tokens
<1>3. Encoded \subseteq Letters /\ \A u \in Nat : Byte(u) \in Encoded
  BY DEF Letters, Encoded
<1>4. \A i \in Nat : {<<"m", i>>} \in Letters
  BY DEF Letters
<1>5. ASSUME NEW length \in Nat, NEW k \in Nat
      PROVE  ValueOf(length, k) \in Seq(Bytes(Tokens)) /\ Len(ValueOf(length, k)) = Cap
  <2>1. \A i \in 1 .. Cap : ValueOf(length, k)[i] \in Letters
    BY DEF Letters
  <2>2. ValueOf(length, k) = [i \in 1 .. Cap |-> ValueOf(length, k)[i]]
    <3> DEFINE p == Sponge(PartOf(length, k), 11).past
    <3>1. ValueOf(length, k) = [i \in 1 .. Cap |-> {<<"out", i, p>>}]
      BY Zenon DEF ValueOf, Output
    <3> HIDE DEF p
    <3>2. QED
      BY <3>1
  <2>3. ValueOf(length, k) \in [1 .. Cap -> Bytes(Tokens)]
    BY <1>2, <2>1, <2>2, Zenon
  <2>4. QED
    BY <2>3, Sizes
<1>6. QED
  BY <1>1, <1>2, <1>3, <1>4, <1>5, Zenon

\* The values of a tree.
LEMMA ValuesAre ==
    ASSUME NEW length \in Nat
    PROVE  Values(length) \in ValuesOf(Bytes(Tokens), LastOf(length)) /\ LastOf(length) \in Nat
<1>1. LastOf(length) \in Nat
  BY DivMod, Sizes DEF LastOf
<1>2. \A k \in 1 .. LastOf(length) : k \in Nat
  BY <1>1
<1>3. \A k \in 1 .. LastOf(length) :
        ValueOf(length, k) \in Seq(Bytes(Tokens)) /\ Len(ValueOf(length, k)) = Cap
  BY <1>2, LettersAre
<1>4. QED
  BY <1>1, <1>3 DEF Values, ValuesOf

\* The strings are byte strings.
LEMMA StringsAre ==
    ASSUME NEW length \in Nat
    PROVE  /\ \A k \in 0 .. LastOf(length) : PartOf(length, k) \in Seq(Bytes(Tokens))
           /\ HeadOf(length) \in Seq(Bytes(Tokens))
           /\ \A n \in 0 .. LastOf(length) : TreeOf(length, n) \in Seq(Bytes(Tokens))
           /\ StringOf(length) \in Seq(Bytes(Tokens))
           /\ encbuf(LastOf(length)) \in Seq(Bytes(Tokens))
<1> DEFINE X == Bytes(Tokens)
           last == LastOf(length)
<1>1. last \in Nat /\ Values(length) \in ValuesOf(X, last)
  BY ValuesAre
<1>2. {} \in X /\ (\A i \in Nat : {<<"m", i>>} \in X) /\ \A u \in Nat : Byte(u) \in X
  BY LettersAre
<1>3. <<{}>> \in Seq(X) /\ <<Byte(3)>> \in Seq(X) /\ <<Byte(255), Byte(255)>> \in Seq(X)
  <2>1. Byte(3) \in X /\ Byte(255) \in X
    BY <1>2
  <2> HIDE DEF X
  <2>2. QED
    BY <1>2, <2>1
<1>4. ASSUME NEW k \in 0 .. last
      PROVE  PartOf(length, k) \in Seq(X)
  <2>1. k * Chunk \in Nat
    BY <1>2, PartIs
  <2>2. CASE k # last
    <3>1. PartOf(length, k) = Message(k * Chunk, Chunk)
      BY <1>2, <2>2, PartIs
    <3>2. Message(k * Chunk, Chunk) \in Seq(X)
      BY <1>2, <2>1, MessageType, Sizes
    <3>3. QED
      BY <3>1, <3>2
  <2>3. CASE k = last
    <3> DEFINE m == Message(k * Chunk, length - k * Chunk)
    <3>1. length - k * Chunk \in 0 .. Chunk - 1 /\ PartOf(length, k) = Then(m, <<{}>>)
      BY <1>2, <2>3, PartIs
    <3>2. length - k * Chunk \in Nat
      BY <3>1, Sizes
    <3>3. m \in Seq(X)
      BY <1>2, <2>1, <3>2, MessageType
    <3> DEFINE zero == <<{}>>
    <3>4. zero \in Seq(X)
      BY <1>3
    <3> HIDE DEF m, zero, X
    <3>5. Then(m, zero) \in Seq(X)
      BY <3>3, <3>4, ThenType
    <3>6. QED
      BY <3>1, <3>5 DEF zero
  <2>4. QED
    BY <2>2, <2>3
<1>5. HeadOf(length) \in Seq(X)
  <2>1. PartOf(length, 0) \in Seq(X)
    BY <1>1, <1>4
  <2>2. Lane - 1 \in Nat
    BY Sizes
  <2>3. ZeroBytes(Lane - 1) \in Seq(X)
    BY <2>2, ZeroBytesType
  <2> HIDE DEF X
  <2>4. Then(PartOf(length, 0), <<Byte(3)>>) \in Seq(X)
    BY <1>3, <2>1, ThenType
  <2>5. QED
    BY <2>3, <2>4, ThenType DEF HeadOf
<1>6. ASSUME NEW n \in 0 .. last
      PROVE  TreeOf(length, n) \in Seq(X)
  <2> HIDE DEF X
  <2>1. Joined(Values(length), n) \in Seq(X)
    BY <1>1, JoinedType
  <2>2. QED
    BY <1>5, <2>1, ThenType DEF TreeOf
<1>7. encbuf(last) \in Seq(X)
  <2>1. LengthEncode(last) \in Seq(Encoded) /\ encbuf(last) = Then(LengthEncode(last), <<Byte(255), Byte(255)>>)
    BY <1>1, EncodeIs
  <2>2. Encoded \subseteq X
    BY LettersAre
  <2> HIDE DEF X
  <2>3. LengthEncode(last) \in Seq(X)
    BY <2>1, <2>2
  <2> DEFINE code == LengthEncode(last)
             close == <<Byte(255), Byte(255)>>
  <2>4. code \in Seq(X) /\ close \in Seq(X)
    BY <1>3, <2>3
  <2> HIDE DEF code, close
  <2>5. Then(code, close) \in Seq(X)
    BY <2>4, ThenType
  <2>6. QED
    BY <2>1, <2>5 DEF code, close
<1>8. StringOf(length) \in Seq(X)
  <2> HIDE DEF X
  <2>1. 0 \in 0 .. last /\ last \in 0 .. last
    BY <1>1
  <2>2. PartOf(length, 0) \in Seq(X) /\ TreeOf(length, last) \in Seq(X)
    BY <1>4, <1>6, <2>1
  <2>3. Then(TreeOf(length, last), encbuf(last)) \in Seq(X)
    BY <1>7, <2>2, ThenType
  <2>4. QED
    BY <2>2, <2>3 DEF StringOf
<1>9. QED
  BY <1>4, <1>5, <1>6, <1>7, <1>8

\* The definition is one sponge over that string.
LEMMA ReferenceIs ==
    ASSUME NEW length \in Nat
    PROVE  Reference(length) = Sponge(StringOf(length), SuffixOf(length))
<1> DEFINE X == Bytes(Tokens)
           last == LastOf(length)
           str == Append(Message(0, length), {})
           end == Len(str)
           Part(k) == SubSeq(str, k * Chunk + 1, IF k = last THEN end ELSE (k + 1) * Chunk)
<1>1. {} \in X /\ \A i \in Nat : {<<"m", i>>} \in X
  BY LettersAre
<1>2. str \in Seq(X) /\ end = length + 1 /\ end - 1 = length
  <2> DEFINE m == Message(0, length)
  <2>1. m \in Seq(X) /\ Len(m) = length
    BY <1>1, MessageType
  <2> HIDE DEF m
  <2>2. Append(m, {}) \in Seq(X) /\ Len(Append(m, {})) = length + 1
    BY <1>1, <2>1
  <2>3. QED
    BY <2>2 DEF m
<1>3. last \in Nat /\ Values(length) \in ValuesOf(X, last)
  BY ValuesAre
<1> DEFINE parts == [k \in 1 .. last |-> Output(Sponge(Part(k), 11), Cap)]
<1>4. (end - 1) \div Chunk = last
  <2>1. length \div Chunk = last
    BY DEF LastOf
  <2>2. QED
    BY <1>2, <2>1, Zenon
<1>5. \A k : Part(k) = PartOf(length, k)
  <2> SUFFICES ASSUME NEW k PROVE Part(k) = PartOf(length, k)
    OBVIOUS
  <2>1. PartOf(length, k) = SubSeq(str, k * Chunk + 1, IF k = last THEN length + 1 ELSE (k + 1) * Chunk)
    BY Zenon DEF PartOf
  <2>2. QED
    BY <1>2, <2>1, Zenon
<1>6. Reference(length) =
        IF last = 0 THEN Sponge(str, 7)
        ELSE Sponge(Part(0) \o <<Byte(3)>> \o ZeroBytes(Lane - 1) \o FlattenSeq(parts)
                      \o LengthEncode(last) \o <<Byte(255), Byte(255)>>, 6)
  BY <1>4, ZenonT(40) DEF Reference
<1>7. parts = Values(length)
  BY <1>5, Zenon DEF Values, ValueOf
<1>8. CASE last = 0
  <2>1. PartOf(length, 0) = str
    <3>1. str = SubSeq(str, 1, end)
      <4> HIDE DEF str
      <4>1. QED
        BY <1>2
    <3>2. PartOf(length, 0) = SubSeq(str, 0 * Chunk + 1, length + 1)
      BY <1>8, Zenon DEF PartOf
    <3>3. 0 * Chunk + 1 = 1
      BY Sizes
    <3>4. QED
      BY <1>2, <3>1, <3>2, <3>3, Zenon
  <2>2. QED
    BY <1>6, <1>8, <2>1, Zenon DEF StringOf, SuffixOf
<1>9. CASE last # 0
  <2> DEFINE J == Joined(Values(length), last)
             code == LengthEncode(last)
             close == <<Byte(255), Byte(255)>>
             whole == TreeOf(length, last)
  <2>1. FlattenSeq(parts) = J
    <3>1. FlattenSeq(Values(length)) = J
      BY <1>3, <1>9, FlattenIs
    <3>2. QED
      BY <1>7, <3>1, Zenon
  <2>2. Reference(length) = Sponge(((((PartOf(length, 0) \o <<Byte(3)>>) \o ZeroBytes(Lane - 1)) \o J) \o code) \o close, 6)
    BY <1>5, <1>6, <1>9, <2>1, Zenon
  <2>3. Reference(length) = Sponge(Then(Then(whole, code), close), 6)
    BY <2>2, Zenon DEF Then, TreeOf, HeadOf
  <2>4. code \in Seq(X) /\ close \in Seq(X) /\ encbuf(last) = Then(code, close) /\ whole \in Seq(X)
    <3>1. code \in Seq(Encoded) /\ encbuf(last) = Then(code, close)
      BY <1>3, EncodeIs
    <3>2. Encoded \subseteq X /\ Byte(255) \in X
      BY LettersAre
    <3>3. last \in 0 .. last
      BY <1>3
    <3>4. whole \in Seq(X)
      BY <3>3, StringsAre
    <3> HIDE DEF X, code
    <3>5. code \in Seq(X) /\ close \in Seq(X)
      BY <3>1, <3>2
    <3>6. QED
      BY <3>1, <3>4, <3>5
  <2> HIDE DEF X, code, close, whole
  <2>5. Then(Then(whole, code), close) = Then(whole, Then(code, close))
    BY <2>4, ThenThen
  <2>6. StringOf(length) = Then(whole, encbuf(last)) /\ SuffixOf(length) = 6
    BY <1>9, Zenon DEF StringOf, SuffixOf, whole
  <2>7. QED
    BY <2>3, <2>4, <2>5, <2>6, Zenon
<1>10. QED
  BY <1>8, <1>9

-----------------------------------------------------------------------------
(* The steps of the call.                                                  *)

\* A sealed leaf gives the value of its part.
LEMMA SealsLeaf ==
    ASSUME NEW length \in Nat, NEW k \in 0 .. LastOf(length), NEW node, node = Absorbed(PartOf(length, k))
    PROVE  Output(Seal(node, 11), Cap) = ValueOf(length, k)
<1> DEFINE str == PartOf(length, k)
           p == node.past
           cur == node.cur
           at == node.byteIOIndex
           leaf == Seal(node, 11)
<1>1. str \in Seq(Bytes(Tokens)) /\ Byte(11) \in Bytes(Tokens) /\ Byte(128) \in Bytes(Tokens)
  <2>1. 11 \in Nat /\ 128 \in Nat
    OBVIOUS
  <2>2. QED
    BY <2>1, StringsAre, LettersAre
<1>2. node = Node(p, cur, at)
  <2>1. Fresh \in Nodes(Tokens)
    BY FreshNode
  <2>2. node \in Nodes(Tokens)
    BY <1>1, <2>1, BytewiseType DEF Absorbed
  <2>3. QED
    BY <2>2, NodeIs
<1>3. leaf = KeccakP1600_Permute_12rounds(XorAt(XorAt(node, at, Byte(11)), Rate - 1, Byte(128)))
  BY Zenon DEF Seal
<1> HIDE DEF str
<1>4. p = Absorbed(str).past /\ cur = Absorbed(str).cur /\ at = Absorbed(str).byteIOIndex
  BY Zenon DEF str
<1> HIDE DEF p, cur, at
<1>5. KeccakP1600_Permute_12rounds(XorAt(XorAt(Node(p, cur, at), at, Byte(11)), Rate - 1, Byte(128)))
        = Node(Sponge(str, 11).past, Zeros, at)
  BY <1>1, <1>4, Closes
<1>6. leaf.past = Sponge(str, 11).past
  <2>1. leaf = Node(Sponge(str, 11).past, Zeros, at)
    BY <1>2, <1>3, <1>5, Zenon
  <2> HIDE DEF leaf
  <2>2. QED
    BY <2>1, NodeParts
<1>7. QED
  BY <1>6, Zenon DEF Output, ValueOf, str

\* Its value goes on in the final node.
LEMMA LeafInto ==
    ASSUME NEW length \in Nat, NEW k \in 0 .. LastOf(length), k # 0,
           NEW node, node = Absorbed(PartOf(length, k)),
           NEW tree, tree = Absorbed(TreeOf(length, k - 1))
    PROVE  AbsorbLeaf(tree, Seal(node, 11)) = Absorbed(TreeOf(length, k))
<1> DEFINE X == Bytes(Tokens)
           n == k - 1
           before == TreeOf(length, n)
           value == ValueOf(length, k)
           head == HeadOf(length)
           J == Joined(Values(length), n)
<1>1. n \in Nat /\ n < LastOf(length) /\ n + 1 = k /\ n \in 0 .. LastOf(length) /\ k \in 1 .. LastOf(length) /\ k \in Nat
      /\ LastOf(length) \in Nat
  <2>1. LastOf(length) \in Nat
    BY ValuesAre
  <2>2. QED
    BY <2>1
<1>2. value \in Seq(X) /\ before \in Seq(X) /\ head \in Seq(X)
  BY <1>1, StringsAre, LettersAre
<1>3. J \in Seq(X)
  BY <1>1, ValuesAre, JoinedType
<1>4. TreeOf(length, k) = Then(before, value)
  <2>1. Joined(Values(length), k) = Then(J, value)
    <3>1. Joined(Values(length), n + 1) = Then(Joined(Values(length), n), Values(length)[n + 1])
      <4> DEFINE v == Values(length)
      <4>1. v \in ValuesOf(X, LastOf(length))
        BY ValuesAre
      <4> HIDE DEF v, n
      <4>2. Joined(v, n + 1) = Then(Joined(v, n), v[n + 1])
        BY <1>1, <4>1, JoinedNext
      <4>3. QED
        BY <4>2 DEF v
    <3>2. Values(length)[k] = value
      BY <1>1 DEF Values
    <3> HIDE DEF n, value
    <3>3. QED
      BY <1>1, <3>1, <3>2, Zenon
  <2> HIDE DEF X, value, head, J, n
  <2>2. Then(Then(head, J), value) = Then(head, Then(J, value))
    BY <1>2, <1>3, ThenThen
  <2>3. QED
    BY <2>1, <2>2, Zenon DEF TreeOf, head, J
<1>5. Output(Seal(node, 11), Cap) = value
  BY SealsLeaf
<1> HIDE DEF X, value, before
<1>7. KangarooTwelve_F_Absorb(tree, value) = Absorbed(Then(before, value))
  <2>1. tree = Absorbed(before)
    BY DEF before
  <2>2. QED
    BY <1>2, <2>1, AbsorbedOn DEF X
<1>8. QED
  BY <1>4, <1>5, <1>7, Zenon DEF AbsorbLeaf

\* Where a chunk begins within a message.
LEMMA ChunksFit ==
    ASSUME NEW length \in Nat, NEW k \in Nat, k * Chunk <= length
    PROVE  /\ k \in 0 .. LastOf(length) /\ k * Chunk \in Nat /\ (k + 1) * Chunk = k * Chunk + Chunk
           /\ length - k * Chunk < Chunk <=> k = LastOf(length)
           /\ length - k * Chunk >= Chunk => k + 1 \in 0 .. LastOf(length)
<1> DEFINE low == k * Chunk
           last == LastOf(length)
           rest == length % Chunk
           high == last * Chunk
<1>1. Chunk \in Nat /\ Chunk > 0
  BY Sizes
<1>2. last \in Nat /\ rest \in Nat /\ rest < Chunk /\ length = Chunk * last + rest
  BY <1>1, DivMod DEF LastOf
<1> HIDE DEF last, rest
<1>3. low \in Nat /\ high \in Nat /\ high = Chunk * last /\ (k + 1) * Chunk = low + Chunk
  BY <1>1, <1>2
<1>4. k < last => low + Chunk <= high
  BY <1>1, <1>2, Below
<1>5. last < k => high + Chunk <= low
  BY <1>1, <1>2, Below
<1>6. k = last => low = high
  OBVIOUS
<1>7. low <= length /\ length = high + rest
  BY <1>2, <1>3
<1> HIDE DEF low, high
<1>8. k <= last
  BY <1>1, <1>2, <1>3, <1>5, <1>7
<1>9. length - low < Chunk <=> k = last
  BY <1>1, <1>2, <1>3, <1>4, <1>6, <1>7, <1>8
<1>10. QED
  <2>1. length - low >= Chunk => k + 1 \in 0 .. last
    BY <1>1, <1>2, <1>3, <1>7, <1>8, <1>9
  <2>2. k \in 0 .. last
    BY <1>2, <1>8
  <2>3. QED
    BY <1>3, <1>9, <2>1, <2>2 DEF low, last

\* The first chunk and its mark.
LEMMA HeadInto ==
    ASSUME NEW length \in Nat, length >= Chunk
    PROVE  /\ MarkFirstChunk(KangarooTwelve_F_Absorb(Fresh, Message(0, Chunk))) = Absorbed(TreeOf(length, 0))
           /\ LastOf(length) # 0 /\ LastOf(length) \in Nat
<1> DEFINE X == Bytes(Tokens)
           m == Message(0, Chunk)
<1>1. 0 * Chunk = 0 /\ Chunk \in Nat /\ Chunk > 0 /\ 0 * Chunk <= length
  BY Sizes
<1>2. 0 \in 0 .. LastOf(length) /\ 0 # LastOf(length) /\ LastOf(length) \in Nat
  <2>1. ~ (length - 0 * Chunk < Chunk)
    BY <1>1
  <2>2. 0 \in 0 .. LastOf(length) /\ (length - 0 * Chunk < Chunk <=> 0 = LastOf(length))
    BY <1>1, ChunksFit
  <2>3. QED
    BY <2>1, <2>2, ValuesAre
<1>3. PartOf(length, 0) = m
  <2>1. {} \in X /\ \A i \in Nat : {<<"m", i>>} \in X
    BY LettersAre
  <2>2. PartOf(length, 0) = Message(0 * Chunk, Chunk)
    BY <1>2, <2>1, PartIs
  <2>3. QED
    BY <1>1, <2>2, Zenon
<1>4. m \in Seq(X) /\ Len(m) = Chunk /\ Byte(3) \in X
  <2>1. (\A i \in Nat : {<<"m", i>>} \in X) /\ Byte(3) \in X
    BY LettersAre
  <2>2. QED
    BY <1>1, <2>1, MessageType
<1> HIDE DEF m
<1>5. KangarooTwelve_F_Absorb(Fresh, m) = Absorbed(m)
  BY <1>4, AbsorbedAll
<1>6. MarkFirstChunk(Absorbed(m)) = Absorbed(Then(Then(m, <<Byte(3)>>), ZeroBytes(Lane - 1)))
  BY <1>4, MarksFirst
<1>7. TreeOf(length, 0) = HeadOf(length)
  <2>1. HeadOf(length) \in Seq(X)
    BY StringsAre
  <2> DEFINE h == HeadOf(length)
  <2> HIDE DEF h, X
  <2>2. h \o <<>> = h
    BY <2>1 DEF h
  <2>3. QED
    BY <2>2, JoinedFirst, Zenon DEF TreeOf, Then, h
<1>8. QED
  BY <1>2, <1>3, <1>5, <1>6, <1>7, Zenon DEF HeadOf, m

\* A node that str went into, with the suffix on it already.
Ends(node, str, suffix) ==
    \E at : node = XorAt(Node(Absorbed(str).past, Absorbed(str).cur, at), Absorbed(str).byteIOIndex, Byte(suffix))

\* The suffix goes where the open byte of the node is.
LEMMA EndsIn ==
    ASSUME NEW T, NEW str \in Seq(Bytes(T)), NEW suffix, NEW node, node = Absorbed(str)
    PROVE  Ends(XorAt(node, node.byteIOIndex, Byte(suffix)), str, suffix)
<1>1. Fresh \in Nodes(T)
  BY FreshNode
<1>2. node \in Nodes(T)
  BY <1>1, BytewiseType DEF Absorbed
<1>3. node = Node(node.past, node.cur, node.byteIOIndex)
  BY <1>2, NodeIs
<1>4. QED
  BY <1>3, Zenon DEF Ends

\* The last rate bit and the permutation make the sponge.
LEMMA FinishIs ==
    ASSUME NEW str \in Seq(Bytes(Tokens)), NEW suffix \in Nat, NEW node, Ends(node, str, suffix),
           NEW done, done = KeccakP1600_Permute_12rounds(XorAt(node, Rate - 1, Byte(128)))
    PROVE  [past |-> done.past, cur |-> done.cur] = Sponge(str, suffix)
<1> DEFINE p == Absorbed(str).past
           cur == Absorbed(str).cur
           x == Absorbed(str).byteIOIndex
<1>1. PICK at : node = XorAt(Node(p, cur, at), x, Byte(suffix))
  BY DEF Ends
<1>2. Byte(suffix) \in Bytes(Tokens) /\ Byte(128) \in Bytes(Tokens)
  <2>1. 128 \in Nat
    OBVIOUS
  <2>2. QED
    BY <2>1, LettersAre
<1> HIDE DEF p, cur, x
<1>3. KeccakP1600_Permute_12rounds(XorAt(XorAt(Node(p, cur, at), x, Byte(suffix)), Rate - 1, Byte(128)))
        = Node(Sponge(str, suffix).past, Zeros, at)
  BY <1>2, Closes DEF p, cur, x
<1>4. done = Node(Sponge(str, suffix).past, Zeros, at)
  BY <1>1, <1>3, Zenon
<1>5. done.past = Sponge(str, suffix).past /\ done.cur = Zeros
  BY <1>4, NodeParts
<1>6. Sponge(str, suffix) = [past |-> Sponge(str, suffix).past, cur |-> Zeros]
  <2> DEFINE n == Len(str) \div Rate + 1
             blocks == [b \in 1 .. n |-> [i \in 0 .. Rate - 1 |-> Closed(str, suffix, n)[(b - 1) * Rate + i + 1]]]
  <2>1. Sponge(str, suffix) = [past |-> blocks, cur |-> Zeros]
    BY SpongeIs
  <2> HIDE DEF n, blocks
  <2>2. Sponge(str, suffix).past = blocks
    BY <2>1
  <2>3. QED
    BY <2>1, <2>2
<1>7. QED
  BY <1>5, <1>6, Zenon

\* A message shorter than a chunk ends where the byte after it goes.
ShortNode(length) == [KangarooTwelve_F_Absorb(Fresh, Message(0, length)) EXCEPT !.byteIOIndex = @ + 1]
ShortEnd(node) ==
    IF node.byteIOIndex = Rate THEN XorAt(KeccakP1600_Permute_12rounds(node), 0, Byte(7))
    ELSE XorAt(node, node.byteIOIndex, Byte(7))

\* Its byte and suffix end the string of the definition.
LEMMA ShortEnds ==
    ASSUME NEW length \in Nat, length < Chunk
    PROVE  Ends(ShortEnd(ShortNode(length)), StringOf(length), SuffixOf(length))
<1> DEFINE node == ShortNode(length)
           end == ShortEnd(node)
           X == Bytes(Tokens)
           m == Message(0, length)
           zero == <<{}>>
           str == Then(m, zero)
           first == Absorbed(m)
           p == first.past
           cur == first.cur
           at == first.byteIOIndex
<1>1. {} \in X /\ \A i \in Nat : {<<"m", i>>} \in X
  BY LettersAre
<1>2. m \in Seq(X) /\ zero \in Seq(X) /\ str \in Seq(X)
  <2>1. m \in Seq(X) /\ zero \in Seq(X)
    BY <1>1, MessageType
  <2> HIDE DEF m, zero, X
  <2>2. QED
    BY <2>1, ThenType
<1>0. /\ node = [KangarooTwelve_F_Absorb(Fresh, m) EXCEPT !.byteIOIndex = @ + 1]
      /\ end = IF node.byteIOIndex = Rate THEN XorAt(KeccakP1600_Permute_12rounds(node), 0, Byte(7))
               ELSE XorAt(node, node.byteIOIndex, Byte(7))
  <2>1. node = [KangarooTwelve_F_Absorb(Fresh, m) EXCEPT !.byteIOIndex = @ + 1]
    BY DEF ShortNode
  <2> HIDE DEF node
  <2>2. QED
    BY <2>1, Zenon DEF ShortEnd
<1>3. StringOf(length) = str /\ SuffixOf(length) = 7
  <2>1. 0 * Chunk = 0 /\ 0 * Chunk <= length /\ length - 0 * Chunk < Chunk /\ length - 0 * Chunk = length
    BY Sizes
  <2>2. 0 \in 0 .. LastOf(length) /\ 0 = LastOf(length)
    BY <2>1, ChunksFit
  <2>3. PartOf(length, 0) = Then(Message(0 * Chunk, length - 0 * Chunk), <<{}>>)
    BY <1>1, <2>2, PartIs
  <2>4. QED
    BY <2>1, <2>2, <2>3, Zenon DEF StringOf, SuffixOf
<1>4. KangarooTwelve_F_Absorb(Fresh, m) = first
  BY <1>2, AbsorbedAll
<1>5. Fresh \in Nodes(Tokens)
  BY FreshNode
<1>6. first \in Nodes(Tokens)
  BY <1>2, <1>5, BytewiseType DEF Absorbed
<1>7. first = Node(p, cur, at) /\ at \in Nat
  BY <1>6, NodeIs, Sizes DEF Nodes
<1>8. SkipByte(first) = Absorbed(str)
  BY <1>2, SkipIsZero
<1> HIDE DEF m, zero, first, str, p, cur, at, node, end
<1>9. node = Node(p, cur, at + 1)
  <2>1. node = [first EXCEPT !.byteIOIndex = first.byteIOIndex + 1]
    BY <1>0, <1>4, Zenon
  <2>2. first.byteIOIndex = at
    BY DEF at
  <2>3. [Node(p, cur, at) EXCEPT !.byteIOIndex = at + 1] = Node(p, cur, at + 1)
    BY NodeChanges
  <2>4. QED
    BY <1>7, <2>1, <2>2, <2>3, Zenon
<1>10. Wrap(node) = Absorbed(str)
  <2>1. SkipByte(first) = Wrap([first EXCEPT !.byteIOIndex = first.byteIOIndex + 1])
    BY Zenon DEF SkipByte
  <2>2. node = [first EXCEPT !.byteIOIndex = first.byteIOIndex + 1]
    BY <1>0, <1>4, Zenon
  <2>3. QED
    BY <1>8, <2>1, <2>2, Zenon
<1>11. node.byteIOIndex = at + 1
  <2> DEFINE next == at + 1
  <2> HIDE DEF next
  <2>1. Node(p, cur, next).byteIOIndex = next
    BY NodeParts
  <2>2. node = Node(p, cur, next)
    BY <1>9 DEF next
  <2>3. node.byteIOIndex = next
    BY <2>1, <2>2
  <2>4. QED
    BY <2>3 DEF next
<1>12. CASE at + 1 = Rate
  <2>1. KeccakP1600_Permute_12rounds(node) = Node(Append(p, cur), Zeros, at + 1)
    BY <1>9, NodePermuted
  <2>2. Absorbed(str) = [KeccakP1600_Permute_12rounds(node) EXCEPT !.byteIOIndex = 0]
    BY <1>10, <1>11, <1>12, Zenon DEF Wrap
  <2>3. Absorbed(str) = Node(Append(p, cur), Zeros, 0)
    BY <2>1, <2>2, NodeChanges
  <2>4. Absorbed(str).past = Append(p, cur) /\ Absorbed(str).cur = Zeros /\ Absorbed(str).byteIOIndex = 0
    <3> DEFINE past == Append(p, cur)
               n == Absorbed(str)
               none == 0
    <3> HIDE DEF past, n, none
    <3>1. n = Node(past, Zeros, none)
      BY <2>3 DEF past, n, none
    <3>2. n.past = past /\ n.cur = Zeros /\ n.byteIOIndex = none
      BY <3>1, NodeParts
    <3>3. QED
      BY <3>2 DEF past, n, none
  <2>5. end = XorAt(Node(Append(p, cur), Zeros, at + 1), 0, Byte(7))
    BY <1>0, <1>11, <1>12, <2>1, Zenon
  <2>6. Ends(end, str, 7)
    BY <2>4, <2>5, Zenon DEF Ends
  <2>7. QED
    BY <1>3, <2>6, Zenon DEF end, node
<1>13. CASE at + 1 # Rate
  <2>1. Absorbed(str) = node
    BY <1>10, <1>11, <1>13, Zenon DEF Wrap
  <2>2. end = XorAt(node, node.byteIOIndex, Byte(7))
    BY <1>0, <1>11, <1>13, Zenon
  <2>3. Ends(XorAt(node, node.byteIOIndex, Byte(7)), str, 7)
    BY <1>2, <2>1, EndsIn
  <2>4. Ends(end, StringOf(length), SuffixOf(length))
    BY <1>3, <2>2, <2>3, Zenon
  <2>5. QED
    BY <2>4 DEF end, node
<1>14. QED
  BY <1>12, <1>13 DEF end, node

-----------------------------------------------------------------------------
(* The invariant of the call.                                              *)

\* Between two leaves: all whole ones are in the final node; the open one, if
\* there is one, is what is left of the message.
InLeaves ==
    /\ total > Chunk /\ queueAbsorbedLen \in Nat
    /\ blockNumber \in 1 .. LastOf(total)
    /\ final = Absorbed(TreeOf(total, blockNumber - 1))
    /\ \/ queueAbsorbedLen = 0 /\ pos = blockNumber * Chunk /\ pos <= total
       \/ /\ queueAbsorbedLen # 0 /\ pos = total /\ blockNumber = LastOf(total)
          /\ queueAbsorbedLen = total - blockNumber * Chunk
          /\ queue = Absorbed(Message(blockNumber * Chunk, queueAbsorbedLen))

\* Before the tree is closed the last leaf is open, or in the final node.
AtClose ==
    /\ total >= Chunk
    /\ \/ /\ queueAbsorbedLen # 0 /\ blockNumber = LastOf(total)
          /\ final = Absorbed(TreeOf(total, LastOf(total) - 1))
          /\ queue = Absorbed(PartOf(total, LastOf(total)))
       \/ /\ queueAbsorbedLen = 0 /\ blockNumber = LastOf(total) + 1
          /\ final = Absorbed(TreeOf(total, LastOf(total)))

\* The inductive invariant.
HashInv ==
    /\ total \in Nat
    /\ pc \in {"first", "leaves", "close", "finish", "done"}
    /\ pc = "first" => final = Fresh
    /\ pc = "leaves" => InLeaves
    /\ pc = "close" => AtClose
    /\ pc = "finish" => Ends(final, StringOf(total), SuffixOf(total))
    /\ HashIsK12

\* What changes with pc holds when it holds for the new one.
LEMMA HashInvTo ==
    ASSUME total' \in Nat,
           \/ pc' = "leaves" /\ InLeaves'
           \/ pc' = "close" /\ AtClose'
           \/ pc' = "finish" /\ Ends(final', StringOf(total'), SuffixOf(total'))
           \/ pc' = "done" /\ [past |-> final'.past, cur |-> final'.cur] = Reference(total')
    PROVE  HashInv'
BY Zenon DEF HashInv, HashIsK12

\* A message shorter than a chunk.
LEMMA FirstShortKeeps == ASSUME HashInv, FirstShort PROVE HashInv'
<1>1. total \in Nat /\ total < Chunk /\ final = Fresh
  BY DEF HashInv, FirstShort
<1>2. final' = ShortEnd(ShortNode(total)) /\ total' = total /\ pc' = "finish"
  <2> DEFINE node == [KangarooTwelve_F_Absorb(final, Message(0, total)) EXCEPT !.byteIOIndex = @ + 1]
  <2>1. final' = ShortEnd(node) /\ total' = total /\ pc' = "finish"
    BY Zenon DEF FirstShort, ShortEnd
  <2>2. node = ShortNode(total)
    BY <1>1, Zenon DEF ShortNode
  <2>3. QED
    BY <2>1, <2>2, Zenon
<1>3. Ends(final', StringOf(total), SuffixOf(total))
  BY <1>1, <1>2, ShortEnds
<1>4. QED
  BY <1>1, <1>2, <1>3, HashInvTo, Zenon

\* A message of exactly a chunk: a leaf for the zero.
LEMMA FirstExactKeeps == ASSUME HashInv, FirstExact PROVE HashInv'
<1>1. total \in Nat /\ total = Chunk /\ final = Fresh
  BY DEF HashInv, FirstExact
<1>2. /\ final' = MarkFirstChunk(KangarooTwelve_F_Absorb(Fresh, Message(0, Chunk)))
      /\ queue' = OneZero /\ queueAbsorbedLen' = 1 /\ blockNumber' = 1 /\ total' = total /\ pc' = "close"
  BY <1>1, Zenon DEF FirstExact
<1>3. total >= Chunk
  BY <1>1
<1>4. final' = Absorbed(TreeOf(total, 0))
  BY <1>1, <1>2, <1>3, HeadInto
<1>5. LastOf(total) = 1 /\ 1 \in 0 .. LastOf(total) /\ 1 * Chunk = Chunk /\ total - 1 * Chunk = 0
  <2>1. 1 * Chunk = Chunk /\ 1 * Chunk <= total /\ total - 1 * Chunk = 0 /\ 0 < Chunk /\ 1 \in Nat
    BY <1>1, Sizes
  <2>2. 1 \in 0 .. LastOf(total) /\ (total - 1 * Chunk < Chunk <=> 1 = LastOf(total))
    BY <1>1, <2>1, ChunksFit
  <2>3. QED
    BY <2>1, <2>2
<1>6. PartOf(total, 1) = <<{}>>
  <2>1. {} \in Bytes(Tokens) /\ \A i \in Nat : {<<"m", i>>} \in Bytes(Tokens)
    BY LettersAre
  <2>2. PartOf(total, 1) = Then(Message(1 * Chunk, total - 1 * Chunk), <<{}>>)
    BY <1>1, <1>5, <2>1, PartIs
  <2>3. Message(1 * Chunk, total - 1 * Chunk) = <<>>
    <3>1. Message(1 * Chunk, 0) = <<>>
      BY DEF Message
    <3>2. QED
      BY <1>5, <3>1, Zenon
  <2>4. <<>> \o <<{}>> = <<{}>>
    OBVIOUS
  <2>5. QED
    BY <2>2, <2>3, <2>4, Zenon DEF Then
<1>7. queue' = Absorbed(PartOf(total, 1))
  BY <1>2, <1>6, OneZeroIs, Zenon
<1>8. AtClose'
  <2>1. queueAbsorbedLen' # 0 /\ 1 - 1 = 0
    BY <1>2
  <2>2. blockNumber' = LastOf(total') /\ final' = Absorbed(TreeOf(total', LastOf(total') - 1))
        /\ queue' = Absorbed(PartOf(total', LastOf(total'))) /\ total' >= Chunk
    BY <1>2, <1>3, <1>4, <1>5, <1>7, <2>1, Zenon
  <2>3. QED
    BY <2>1, <2>2, Zenon DEF AtClose
<1>9. QED
  BY <1>1, <1>2, <1>8, HashInvTo, Zenon

\* A longer message: its first chunk.
LEMMA FirstLongKeeps == ASSUME HashInv, FirstLong PROVE HashInv'
<1>1. total \in Nat /\ total > Chunk /\ final = Fresh
  BY DEF HashInv, FirstLong
<1>2. /\ final' = MarkFirstChunk(KangarooTwelve_F_Absorb(Fresh, Message(0, Chunk)))
      /\ pos' = Chunk /\ queueAbsorbedLen' = 0 /\ blockNumber' = 1 /\ total' = total /\ pc' = "leaves"
  BY <1>1, Zenon DEF FirstLong
<1>3. total >= Chunk /\ 1 * Chunk = Chunk /\ Chunk <= total
  BY <1>1, Sizes
<1>4. final' = Absorbed(TreeOf(total, 0)) /\ LastOf(total) # 0 /\ LastOf(total) \in Nat
  BY <1>1, <1>2, <1>3, HeadInto
<1>5. InLeaves'
  <2>1. 1 \in 1 .. LastOf(total) /\ 1 - 1 = 0 /\ 0 \in Nat
    BY <1>4
  <2>2. total' > Chunk /\ queueAbsorbedLen' \in Nat /\ blockNumber' \in 1 .. LastOf(total')
        /\ final' = Absorbed(TreeOf(total', blockNumber' - 1))
        /\ queueAbsorbedLen' = 0 /\ pos' = blockNumber' * Chunk /\ pos' <= total'
    BY <1>1, <1>2, <1>3, <1>4, <2>1, Zenon
  <2>3. QED
    BY <2>2, Zenon DEF InLeaves
<1>6. QED
  BY <1>1, <1>2, <1>5, HashInvTo, Zenon

\* A leaf that is a whole chunk.
LEMMA FullLeafKeeps == ASSUME HashInv, FullLeaf PROVE HashInv'
<1> DEFINE k == blockNumber
           last == LastOf(total)
           leaf == Seal(KangarooTwelve_F_Absorb(Fresh, Message(pos, Chunk)), 11)
<1>1. total \in Nat /\ InLeaves /\ pc = "leaves"
  BY DEF HashInv, FullLeaf
<1>2. /\ final' = AbsorbLeaf(final, leaf) /\ blockNumber' = k + 1 /\ pos' = pos + Chunk
      /\ pc' = "leaves" /\ total' = total /\ queueAbsorbedLen' = queueAbsorbedLen
      /\ pos < total /\ ChunkLen = Chunk
  BY <1>1, Zenon DEF FullLeaf
<1>3. /\ total > Chunk /\ k \in 1 .. last /\ final = Absorbed(TreeOf(total, k - 1))
      /\ queueAbsorbedLen = 0 /\ pos = k * Chunk /\ pos <= total
  <2>1. pos # total
    BY <1>1, <1>2
  <2>2. QED
    BY <1>1, <2>1, Zenon DEF InLeaves
<1>4. last \in Nat /\ k \in Nat /\ k \in 0 .. last /\ k # 0
  <2>1. last \in Nat
    BY <1>1, ValuesAre
  <2> HIDE DEF last
  <2>2. QED
    BY <1>3, <2>1
<1>5. /\ (k + 1) * Chunk = k * Chunk + Chunk /\ k * Chunk \in Nat
      /\ total - k * Chunk < Chunk <=> k = last
      /\ total - k * Chunk >= Chunk => k + 1 \in 0 .. last
  BY <1>1, <1>3, <1>4, ChunksFit
<1>6. total - pos >= Chunk
  BY <1>1, <1>2, <1>3, <1>5, Sizes DEF ChunkLen
<1>7. total - k * Chunk >= Chunk /\ k # last /\ k + 1 \in 0 .. last
  <2> DEFINE low == k * Chunk
  <2>1. total - low >= Chunk
    BY <1>3, <1>6, Zenon
  <2>2. low \in Nat /\ (total - low < Chunk <=> k = last) /\ (total - low >= Chunk => k + 1 \in 0 .. last)
    BY <1>5
  <2> HIDE DEF low, last
  <2>3. total - low >= Chunk /\ k # last /\ k + 1 \in 0 .. last
    BY <1>1, <2>1, <2>2, Sizes
  <2>4. QED
    BY <2>3 DEF low
<1>8. PartOf(total, k) = Message(pos, Chunk) /\ Message(pos, Chunk) \in Seq(Bytes(Tokens))
  <2>1. {} \in Bytes(Tokens) /\ \A i \in Nat : {<<"m", i>>} \in Bytes(Tokens)
    BY LettersAre
  <2>2. PartOf(total, k) = Message(k * Chunk, Chunk)
    BY <1>1, <1>4, <1>7, <2>1, PartIs
  <2>3. PartOf(total, k) \in Seq(Bytes(Tokens))
    BY <1>1, <1>4, StringsAre
  <2>4. QED
    BY <1>3, <2>2, <2>3, Zenon
<1>9. KangarooTwelve_F_Absorb(Fresh, Message(pos, Chunk)) = Absorbed(PartOf(total, k))
  <2> DEFINE m == Message(pos, Chunk)
  <2>1. m \in Seq(Bytes(Tokens))
    BY <1>8
  <2> HIDE DEF m
  <2>2. KangarooTwelve_F_Absorb(Fresh, m) = Absorbed(m)
    BY <2>1, AbsorbedAll
  <2>3. QED
    BY <1>8, <2>2, Zenon DEF m
<1>10. AbsorbLeaf(final, leaf) = Absorbed(TreeOf(total, k))
  <2> DEFINE node == KangarooTwelve_F_Absorb(Fresh, Message(pos, Chunk))
  <2>1. node = Absorbed(PartOf(total, k))
    BY <1>9
  <2> HIDE DEF node, k, last
  <2>2. AbsorbLeaf(final, Seal(node, 11)) = Absorbed(TreeOf(total, k))
    BY <1>1, <1>3, <1>4, <2>1, LeafInto DEF last
  <2>3. QED
    BY <2>2 DEF node
<1>11. InLeaves'
  <2>1. (k + 1) - 1 = k /\ k + 1 \in 1 .. last /\ 0 \in Nat
    BY <1>4, <1>7
  <2>2. pos + Chunk = (k + 1) * Chunk
    BY <1>3, <1>5, Zenon
  <2>3. pos + Chunk <= total
    BY <1>1, <1>3, <1>5, <1>6, Sizes
  <2> HIDE DEF leaf
  <2>4. total' > Chunk /\ queueAbsorbedLen' \in Nat /\ blockNumber' \in 1 .. LastOf(total')
        /\ final' = Absorbed(TreeOf(total', blockNumber' - 1))
        /\ queueAbsorbedLen' = 0 /\ pos' = blockNumber' * Chunk /\ pos' <= total'
    BY <1>2, <1>3, <1>10, <2>1, <2>2, <2>3, Zenon
  <2>5. QED
    BY <2>4, Zenon DEF InLeaves
<1>12. QED
  BY <1>1, <1>2, <1>11, HashInvTo, Zenon

\* What is left of the message is the open leaf.
LEMMA LastLeafKeeps == ASSUME HashInv, LastLeaf PROVE HashInv'
<1> DEFINE k == blockNumber
           last == LastOf(total)
<1>1. total \in Nat /\ InLeaves /\ pc = "leaves"
  BY DEF HashInv, LastLeaf
<1>2. /\ queue' = KangarooTwelve_F_Absorb(Fresh, Message(pos, ChunkLen)) /\ queueAbsorbedLen' = ChunkLen
      /\ pos' = total /\ pc' = "leaves" /\ total' = total /\ final' = final /\ blockNumber' = blockNumber
      /\ pos < total /\ ChunkLen < Chunk
  BY <1>1, Zenon DEF LastLeaf
<1>3. /\ total > Chunk /\ k \in 1 .. last /\ final = Absorbed(TreeOf(total, k - 1))
      /\ queueAbsorbedLen = 0 /\ pos = k * Chunk /\ pos <= total
  <2>1. pos # total
    BY <1>1, <1>2
  <2>2. QED
    BY <1>1, <2>1, Zenon DEF InLeaves
<1>4. last \in Nat /\ k \in Nat
  <2>1. last \in Nat
    BY <1>1, ValuesAre
  <2> HIDE DEF last
  <2>2. QED
    BY <1>3, <2>1
<1>5. k * Chunk \in Nat /\ (total - k * Chunk < Chunk <=> k = last)
  BY <1>1, <1>3, <1>4, ChunksFit
<1>6. pos \in Nat
  BY <1>3, <1>5, Zenon
<1>7. ChunkLen = total - pos /\ total - pos \in Nat /\ total - pos # 0 /\ total - pos < Chunk
  <2>1. ChunkLen = IF total - pos < Chunk THEN total - pos ELSE Chunk
    BY DEF ChunkLen
  <2>2. Chunk \in Nat
    BY Sizes
  <2> HIDE DEF k, last
  <2>3. ChunkLen # Chunk
    BY <1>2, <2>2
  <2>4. ChunkLen = total - pos /\ total - pos < Chunk
    BY <2>1, <2>3, Zenon
  <2>5. total - pos \in Nat /\ total - pos # 0
    BY <1>1, <1>2, <1>6
  <2>6. QED
    BY <2>4, <2>5
<1>8. k = last
  <2>1. total - k * Chunk < Chunk
    BY <1>3, <1>7, Zenon
  <2>2. QED
    BY <1>5, <2>1
<1>9. queue' = Absorbed(Message(k * Chunk, total - k * Chunk))
  <2> DEFINE n == total - pos
             m == Message(pos, n)
  <2>1. \A i \in Nat : {<<"m", i>>} \in Bytes(Tokens)
    BY LettersAre
  <2>2. n \in Nat
    BY <1>7
  <2> HIDE DEF n
  <2>3. m \in Seq(Bytes(Tokens))
    BY <1>6, <2>1, <2>2, MessageType
  <2> HIDE DEF m
  <2>4. KangarooTwelve_F_Absorb(Fresh, m) = Absorbed(m)
    BY <2>3, AbsorbedAll
  <2>5. queue' = Absorbed(Message(pos, total - pos))
    BY <1>2, <1>7, <2>4, Zenon DEF m, n
  <2>6. QED
    BY <1>3, <2>5, Zenon
<1>10. InLeaves'
  <2>1. queueAbsorbedLen' = total - k * Chunk /\ queueAbsorbedLen' # 0 /\ queueAbsorbedLen' \in Nat
    BY <1>2, <1>3, <1>7, Zenon
  <2>2. total' > Chunk /\ queueAbsorbedLen' \in Nat /\ blockNumber' \in 1 .. LastOf(total')
        /\ final' = Absorbed(TreeOf(total', blockNumber' - 1))
        /\ queueAbsorbedLen' # 0 /\ pos' = total' /\ blockNumber' = LastOf(total')
        /\ queueAbsorbedLen' = total' - blockNumber' * Chunk
        /\ queue' = Absorbed(Message(blockNumber' * Chunk, queueAbsorbedLen'))
    BY <1>2, <1>3, <1>8, <1>9, <2>1, Zenon
  <2>3. QED
    BY <2>2, Zenon DEF InLeaves
<1>11. QED
  BY <1>1, <1>2, <1>10, HashInvTo, Zenon

\* The zero that ends the message goes into the open leaf.
LEMMA EndInLeafKeeps == ASSUME HashInv, EndInLeaf PROVE HashInv'
<1> DEFINE last == LastOf(total)
           node == SkipByte(queue)
           leaf == Seal(node, 11)
           part == PartOf(total, last)
<1>1. total \in Nat /\ InLeaves /\ pc = "leaves"
  BY DEF HashInv, EndInLeaf
<1>2. queueAbsorbedLen # 0 /\ total' = total /\ pc' = "close"
  BY Zenon DEF EndInLeaf
<1>3. \/ /\ queueAbsorbedLen + 1 = Chunk /\ final' = AbsorbLeaf(final, leaf)
         /\ blockNumber' = blockNumber + 1 /\ queueAbsorbedLen' = 0
      \/ /\ queueAbsorbedLen + 1 # Chunk /\ queue' = node /\ queueAbsorbedLen' = queueAbsorbedLen + 1
         /\ final' = final /\ blockNumber' = blockNumber
  BY Zenon DEF EndInLeaf
<1>4. /\ total > Chunk /\ blockNumber \in 1 .. last /\ final = Absorbed(TreeOf(total, blockNumber - 1))
      /\ blockNumber = last /\ queueAbsorbedLen \in Nat
      /\ queueAbsorbedLen = total - blockNumber * Chunk
      /\ queue = Absorbed(Message(blockNumber * Chunk, queueAbsorbedLen))
  BY <1>1, <1>2, Zenon DEF InLeaves
<1>5. last \in Nat /\ last \in 0 .. last /\ last # 0 /\ total >= Chunk
  <2>1. last \in Nat
    BY <1>1, ValuesAre
  <2> HIDE DEF last
  <2>2. QED
    BY <1>1, <1>4, <2>1, Sizes
<1>6. node = Absorbed(part)
  <2> DEFINE m == Message(last * Chunk, total - last * Chunk)
  <2>1. {} \in Bytes(Tokens) /\ \A i \in Nat : {<<"m", i>>} \in Bytes(Tokens)
    BY LettersAre
  <2>2. last * Chunk \in Nat /\ part = Then(m, <<{}>>) /\ total - last * Chunk \in 0 .. Chunk - 1
    BY <1>1, <1>5, <2>1, PartIs
  <2>3. m \in Seq(Bytes(Tokens))
    <3> DEFINE low == last * Chunk
               n == total - low
    <3>1. low \in Nat /\ n \in Nat
      BY <2>2, Sizes
    <3> HIDE DEF low, n
    <3>2. Message(low, n) \in Seq(Bytes(Tokens))
      BY <2>1, <3>1, MessageType
    <3>3. QED
      BY <3>2 DEF low, n
  <2>4. queue = Absorbed(m)
    BY <1>4, Zenon
  <2> HIDE DEF m, last, part
  <2>5. SkipByte(queue) = Absorbed(Then(m, <<{}>>))
    BY <2>3, <2>4, SkipIsZero
  <2>6. QED
    BY <2>2, <2>5, Zenon
<1>7. CASE /\ queueAbsorbedLen + 1 = Chunk /\ final' = AbsorbLeaf(final, leaf)
           /\ blockNumber' = blockNumber + 1 /\ queueAbsorbedLen' = 0
  <2>1. AbsorbLeaf(final, leaf) = Absorbed(TreeOf(total, last))
    <3>1. final = Absorbed(TreeOf(total, last - 1))
      BY <1>4, Zenon
    <3> HIDE DEF node, last
    <3>2. AbsorbLeaf(final, Seal(node, 11)) = Absorbed(TreeOf(total, last))
      BY <1>1, <1>5, <1>6, <3>1, LeafInto DEF last, part
    <3>3. QED
      BY <3>2
  <2>2. AtClose'
    <3> HIDE DEF leaf
    <3>1. total' >= Chunk /\ queueAbsorbedLen' = 0 /\ blockNumber' = LastOf(total') + 1
          /\ final' = Absorbed(TreeOf(total', LastOf(total')))
      BY <1>2, <1>4, <1>5, <1>7, <2>1, Zenon
    <3>2. QED
      BY <3>1, Zenon DEF AtClose
  <2>3. QED
    BY <1>1, <1>2, <2>2, HashInvTo, Zenon
<1>8. CASE /\ queueAbsorbedLen + 1 # Chunk /\ queue' = node /\ queueAbsorbedLen' = queueAbsorbedLen + 1
           /\ final' = final /\ blockNumber' = blockNumber
  <2>1. queueAbsorbedLen' # 0
    BY <1>4, <1>8
  <2>2. total' >= Chunk /\ queueAbsorbedLen' # 0 /\ blockNumber' = LastOf(total')
        /\ final' = Absorbed(TreeOf(total', LastOf(total') - 1))
        /\ queue' = Absorbed(PartOf(total', LastOf(total')))
    <3> HIDE DEF node
    <3>1. QED
      BY <1>2, <1>4, <1>5, <1>6, <1>8, <2>1, Zenon
  <2>3. AtClose'
    BY <2>2, Zenon DEF AtClose
  <2>4. QED
    BY <1>1, <1>2, <2>3, HashInvTo, Zenon
<1>9. QED
  BY <1>3, <1>7, <1>8, Zenon

\* Or it makes a leaf of its own.
LEMMA EndAloneKeeps == ASSUME HashInv, EndAlone PROVE HashInv'
<1> DEFINE last == LastOf(total)
           k == blockNumber
<1>1. total \in Nat /\ InLeaves /\ pc = "leaves"
  BY DEF HashInv, EndAlone
<1>2. /\ pos = total /\ queueAbsorbedLen = 0 /\ queue' = OneZero /\ queueAbsorbedLen' = 1 /\ pc' = "close"
      /\ total' = total /\ final' = final /\ blockNumber' = blockNumber
  BY Zenon DEF EndAlone
<1>3. /\ total > Chunk /\ k \in 1 .. last /\ final = Absorbed(TreeOf(total, k - 1))
      /\ pos = k * Chunk
  BY <1>1, <1>2, Zenon DEF InLeaves
<1>4. last \in Nat /\ k \in Nat
  <2>1. last \in Nat
    BY <1>1, ValuesAre
  <2> HIDE DEF last
  <2>2. QED
    BY <1>3, <2>1
<1>5. k * Chunk <= total /\ total - k * Chunk = 0 /\ total >= Chunk
  <2> DEFINE low == k * Chunk
  <2>1. low = total
    BY <1>2, <1>3
  <2> HIDE DEF low
  <2>2. low <= total /\ total - low = 0 /\ total >= Chunk
    BY <1>1, <1>3, <2>1, Sizes
  <2>3. QED
    BY <2>2 DEF low
<1>6. k = last /\ last \in 0 .. last
  <2>1. total - k * Chunk < Chunk <=> k = last
    BY <1>1, <1>4, <1>5, ChunksFit
  <2>2. 0 < Chunk
    BY Sizes
  <2>3. QED
    BY <1>4, <1>5, <2>1, <2>2
<1>7. PartOf(total, last) = <<{}>>
  <2>1. {} \in Bytes(Tokens) /\ \A i \in Nat : {<<"m", i>>} \in Bytes(Tokens)
    BY LettersAre
  <2>2. PartOf(total, last) = Then(Message(last * Chunk, total - last * Chunk), <<{}>>)
    BY <1>1, <1>6, <2>1, PartIs
  <2>3. Message(last * Chunk, total - last * Chunk) = <<>>
    <3>1. Message(last * Chunk, 0) = <<>>
      BY DEF Message
    <3>2. total - last * Chunk = 0
      BY <1>5, <1>6, Zenon
    <3>3. QED
      BY <3>1, <3>2, Zenon
  <2>4. <<>> \o <<{}>> = <<{}>>
    OBVIOUS
  <2>5. QED
    BY <2>2, <2>3, <2>4, Zenon DEF Then
<1>8. AtClose'
  <2>1. queueAbsorbedLen' # 0
    BY <1>2
  <2>2. total' >= Chunk /\ blockNumber' = LastOf(total') /\ final' = Absorbed(TreeOf(total', LastOf(total') - 1))
        /\ queue' = Absorbed(PartOf(total', LastOf(total')))
    BY <1>2, <1>3, <1>5, <1>6, <1>7, OneZeroIs, Zenon
  <2>3. QED
    BY <2>1, <2>2, Zenon DEF AtClose
<1>9. QED
  BY <1>1, <1>2, <1>8, HashInvTo, Zenon

\* The tree is closed: the open leaf, the number of leaves, the suffix.
LEMMA CloseKeeps == ASSUME HashInv, Close PROVE HashInv'
<1> DEFINE last == LastOf(total)
           open == queueAbsorbedLen # 0
           leaf == Seal(queue, 11)
           with == IF open THEN AbsorbLeaf(final, leaf) ELSE final
           leaves == IF open THEN blockNumber ELSE blockNumber - 1
           node == KangarooTwelve_F_Absorb(with, encbuf(leaves))
           tree == TreeOf(total, last)
<1>1. total \in Nat /\ AtClose /\ pc = "close"
  BY DEF HashInv, Close
<1>2. final' = XorAt(node, node.byteIOIndex, Byte(6)) /\ total' = total /\ pc' = "finish"
  BY Zenon DEF Close
<1>3. last \in Nat /\ last # 0 /\ last \in 0 .. last
  <2>1. total >= Chunk
    BY <1>1 DEF AtClose
  <2>2. last \in Nat /\ last # 0
    BY <1>1, <2>1, HeadInto
  <2> HIDE DEF last
  <2>3. QED
    BY <2>2
<1>4. with = Absorbed(tree) /\ leaves = last
  <2>1. CASE queueAbsorbedLen # 0
    <3>1. blockNumber = last /\ final = Absorbed(TreeOf(total, last - 1)) /\ queue = Absorbed(PartOf(total, last))
      BY <1>1, <2>1, Zenon DEF AtClose
    <3>2. AbsorbLeaf(final, Seal(queue, 11)) = Absorbed(TreeOf(total, last))
      <4> HIDE DEF last
      <4>1. QED
        BY <1>1, <1>3, <3>1, LeafInto DEF last
    <3>3. with = AbsorbLeaf(final, leaf) /\ leaves = blockNumber
      BY <2>1, Zenon
    <3>4. QED
      BY <3>1, <3>2, <3>3, Zenon
  <2>2. CASE ~ (queueAbsorbedLen # 0)
    <3>1. blockNumber = last + 1 /\ final = Absorbed(TreeOf(total, last))
      BY <1>1, <2>2, Zenon DEF AtClose
    <3>2. with = final /\ leaves = blockNumber - 1
      BY <2>2, Zenon
    <3>3. blockNumber - 1 = last
      <4> HIDE DEF last
      <4>1. QED
        BY <1>3, <3>1
    <3>4. QED
      BY <3>1, <3>2, <3>3, Zenon
  <2>3. QED
    BY <2>1, <2>2
<1> DEFINE code == encbuf(last)
<1>5. tree \in Seq(Bytes(Tokens)) /\ code \in Seq(Bytes(Tokens)) /\ StringOf(total) \in Seq(Bytes(Tokens))
  BY <1>1, <1>3, StringsAre
<1>6. StringOf(total) = Then(tree, code) /\ SuffixOf(total) = 6
  BY <1>3, Zenon DEF StringOf, SuffixOf
<1>7. node = KangarooTwelve_F_Absorb(with, code)
  <2> HIDE DEF leaves, with, last
  <2>1. QED
    BY <1>4, Zenon
<1> HIDE DEF tree, code, node, with, leaves, last
<1>8. node = Absorbed(StringOf(total))
  <2>1. KangarooTwelve_F_Absorb(with, code) = Absorbed(Then(tree, code))
    BY <1>4, <1>5, AbsorbedOn
  <2>2. QED
    BY <1>6, <1>7, <2>1, Zenon
<1>9. Ends(final', StringOf(total), SuffixOf(total))
  <2> DEFINE str == StringOf(total)
  <2>1. str \in Seq(Bytes(Tokens)) /\ node = Absorbed(str)
    BY <1>5, <1>8
  <2> HIDE DEF str
  <2>2. Ends(XorAt(node, node.byteIOIndex, Byte(6)), str, 6)
    BY <2>1, EndsIn
  <2>3. QED
    BY <1>2, <1>6, <2>2, Zenon DEF str
<1>10. QED
  BY <1>1, <1>2, <1>9, HashInvTo, Zenon

\* The digest.
LEMMA FinishKeeps == ASSUME HashInv, Finish PROVE HashInv'
<1> DEFINE done == KeccakP1600_Permute_12rounds(XorAt(final, Rate - 1, Byte(128)))
           str == StringOf(total)
           suffix == SuffixOf(total)
<1>1. total \in Nat /\ Ends(final, str, suffix)
  BY DEF HashInv, Finish
<1>2. final' = done /\ total' = total /\ pc' = "done"
  BY Zenon DEF Finish
<1>3. str \in Seq(Bytes(Tokens)) /\ suffix \in Nat
  BY <1>1, StringsAre DEF SuffixOf
<1>4. Reference(total) = Sponge(str, suffix)
  BY <1>1, ReferenceIs
<1> HIDE DEF str, suffix
<1>5. [past |-> done.past, cur |-> done.cur] = Sponge(str, suffix)
  <2> DEFINE d == done
  <2>1. d = KeccakP1600_Permute_12rounds(XorAt(final, Rate - 1, Byte(128)))
    OBVIOUS
  <2> HIDE DEF d
  <2>2. [past |-> d.past, cur |-> d.cur] = Sponge(str, suffix)
    BY <1>1, <1>3, <2>1, FinishIs
  <2>3. QED
    BY <2>2 DEF d
<1> HIDE DEF done
<1>6. [past |-> final'.past, cur |-> final'.cur] = Reference(total')
  BY <1>2, <1>4, <1>5, Zenon
<1>7. QED
  BY <1>1, <1>2, <1>6, HashInvTo, Zenon

\* The invariant holds before the call.
LEMMA HashBegins == Init => HashInv
<1>1. \A n \in Lengths : n \in Nat
  BY K12Assumption
<1>2. Init => total \in Nat /\ pc = "first" /\ final = Fresh
  BY <1>1 DEF Init
<1>3. pc = "first" => pc # "leaves" /\ pc # "close" /\ pc # "finish" /\ pc # "done"
  OBVIOUS
<1>4. QED
  BY <1>2, <1>3, Zenon DEF HashInv, HashIsK12

\* Every action and every stuttering step keeps it.
LEMMA HashGoesOn == HashInv /\ [Next]_vars => HashInv'
<1> SUFFICES ASSUME HashInv, [Next]_vars PROVE HashInv'
  OBVIOUS
<1>1. CASE Next
  BY <1>1, FirstShortKeeps, FirstExactKeeps, FirstLongKeeps, FullLeafKeeps, LastLeafKeeps,
     EndInLeafKeeps, EndAloneKeeps, CloseKeeps, FinishKeeps, Zenon DEF Next
<1>2. CASE UNCHANGED vars
  <2>1. pc' = pc /\ total' = total /\ pos' = pos /\ final' = final /\ queue' = queue
        /\ blockNumber' = blockNumber /\ queueAbsorbedLen' = queueAbsorbedLen
    BY <1>2, Zenon DEF vars
  <2>2. QED
    BY <2>1, Zenon DEF HashInv, HashIsK12, InLeaves, AtClose
<1>3. QED
  BY <1>1, <1>2

\* Whatever the length, the hash absorbs the blocks of KangarooTwelve's definition:
\* bytes, lanes, chunks, leaves, chaining values and length encoding of the port.
THEOREM HashesAsDefined == Spec => []HashIsK12
<1>1. Init => HashInv
  BY HashBegins
<1>2. HashInv /\ [Next]_vars => HashInv'
  BY HashGoesOn
<1>3. HashInv => HashIsK12
  BY DEF HashInv
<1>4. QED
  BY <1>1, <1>2, <1>3, PTL DEF Spec

-----------------------------------------------------------------------------
(* The reference's lanes.                                                  *)

\* What the loop for k lanes at a time leaves are fewer than k.
LEMMA AfterLoopLeaves ==
    ASSUME NEW n \in Nat, NEW j \in 0 .. n, NEW k \in Nat, k > 0
    PROVE  AfterLoop(j, n, k) \in 0 .. n /\ n - AfterLoop(j, n, k) < k
<1>1. n - j \in Nat
  OBVIOUS
<1>2. /\ (n - j) % k \in Nat /\ (n - j) % k < k /\ (n - j) \div k \in Nat
      /\ n - j = k * ((n - j) \div k) + ((n - j) % k)
  BY <1>1, DivMod
<1>3. k * ((n - j) \div k) \in Nat
  BY <1>2
<1>4. AfterLoop(j, n, k) = j + k * ((n - j) \div k)
  BY Zenon DEF AfterLoop
<1>5. QED
  BY <1>2, <1>3, <1>4

\* Eights, fours, twos and the last one are all lanes there are.
LEMMA AllLanesDone == \A n \in Nat : LanesDone(n) = n
<1> SUFFICES ASSUME NEW n \in Nat PROVE LanesDone(n) = n
  OBVIOUS
<1> DEFINE eights == AfterLoop(0, n, 8)
           fours == AfterLoop(eights, n, 4)
           twos == AfterLoop(fours, n, 2)
<1>1. 0 \in 0 .. n /\ {8, 4, 2} \subseteq Nat
  OBVIOUS
<1>2. eights \in 0 .. n
  BY <1>1, AfterLoopLeaves
<1> HIDE DEF eights
<1>3. fours \in 0 .. n
  BY <1>2, AfterLoopLeaves
<1> HIDE DEF fours
<1>4. twos \in 0 .. n /\ n - twos < 2
  BY <1>3, AfterLoopLeaves
<1>5. LanesDone(n) = IF twos < n THEN twos + 1 ELSE twos
  BY Zenon DEF LanesDone, twos, fours, eights
<1> HIDE DEF twos
<1>6. QED
  BY <1>4, <1>5

\* The reference's lanes are the port's.
LEMMA FirstLanesAlike ==
    ASSUME NEW node, NEW d, Len(d) \in Nat
    PROVE  StockPartialBlock(node, d) = PartialBlock(node, d)
<1> DEFINE n == Len(d) \div Lane
<1>1. LanesDone(n) = n
  <2>1. n \in Nat
    BY Sizes, DivMod
  <2>2. QED
    BY <2>1, AllLanesDone
<1> HIDE DEF n
<1>2. StockFromFirstLane(node, d) = FromFirstLane(node, d)
  BY <1>1, Zenon DEF StockFromFirstLane, FromFirstLane, n
<1>3. QED
  BY <1>2, Zenon DEF StockPartialBlock, PartialBlock

\* One turn of its loop, too, in every state the loop comes to.
LEMMA SameTurn ==
    ASSUME NEW T, NEW n0 \in Nodes(T), NEW str \in Seq(Bytes(T)), NEW data \in Seq(Bytes(T)),
           NEW s \in AbsorbStates(n0, str, data)
    PROVE  StockTurn(data, s) = AbsorbTurn(data, s)
<1> DEFINE left == Len(data) - s.i
           b == s.node.byteIOIndex
           room == Rate - b
           whole == b = 0 /\ left >= Rate
           n == IF left > room THEN room ELSE left
           d == SubSeq(data, s.i + 1, s.i + n)
<1>1. PICK i \in 0 .. Len(data) : s = AbsorbState(n0, str, data, i)
  BY DEF AbsorbStates
<1>2. s.i = i /\ s.node = Bytewise(n0, Then(str, Piece(data, 0, i)))
  BY <1>1 DEF AbsorbState
<1>3. i \in Nat /\ Len(data) \in Nat /\ left \in Nat /\ Rate \in Nat /\ Rate > 1
  BY <1>2, Sizes
<1>4. s.node \in Nodes(T)
  <2>1. i + 0 <= Len(data) /\ 0 \in Nat
    BY <1>3
  <2>2. Then(str, Piece(data, 0, i)) \in Seq(Bytes(T))
    BY <1>3, <2>1, PieceNext
  <2>3. QED
    BY <1>2, <2>2, BytewiseType
<1>5. b \in Nat /\ b < Rate
  BY <1>3, <1>4 DEF Nodes
<1>6. CASE left = 0 \/ whole
  BY <1>6, Zenon DEF StockTurn
<1>7. CASE ~ (left = 0 \/ whole)
  <2>1. n \in Nat /\ i + n <= Len(data)
    BY <1>2, <1>3, <1>5
  <2>2. Len(d) \in Nat
    <3> HIDE DEF n
    <3>1. Piece(data, i, n) \in Seq(Bytes(T)) /\ Len(Piece(data, i, n)) = n
      BY <1>3, <2>1, PieceNext
    <3>2. d = Piece(data, i, n)
      BY <1>2, Zenon DEF Piece
    <3>3. QED
      BY <2>1, <3>1, <3>2
  <2>3. StockTurn(data, s) = [node |-> StockPartialBlock(s.node, d), i |-> s.i + n]
    BY <1>7, Zenon DEF StockTurn
  <2>4. AbsorbTurn(data, s) = [node |-> PartialBlock(s.node, d), i |-> s.i + n]
    BY <1>7, Zenon DEF AbsorbTurn
  <2> HIDE DEF d, n
  <2>5. StockPartialBlock(s.node, d) = PartialBlock(s.node, d)
    BY <2>2, FirstLanesAlike
  <2>6. QED
    BY <2>3, <2>4, <2>5, Zenon
<1>8. QED
  BY <1>6, <1>7

\* The reference's absorb loop, too, absorbs bytewise.
LEMMA StockOnto ==
    ASSUME NEW T, NEW n0 \in Nodes(T), NEW str \in Seq(Bytes(T)), NEW data \in Seq(Bytes(T)),
           NEW node, node = Bytewise(n0, str)
    PROVE  StockAbsorb(node, data) = Bytewise(n0, Then(str, data))
<1> DEFINE S == AbsorbStates(n0, str, data)
           g == [s \in S |-> StockTurn(data, s)]
           rank == [s \in S |-> AbsorbRank(data, s)]
           x == [node |-> node, i |-> 0]
           turns == 3
           Body(f) == [k \in 0 .. turns |-> IF k = 0 THEN x ELSE StockTurn(data, f[k - 1])]
           loop == CHOOSE f : f = Body(f)
<1>1. Len(data) \in Nat
  OBVIOUS
<1>2. turns \in Nat
  OBVIOUS
<1>3. x \in S /\ x = AbsorbState(n0, str, data, 0)
  <2>1. x = AbsorbState(n0, str, data, 0)
    BY PieceEnds DEF AbsorbState
  <2>2. QED
    BY <1>1, <2>1 DEF AbsorbStates
<1>4. /\ Nearer(S, g, rank)
      /\ \A s \in S : AbsorbRank(data, s) <= turns
      /\ \A s \in S : AbsorbRank(data, s) = 0 => s.i = Len(data)
  <2>1. \A s \in S : StockTurn(data, s) = AbsorbTurn(data, s)
    BY SameTurn
  <2>2. g = [s \in S |-> AbsorbTurn(data, s)]
    <3> HIDE DEF S
    <3>1. QED
      BY <2>1
  <2>3. /\ Nearer(S, [s \in S |-> AbsorbTurn(data, s)], rank)
        /\ \A s \in S : AbsorbRank(data, s) <= turns
        /\ \A s \in S : AbsorbRank(data, s) = 0 => s.i = Len(data)
    BY AbsorbNearer
  <2> HIDE DEF S, g, rank
  <2>4. QED
    BY <2>2, <2>3
<1>5. \A s \in S : g[s] = StockTurn(data, s) /\ rank[s] = AbsorbRank(data, s)
  OBVIOUS
<1>6. StockAbsorb(node, data) = loop[turns].node
  BY Zenon DEF StockAbsorb, Loop
<1> HIDE DEF S, g, rank, x, turns
<1>7. g \in [S -> S]
  BY <1>4 DEF Nearer
<1>8. PICK f : Solves(turns, S, x, g, f)
  BY <1>2, <1>3, <1>7, Recursion
<1>9. f = Body(f)
  <2>1. f = [k \in 0 .. turns |-> IF k = 0 THEN x ELSE g[f[k - 1]]] /\ \A k \in 0 .. turns : f[k] \in S
    BY <1>2, <1>3, <1>7, <1>8, SolutionIs
  <2>2. \A k \in 0 .. turns : (IF k = 0 THEN x ELSE g[f[k - 1]]) = (IF k = 0 THEN x ELSE StockTurn(data, f[k - 1]))
    <3> SUFFICES ASSUME NEW k \in 0 .. turns, k # 0
                 PROVE  g[f[k - 1]] = StockTurn(data, f[k - 1])
      OBVIOUS
    <3>1. k - 1 \in 0 .. turns
      BY <1>2
    <3>2. QED
      BY <1>5, <2>1, <3>1
  <2>3. QED
    BY <2>1, <2>2, Zenon
<1>10. loop = Body(loop)
  <2> HIDE DEF Body
  <2>1. QED
    BY <1>9
<1> HIDE DEF loop
<1>11. Follows(turns, S, x, g, loop)
  <2>1. loop[0] = x
    BY <1>2, <1>10
  <2>2. \A k \in 1 .. turns : loop[k] = StockTurn(data, loop[k - 1])
    BY <1>2, <1>10
  <2>3. QED
    BY <1>5, <2>1, <2>2, Zenon DEF Follows
<1>12. loop[turns] \in S /\ rank[loop[turns]] = 0
  BY <1>2, <1>3, <1>4, <1>5, <1>11, LoopEnds
<1>13. PICK i \in 0 .. Len(data) : loop[turns] = AbsorbState(n0, str, data, i)
  BY <1>12 DEF S, AbsorbStates
<1>14. loop[turns].i = i /\ loop[turns].node = Bytewise(n0, Then(str, Piece(data, 0, i)))
  BY <1>13 DEF AbsorbState
<1>15. i = Len(data)
  <2>1. loop[turns] \in S /\ AbsorbRank(data, loop[turns]) = 0
    BY <1>5, <1>12
  <2>2. loop[turns].i = Len(data)
    BY <1>4, <2>1
  <2>3. QED
    BY <1>14, <2>2
<1>16. QED
  BY <1>6, <1>14, <1>15, PieceEnds

\* Nothing changes nothing.
LEMMA BytewiseNothing ==
    ASSUME NEW T, NEW n0 \in Nodes(T)
    PROVE  Bytewise(n0, <<>>) = n0
<1> DEFINE p == n0.past
           open == n0.cur
           b == n0.byteIOIndex
           none == <<>>
           q == Full(n0, none)
<1>1. n0 = Node(p, open, b) /\ p \in Seq(Blocks(T)) /\ open \in [0 .. Rate - 1 -> Bytes(T)]
  BY NodeIs DEF Nodes, Blocks
<1>2. b \in Nat /\ b < Rate /\ Rate \in Nat /\ Len(none) = 0
  BY Sizes DEF Nodes
<1>3. q = 0 /\ At(n0, none) = b
  <2>1. b + Len(none) = Rate * 0 + b /\ b + Len(none) \in Int /\ 0 <= b /\ b \in Int /\ 0 < Rate
    BY <1>2
  <2> DEFINE x == b + Len(none)
  <2>2. x = Rate * 0 + b /\ x \in Int
    BY <2>1
  <2> HIDE DEF x
  <2>3. x % Rate = b /\ x \div Rate = 0
    BY <1>2, <2>1, <2>2, Unique
  <2>4. QED
    BY <2>3 DEF x, Full, At
<1>4. Filled(n0, none, 0) = open
  <2>1. ASSUME NEW j \in 0 .. Rate - 1
        PROVE  Spot(n0, none, 0, j) = open[j]
    <3>1. \A i : i \notin 1 .. Len(none)
      BY <1>2
    <3> HIDE DEF none
    <3>2. QED
      BY <3>1, Zenon DEF Spot
  <2> HIDE DEF open, none
  <2>2. Filled(n0, none, 0) = [j \in 0 .. Rate - 1 |-> open[j]]
    BY <2>1, Zenon DEF Filled
  <2>3. QED
    BY <1>1, <2>2
<1>5. p \o [k \in 1 .. 0 |-> Filled(n0, none, k - 1)] = p
  BY <1>1
<1> HIDE DEF none
<1>6. Bytewise(n0, none) = Node(p \o [k \in 1 .. q |-> Filled(n0, none, k - 1)], Filled(n0, none, q), At(n0, none))
  BY BytewiseIs
<1> HIDE DEF p, open, b, q
<1>7. Bytewise(n0, none) = n0
  BY <1>1, <1>3, <1>4, <1>5, <1>6, Zenon
<1>8. QED
  BY <1>7 DEF none

\* Either absorb loop, from any node on.
LEMMA BothBytewise ==
    ASSUME NEW T, NEW node \in Nodes(T), NEW data \in Seq(Bytes(T))
    PROVE  StockAbsorb(node, data) = Bytewise(node, data) /\ KangarooTwelve_F_Absorb(node, data) = Bytewise(node, data)
<1> DEFINE none == <<>>
<1>1. none \in Seq(Bytes(T)) /\ Then(none, data) = data
  BY DEF Then
<1>2. node = Bytewise(node, none)
  BY BytewiseNothing
<1> HIDE DEF none
<1>3. StockAbsorb(node, data) = Bytewise(node, Then(none, data))
  BY <1>1, <1>2, StockOnto
<1>4. KangarooTwelve_F_Absorb(node, data) = Bytewise(node, Then(none, data))
  BY <1>1, <1>2, AbsorbOnto
<1>5. QED
  BY <1>1, <1>3, <1>4, Zenon

\* A call on a node that holds any data already: blocks of tokens T, whatever they
\* are, and the position of the next byte.
AbsorbStart(T) == pc = "absorb" /\ queue \in Nodes(T) /\ total \in Nat

\* From every position, with every number of bytes and whatever was absorbed before,
\* both absorb loops are the one that takes byte after byte.
THEOREM AbsorbsBytewise ==
    ASSUME NEW CONSTANT T, \A i \in Nat : <<"m", i>> \in T
    PROVE  AbsorbStart(T) /\ [][Absorb]_vars => []AbsorbIsBytewise
<1> DEFINE Inv == AbsorbIsBytewise /\ (AbsorbStart(T) \/ pc = "absorbed")
<1>1. AbsorbStart(T) => Inv
  BY DEF AbsorbStart, AbsorbIsBytewise
<1>2. Inv /\ [Absorb]_vars => Inv'
  <2> SUFFICES ASSUME Inv, [Absorb]_vars PROVE Inv'
    OBVIOUS
  <2>1. CASE Absorb
    <3> DEFINE m == Message(0, total)
    <3>1. /\ pc = "absorb" /\ pc' = "absorbed" /\ total' = total /\ queue' = queue
          /\ final' = StockAbsorb(queue, m)
      BY <2>1, Zenon DEF Absorb
    <3>2. queue \in Nodes(T) /\ total \in Nat
      BY <3>1 DEF AbsorbStart
    <3>3. m \in Seq(Bytes(T))
      <4>1. \A i \in Nat : {<<"m", i>>} \in Bytes(T)
        BY DEF Bytes
      <4>2. 0 \in Nat
        OBVIOUS
      <4>3. QED
        BY <3>2, <4>1, <4>2, MessageType
    <3>4. Message(0, total') = m
      BY <3>1, Zenon
    <3> HIDE DEF m
    <3>5. StockAbsorb(queue, m) = Bytewise(queue, m) /\ KangarooTwelve_F_Absorb(queue, m) = Bytewise(queue, m)
      BY <3>2, <3>3, BothBytewise
    <3>6. final' = Bytewise(queue', Message(0, total')) /\ final' = KangarooTwelve_F_Absorb(queue', Message(0, total'))
      BY <3>1, <3>4, <3>5, Zenon
    <3>7. QED
      BY <3>1, <3>6, Zenon DEF AbsorbIsBytewise
  <2>2. CASE UNCHANGED vars
    <3>1. pc' = pc /\ total' = total /\ final' = final /\ queue' = queue
      BY <2>2, Zenon DEF vars
    <3>2. QED
      BY <3>1, Zenon DEF AbsorbIsBytewise, AbsorbStart
  <2>3. QED
    BY <2>1, <2>2
<1>3. Inv => AbsorbIsBytewise
  OBVIOUS
<1>4. QED
  BY <1>1, <1>2, <1>3, PTL

-----------------------------------------------------------------------------
(* The reference's tree.                                                   *)

\* The reference's absorb loop on the strings of the tree.
LEMMA StockAbsorbedOn ==
    ASSUME NEW T, NEW str \in Seq(Bytes(T)), NEW data \in Seq(Bytes(T)), NEW node, node = Absorbed(str)
    PROVE  StockAbsorb(node, data) = KangarooTwelve_F_Absorb(node, data) /\ StockAbsorb(node, data) = Absorbed(Then(str, data))
<1>1. Fresh \in Nodes(T)
  BY FreshNode
<1>2. node = Bytewise(Fresh, str)
  BY Zenon DEF Absorbed
<1>3. StockAbsorb(node, data) = Bytewise(Fresh, Then(str, data))
  BY <1>1, <1>2, StockOnto
<1>4. KangarooTwelve_F_Absorb(node, data) = Bytewise(Fresh, Then(str, data))
  BY <1>1, <1>2, AbsorbOnto
<1>5. QED
  BY <1>3, <1>4, Zenon DEF Absorbed

\* Into a fresh node.
LEMMA StockAbsorbedAll ==
    ASSUME NEW T, NEW data \in Seq(Bytes(T))
    PROVE  StockAbsorb(Fresh, data) = Absorbed(data)
<1>1. Fresh \in Nodes(T)
  BY FreshNode
<1>2. StockAbsorb(Fresh, data) = Bytewise(Fresh, data)
  BY <1>1, BothBytewise
<1>3. QED
  BY <1>2, Zenon DEF Absorbed

\* The value of a sealed leaf goes on in the final node.
LEMMA StockLeafInto ==
    ASSUME NEW length \in Nat, NEW k \in 0 .. LastOf(length), k # 0,
           NEW node, node = Absorbed(PartOf(length, k)),
           NEW tree, tree = Absorbed(TreeOf(length, k - 1))
    PROVE  AbsorbSealed(tree, Seal(node, 11)) = Absorbed(TreeOf(length, k))
<1> DEFINE before == TreeOf(length, k - 1)
           value == ValueOf(length, k)
           leaf == Seal(node, 11)
<1>1. LastOf(length) \in Nat
  BY ValuesAre
<1>2. k - 1 \in 0 .. LastOf(length) /\ k \in Nat
  BY <1>1
<1>3. before \in Seq(Bytes(Tokens)) /\ value \in Seq(Bytes(Tokens))
  BY <1>2, StringsAre, LettersAre
<1>4. Output(leaf, Cap) = value
  BY SealsLeaf
<1>5. AbsorbLeaf(tree, leaf) = Absorbed(TreeOf(length, k))
  BY LeafInto
<1> HIDE DEF before, value, leaf
<1>6. tree = Absorbed(before)
  BY DEF before
<1>7. StockAbsorb(tree, value) = KangarooTwelve_F_Absorb(tree, value) /\ StockAbsorb(tree, value) = Absorbed(Then(before, value))
  BY <1>3, <1>6, StockAbsorbedOn
<1>8. AbsorbSealed(tree, leaf) = AbsorbLeaf(tree, leaf)
  BY <1>4, <1>7, Zenon DEF AbsorbSealed, AbsorbLeaf
<1>9. QED
  BY <1>5, <1>8 DEF leaf

\* The tree's record, and the loop's state with it.
Tree(node, queue0, blocks, open) == [final |-> node, queue |-> queue0, blocks |-> blocks, open |-> open]
InLoop(tree, from) == [tree |-> tree, from |-> from]

\* The node of the leaf before leaf k, as sealing left it.
SealedQueue(length, k) ==
    IF k = 1 THEN Garbage ELSE [Seal(Absorbed(PartOf(length, k - 1)), 11) EXCEPT !.byteIOIndex = Cap]

\* Between the leaves, and at the end of the loop: a last part shorter than a chunk
\* stays open.
LeafAt(length, k) ==
    InLoop(Tree(Absorbed(TreeOf(length, k - 1)), SealedQueue(length, k), k, 0), k * Chunk)
Open(length) == length - LastOf(length) * Chunk
LoopEnd(length) ==
    LET last == LastOf(length)
    IN  IF Open(length) = 0 THEN LeafAt(length, last)
        ELSE InLoop(Tree(Absorbed(TreeOf(length, last - 1)), Absorbed(Message(last * Chunk, Open(length))), last, Open(length)),
                    length)
LoopAt(length, k) == IF k <= LastOf(length) THEN LeafAt(length, k) ELSE LoopEnd(length)

\* A whole leaf is sealed, its value absorbed and counted.
LEMMA SealsInto ==
    ASSUME NEW length \in Nat, NEW k \in 0 .. LastOf(length), k # 0, NEW rec, NEW q, NEW open,
           rec = Tree(Absorbed(TreeOf(length, k - 1)), q, k, open),
           NEW node, node = Absorbed(PartOf(length, k))
    PROVE  SealedInto(rec, node) = Tree(Absorbed(TreeOf(length, k)), [Seal(node, 11) EXCEPT !.byteIOIndex = Cap], k + 1, open)
<1> DEFINE tree == Absorbed(TreeOf(length, k - 1))
           leaf == Seal(node, 11)
<1>1. AbsorbSealed(tree, leaf) = Absorbed(TreeOf(length, k))
  BY StockLeafInto
<1> HIDE DEF tree
<1>2. rec = Tree(tree, q, k, open)
  BY DEF tree
<1>3. rec.final = tree /\ rec.blocks = k /\ rec.open = open
  BY <1>2 DEF Tree
<1>4. SealedInto(rec, node) = [final |-> AbsorbSealed(rec.final, leaf), queue |-> [leaf EXCEPT !.byteIOIndex = Cap],
                             blocks |-> rec.blocks + 1, open |-> rec.open]
  BY Zenon DEF SealedInto
<1>5. QED
  BY <1>1, <1>3, <1>4, Zenon DEF Tree

\* One turn of the loop over the leaves.
LEMMA LeafTurnIs ==
    ASSUME NEW length \in Nat, NEW k \in Nat, k # 0, LastOf(length) # 0
    PROVE  LeafTurn(length, LoopAt(length, k)) = LoopAt(length, k + 1)
<1> DEFINE last == LastOf(length)
           s == LoopAt(length, k)
           left == length - s.from
           n == IF left < Chunk THEN left ELSE Chunk
           node == StockAbsorb(Fresh, Message(s.from, n))
<1>1. last \in Nat /\ Chunk \in Nat /\ Chunk > 0
  BY ValuesAre, Sizes
<1>2. LeafTurn(length, s) =
        IF s.from = length THEN s
        ELSE [tree |-> IF n = Chunk THEN SealedInto(s.tree, node) ELSE [s.tree EXCEPT !.queue = node, !.open = n],
              from |-> s.from + n]
  BY Zenon DEF LeafTurn
<1>3. last * Chunk \in Nat /\ last * Chunk <= length
  <2>1. length = Chunk * last + (length % Chunk) /\ length % Chunk \in Nat
    BY <1>1, DivMod DEF LastOf
  <2>2. last * Chunk = Chunk * last /\ Chunk * last \in Nat
    <3> HIDE DEF last
    <3>1. QED
      BY <1>1
  <2>3. QED
    <3> DEFINE rest == length % Chunk
               high == Chunk * last
    <3> HIDE DEF rest, high, last
    <3>1. length = high + rest /\ rest \in Nat /\ high \in Nat /\ last * Chunk = high
      BY <2>1, <2>2 DEF rest, high
    <3>2. QED
      BY <3>1
<1>4. Open(length) = length - last * Chunk /\ Open(length) \in Nat /\ Open(length) < Chunk
  <2>1. length - last * Chunk < Chunk <=> last = LastOf(length)
    BY <1>1, <1>3, ChunksFit
  <2>2. Open(length) = length - last * Chunk
    BY DEF Open
  <2>3. length - last * Chunk < Chunk
    BY <2>1
  <2> DEFINE low == last * Chunk
  <2> HIDE DEF low
  <2>4. length - low \in Nat
    BY <1>3 DEF low
  <2>5. QED
    BY <2>2, <2>3, <2>4 DEF low
<1>5. LoopEnd(length).from = length
  <2>1. CASE Open(length) = 0
    <3>1. last * Chunk = length
      <4> DEFINE low == last * Chunk
      <4>1. low \in Nat /\ 0 = length - low
        BY <1>3, <1>4, <2>1
      <4> HIDE DEF low
      <4>2. low = length
        BY <4>1
      <4>3. QED
        BY <4>2 DEF low
    <3>2. LoopEnd(length) = LeafAt(length, last)
      BY <2>1, Zenon DEF LoopEnd
    <3>3. LeafAt(length, last).from = last * Chunk
      BY DEF LeafAt, InLoop
    <3>4. QED
      BY <3>1, <3>2, <3>3, Zenon
  <2>2. CASE Open(length) # 0
    <3>1. LoopEnd(length) = InLoop(Tree(Absorbed(TreeOf(length, last - 1)), Absorbed(Message(last * Chunk, Open(length))), last,
                                        Open(length)), length)
      BY <2>2, Zenon DEF LoopEnd
    <3>2. \A x, y : InLoop(x, y).from = y
      BY DEF InLoop
    <3>3. QED
      BY <3>1, <3>2, Zenon
  <2>3. QED
    BY <2>1, <2>2
<1> HIDE DEF last
<1>6. CASE k > last
  <2>1. s = LoopEnd(length) /\ LoopAt(length, k + 1) = LoopEnd(length)
    <3>1. ~ (k <= last) /\ ~ (k + 1 <= last)
      BY <1>1, <1>6
    <3>2. QED
      BY <3>1, Zenon DEF LoopAt, last
  <2>2. s.from = length
    BY <1>5, <2>1, Zenon
  <2> HIDE DEF s
  <2>3. QED
    BY <1>2, <2>1, <2>2, Zenon DEF s
<1>7. CASE k <= last
  <2> DEFINE low == k * Chunk
             tree == Tree(Absorbed(TreeOf(length, k - 1)), SealedQueue(length, k), k, 0)
  <2>1. s = InLoop(tree, low)
    BY <1>7, Zenon DEF LoopAt, LeafAt, last
  <2>2. s.from = low /\ s.tree = tree
    <3> HIDE DEF s, tree, low
    <3>1. QED
      BY <2>1 DEF InLoop
  <2>3. low \in Nat /\ low <= length /\ (k + 1) * Chunk = low + Chunk
    <3>1. low \in Nat /\ (k + 1) * Chunk = low + Chunk
      BY <1>1
    <3>2. CASE k = last
      BY <1>3, <3>1, <3>2
    <3>3. CASE k < last
      <4>1. k * Chunk + Chunk <= last * Chunk
        BY <1>1, <3>3, Below
      <4> DEFINE high == last * Chunk
      <4>2. low + Chunk <= high /\ high \in Nat /\ high <= length
        BY <1>3, <4>1
      <4> HIDE DEF low, high
      <4>3. low <= length
        BY <1>1, <3>1, <4>2
      <4>4. QED
        BY <3>1, <4>3
    <3>4. QED
      BY <1>1, <1>7, <3>2, <3>3
  <2>4. /\ k \in 0 .. last /\ (length - low < Chunk <=> k = last)
        /\ length - low >= Chunk => k + 1 \in 0 .. last
    BY <2>3, ChunksFit DEF last
  <2> HIDE DEF s, tree
  <2>5. CASE k # last
    <3>1. length - low >= Chunk /\ low # length /\ k + 1 <= last
      <4> HIDE DEF low
      <4>1. QED
        BY <1>1, <1>7, <2>3, <2>4, <2>5
    <3>2. n = Chunk /\ s.from # length
      <4> HIDE DEF low
      <4>1. left = length - low /\ ~ (left < Chunk)
        BY <1>1, <2>2, <2>3, <3>1
      <4>2. n = Chunk
        BY <4>1, Zenon
      <4>3. QED
        BY <2>2, <3>1, <4>2
    <3> DEFINE part == PartOf(length, k)
               m == Message(low, Chunk)
    <3>3. part = m /\ m \in Seq(Bytes(Tokens))
      <4>1. {} \in Bytes(Tokens) /\ \A i \in Nat : {<<"m", i>>} \in Bytes(Tokens)
        BY LettersAre
      <4>2. k \in 0 .. LastOf(length) /\ k # LastOf(length)
        BY <2>4, <2>5 DEF last
      <4>3. part = m
        BY <4>1, <4>2, PartIs
      <4>4. part \in Seq(Bytes(Tokens))
        BY <4>2, StringsAre
      <4>5. QED
        BY <4>3, <4>4, Zenon
    <3>4. node = Absorbed(part)
      <4> HIDE DEF m, part
      <4>1. StockAbsorb(Fresh, m) = Absorbed(m)
        BY <3>3, StockAbsorbedAll
      <4>2. node = StockAbsorb(Fresh, m)
        BY <2>2, <3>2, Zenon DEF m
      <4>3. QED
        BY <3>3, <4>1, <4>2, Zenon
    <3> HIDE DEF m, node, part, n
    <3>5. SealedInto(tree, node) = Tree(Absorbed(TreeOf(length, k)), [Seal(node, 11) EXCEPT !.byteIOIndex = Cap], k + 1, 0)
      <4> DEFINE q == SealedQueue(length, k)
                 zero == 0
      <4>1. tree = Tree(Absorbed(TreeOf(length, k - 1)), q, k, zero)
        BY DEF tree
      <4>2. k \in 0 .. LastOf(length)
        BY <2>4 DEF last
      <4> HIDE DEF q, zero
      <4>3. SealedInto(tree, node) = Tree(Absorbed(TreeOf(length, k)), [Seal(node, 11) EXCEPT !.byteIOIndex = Cap], k + 1, zero)
        BY <3>4, <4>1, <4>2, SealsInto DEF part
      <4>4. QED
        BY <4>3 DEF zero
    <3>6. k + 1 - 1 = k /\ k + 1 # 1
      OBVIOUS
    <3>7. SealedQueue(length, k + 1) = [Seal(node, 11) EXCEPT !.byteIOIndex = Cap]
      <4> DEFINE next == k + 1
      <4>1. next # 1 /\ next - 1 = k
        BY <3>6
      <4> HIDE DEF next
      <4>2. SealedQueue(length, next) = [Seal(Absorbed(PartOf(length, next - 1)), 11) EXCEPT !.byteIOIndex = Cap]
        BY <4>1, Zenon DEF SealedQueue
      <4>3. Absorbed(PartOf(length, next - 1)) = node
        BY <3>4, <4>1 DEF part
      <4>4. QED
        BY <4>2, <4>3 DEF next
    <3>8. LoopAt(length, k + 1) = InLoop(SealedInto(tree, node), low + Chunk)
      <4> DEFINE next == k + 1
                 zero == 0
                 sealed == [Seal(node, 11) EXCEPT !.byteIOIndex = Cap]
      <4>1. next <= last /\ next - 1 = k /\ next * Chunk = low + Chunk
        BY <2>3, <3>1, <3>6
      <4>2. SealedQueue(length, next) = sealed
        BY <3>7
      <4>3. SealedInto(tree, node) = Tree(Absorbed(TreeOf(length, k)), sealed, next, zero)
        BY <3>5
      <4> HIDE DEF next, zero, sealed, low
      <4>4. LoopAt(length, next) = LeafAt(length, next)
        BY <4>1, Zenon DEF LoopAt, last
      <4>5. LeafAt(length, next) = InLoop(Tree(Absorbed(TreeOf(length, next - 1)), SealedQueue(length, next), next, zero), next * Chunk)
        BY Zenon DEF LeafAt, zero
      <4>6. QED
        BY <4>1, <4>2, <4>3, <4>4, <4>5 DEF next
    <3>9. LeafTurn(length, s) = InLoop(SealedInto(tree, node), low + Chunk)
      BY <1>2, <2>2, <3>2, Zenon DEF InLoop
    <3>10. QED
      BY <3>8, <3>9 DEF s
  <2>6. CASE k = last /\ Open(length) = 0
    <3>1. low = length
      <4>1. 0 = length - low
        BY <1>4, <2>6
      <4> HIDE DEF low
      <4>2. QED
        BY <2>3, <4>1
    <3>2. s.from = length
      BY <2>2, <3>1, Zenon
    <3>3. LeafTurn(length, s) = s
      BY <1>2, <3>2, Zenon
    <3>4. s = LeafAt(length, last)
      BY <2>1, <2>6, Zenon DEF tree, LeafAt
    <3>5. ~ (k + 1 <= last)
      BY <1>1, <2>6
    <3>6. LoopAt(length, k + 1) = LeafAt(length, last)
      BY <2>6, <3>5, Zenon DEF LoopAt, LoopEnd, last
    <3>7. QED
      BY <3>3, <3>4, <3>6 DEF s
  <2>7. CASE k = last /\ Open(length) # 0
    <3>1. length - low = Open(length) /\ low # length
      <4>1. Open(length) = length - low
        BY <1>4, <2>7
      <4> HIDE DEF low
      <4>2. QED
        BY <1>4, <2>3, <2>7, <4>1
    <3>2. n = Open(length) /\ n # Chunk /\ s.from # length /\ s.from + n = length
      <4>1. left = Open(length) /\ left < Chunk
        BY <1>4, <2>2, <3>1
      <4>2. n = left
        BY <4>1, Zenon
      <4> HIDE DEF low, left, n
      <4>3. n # Chunk
        BY <1>1, <1>4, <4>1, <4>2
      <4>4. s.from + n = length
        BY <2>2, <2>3, <3>1, <4>1, <4>2
      <4>5. QED
        BY <2>2, <3>1, <4>1, <4>2, <4>3, <4>4
    <3> DEFINE m == Message(low, Open(length))
    <3>3. node = Absorbed(m)
      <4>1. m \in Seq(Bytes(Tokens))
        <5>1. \A i \in Nat : {<<"m", i>>} \in Bytes(Tokens)
          BY LettersAre
        <5> HIDE DEF low
        <5>2. QED
          BY <1>4, <2>3, <5>1, MessageType
      <4>2. node = StockAbsorb(Fresh, m)
        BY <2>2, <3>2, Zenon
      <4> HIDE DEF m
      <4>3. StockAbsorb(Fresh, m) = Absorbed(m)
        BY <4>1, StockAbsorbedAll
      <4>4. QED
        BY <4>2, <4>3, Zenon
    <3> HIDE DEF m, node, n
    <3>4. [tree EXCEPT !.queue = node, !.open = n] = Tree(Absorbed(TreeOf(length, k - 1)), node, k, n)
      <4> DEFINE f == Absorbed(TreeOf(length, k - 1))
                 q == SealedQueue(length, k)
                 zero == 0
      <4>1. tree = Tree(f, q, k, zero)
        BY DEF tree
      <4> HIDE DEF f, q, zero
      <4>2. [tree EXCEPT !.queue = node, !.open = n] = Tree(f, node, k, n)
        <5>1. [Tree(f, q, k, zero) EXCEPT !.queue = node, !.open = n] = Tree(f, node, k, n)
          <6>1. [Tree(f, q, k, zero) EXCEPT !.queue = node, !.open = n] = [[Tree(f, q, k, zero) EXCEPT !.queue = node] EXCEPT !.open = n]
            OBVIOUS
          <6>2. [Tree(f, q, k, zero) EXCEPT !.queue = node] = Tree(f, node, k, zero)
            BY DEF Tree
          <6>3. [Tree(f, node, k, zero) EXCEPT !.open = n] = Tree(f, node, k, n)
            BY DEF Tree
          <6>4. QED
            BY <6>1, <6>2, <6>3, Zenon
        <5>2. QED
          BY <4>1, <5>1, Zenon
      <4>3. QED
        BY <4>2 DEF f
    <3>5. LeafTurn(length, s) = InLoop(Tree(Absorbed(TreeOf(length, k - 1)), node, k, n), length)
      BY <1>2, <2>2, <3>2, <3>4, Zenon DEF InLoop
    <3>6. ~ (k + 1 <= last)
      BY <1>1, <2>7
    <3>7. LoopAt(length, k + 1) = InLoop(Tree(Absorbed(TreeOf(length, k - 1)), Absorbed(m), k, Open(length)), length)
      BY <2>7, <3>6, Zenon DEF LoopAt, LoopEnd, last, m
    <3>8. QED
      BY <3>2, <3>3, <3>5, <3>7, Zenon DEF s
  <2>8. QED
    BY <2>5, <2>6, <2>7
<1>8. QED
  BY <1>1, <1>6, <1>7

\* The loop over the leaves ends with all whole leaves sealed and the last part open.
LEMMA LeafLoopIs ==
    ASSUME NEW length \in Nat, LastOf(length) # 0, NEW tree, tree = Tree(Absorbed(TreeOf(length, 0)), Garbage, 1, 0)
    PROVE  LeafLoop(tree, Chunk, length) = LoopEnd(length).tree
<1> DEFINE turns == length \div Chunk + 1
           x == [tree |-> tree, from |-> Chunk]
           Body(f) == [k \in 0 .. turns |-> IF k = 0 THEN x ELSE LeafTurn(length, f[k - 1])]
           loop == CHOOSE f : f = Body(f)
           w == [k \in 0 .. turns |-> LoopAt(length, k + 1)]
<1>1. LastOf(length) \in Nat /\ Chunk \in Nat
  BY ValuesAre, Sizes
<1>2. turns = LastOf(length) + 1
  BY DEF LastOf
<1>3. LeafLoop(tree, Chunk, length) = loop[turns].tree
  BY Zenon DEF LeafLoop, Loop
<1>4. x = LoopAt(length, 1)
  <2> DEFINE one == 1
             zero == 0
  <2>1. one <= LastOf(length) /\ one - 1 = zero /\ one * Chunk = Chunk
    BY <1>1
  <2>2. SealedQueue(length, one) = Garbage
    BY DEF SealedQueue
  <2>3. tree = Tree(Absorbed(TreeOf(length, zero)), Garbage, one, zero)
    OBVIOUS
  <2>4. x = InLoop(tree, Chunk)
    BY DEF InLoop
  <2> HIDE DEF one, x
  <2>5. LoopAt(length, one) = LeafAt(length, one)
    BY <2>1, Zenon DEF LoopAt
  <2>6. LeafAt(length, one) = InLoop(Tree(Absorbed(TreeOf(length, one - 1)), SealedQueue(length, one), one, zero), one * Chunk)
    BY Zenon DEF LeafAt
  <2> HIDE DEF zero
  <2>7. QED
    BY <2>1, <2>2, <2>3, <2>4, <2>5, <2>6 DEF one
<1>5. turns \in Nat
  BY <1>1, <1>2
<1> HIDE DEF turns, x
<1>6. ASSUME NEW k \in 0 .. turns, k # 0
      PROVE  LoopAt(length, k + 1) = LeafTurn(length, LoopAt(length, k)) /\ k - 1 \in 0 .. turns /\ k - 1 + 1 = k
  <2>1. k \in Nat /\ k - 1 \in 0 .. turns /\ k - 1 + 1 = k
    BY <1>5, <1>6
  <2>2. LeafTurn(length, LoopAt(length, k)) = LoopAt(length, k + 1)
    BY <1>6, <2>1, LeafTurnIs
  <2>3. QED
    BY <2>1, <2>2
<1>7. w = Body(w)
  <2>1. \A k \in 0 .. turns : LoopAt(length, k + 1) = IF k = 0 THEN x ELSE LeafTurn(length, w[k - 1])
    <3> SUFFICES ASSUME NEW k \in 0 .. turns
                 PROVE  LoopAt(length, k + 1) = IF k = 0 THEN x ELSE LeafTurn(length, w[k - 1])
      OBVIOUS
    <3>1. CASE k = 0
      BY <1>4, <3>1
    <3>2. CASE k # 0
      <4>1. w[k - 1] = LoopAt(length, k)
        <5> DEFINE j == k - 1
        <5>1. j \in 0 .. turns /\ j + 1 = k
          BY <1>6, <3>2
        <5> HIDE DEF j
        <5>2. w[j] = LoopAt(length, k)
          BY <5>1
        <5>3. QED
          BY <5>2 DEF j
      <4>2. LoopAt(length, k + 1) = LeafTurn(length, LoopAt(length, k))
        BY <1>6, <3>2
      <4> HIDE DEF w
      <4>3. QED
        BY <3>2, <4>1, <4>2, Zenon
    <3>3. QED
      BY <3>1, <3>2
  <2>2. w = [k \in 0 .. turns |-> LoopAt(length, k + 1)]
    OBVIOUS
  <2> HIDE DEF w
  <2>3. QED
    BY <2>1, <2>2, Zenon
<1> HIDE DEF w
<1>8. loop = Body(loop)
  <2> HIDE DEF Body
  <2>1. QED
    BY <1>7
<1> HIDE DEF loop
<1>9. loop[0] = x /\ \A k \in 1 .. turns : loop[k] = LeafTurn(length, loop[k - 1])
  BY <1>5, <1>8
<1> DEFINE Same == {k \in 0 .. turns : loop[k] = LoopAt(length, k + 1)}
<1>10. 0 \in Same
  BY <1>4, <1>5, <1>9
<1>11. \A k \in 0 .. turns - 1 : k \in Same => k + 1 \in Same
  <2> SUFFICES ASSUME NEW k \in 0 .. turns - 1, k \in Same PROVE k + 1 \in Same
    OBVIOUS
  <2> DEFINE j == k + 1
  <2>1. j \in 1 .. turns /\ j \in 0 .. turns /\ j # 0 /\ j - 1 = k
    BY <1>5
  <2>2. loop[k] = LoopAt(length, j)
    OBVIOUS
  <2> HIDE DEF j
  <2>3. loop[j] = LeafTurn(length, LoopAt(length, j))
    BY <1>9, <2>1, <2>2
  <2>4. LoopAt(length, j + 1) = LeafTurn(length, LoopAt(length, j))
    BY <1>6, <2>1
  <2>5. j \in Same
    BY <2>1, <2>3, <2>4
  <2>6. QED
    BY <2>5 DEF j
<1>12. turns \in 0 .. turns
  BY <1>5
<1> HIDE DEF Same
<1>13. turns \in Same
  <2>1. \A k \in 0 .. turns : k \in Same
    BY <1>5, <1>10, <1>11, UpTo
  <2>2. QED
    BY <1>12, <2>1
<1>14. loop[turns] = LoopAt(length, turns + 1)
  BY <1>13 DEF Same
<1>15. LoopAt(length, turns + 1) = LoopEnd(length)
  <2>1. ~ (turns + 1 <= LastOf(length))
    BY <1>1, <1>2
  <2>2. QED
    BY <2>1, Zenon DEF LoopAt
<1>16. QED
  BY <1>3, <1>14, <1>15, Zenon

\* The last leaf is open and is the last part of the string, or all are in the final
\* node.
AtEnd(length, rec) ==
    LET last == LastOf(length)
    IN  \/ /\ rec.open # 0 /\ rec.blocks = last /\ rec.final = Absorbed(TreeOf(length, last - 1))
           /\ rec.queue = Absorbed(PartOf(length, last))
        \/ rec.open = 0 /\ rec.blocks = last + 1 /\ rec.final = Absorbed(TreeOf(length, last))

\* The zero that ends the message.
LEMMA EndOfMessageIs ==
    ASSUME NEW length \in Nat, LastOf(length) # 0
    PROVE  AtEnd(length, EndOfMessage(LoopEnd(length).tree))
<1> DEFINE last == LastOf(length)
           low == last * Chunk
           n == Open(length)
           part == PartOf(length, last)
           m == Message(low, n)
           f == Absorbed(TreeOf(length, last - 1))
           q == SealedQueue(length, last)
           zero == 0
           tree == LoopEnd(length).tree
           node == SkipByte(tree.queue)
<1>1. last \in Nat /\ last # 0 /\ last \in 0 .. last
  <2>1. last \in Nat /\ last # 0
    BY ValuesAre
  <2> HIDE DEF last
  <2>2. QED
    BY <2>1
<1>2. {} \in Bytes(Tokens) /\ \A i \in Nat : {<<"m", i>>} \in Bytes(Tokens)
  BY LettersAre
<1>3. low \in Nat /\ part = Then(Message(low, length - low), <<{}>>) /\ length - low \in 0 .. Chunk - 1
  BY <1>1, <1>2, PartIs
<1>4. n = length - low /\ n \in Nat
  <2>1. n = length - low
    BY DEF Open
  <2> HIDE DEF n, low
  <2>2. QED
    BY <1>3, <2>1, Sizes
<1>5. part = Then(m, <<{}>>)
  <2> HIDE DEF n, low, part
  <2>1. QED
    BY <1>3, <1>4, Zenon
<1>6. tree.open = n /\ tree.final = f /\ tree.blocks = last
      /\ tree = (IF n = 0 THEN Tree(f, q, last, zero) ELSE Tree(f, Absorbed(m), last, n))
  <2>1. tree = (IF n = 0 THEN Tree(f, q, last, zero) ELSE Tree(f, Absorbed(m), last, n))
    <3>1. CASE n = 0
      <4>1. LoopEnd(length) = LeafAt(length, last)
        BY <3>1, Zenon DEF LoopEnd
      <4>2. LeafAt(length, last) = InLoop(Tree(f, q, last, zero), low)
        BY Zenon DEF LeafAt
      <4> DEFINE t == Tree(f, q, last, zero)
      <4> HIDE DEF t, low
      <4>3. InLoop(t, low).tree = t
        BY DEF InLoop
      <4>4. tree = t
        BY <4>1, <4>2, <4>3, Zenon DEF t
      <4>5. QED
        BY <3>1, <4>4, Zenon DEF t
    <3>2. CASE n # 0
      <4>1. LoopEnd(length) = InLoop(Tree(f, Absorbed(m), last, n), length)
        BY <3>2, Zenon DEF LoopEnd
      <4> DEFINE t == Tree(f, Absorbed(m), last, n)
      <4> HIDE DEF t
      <4>2. InLoop(t, length).tree = t
        BY DEF InLoop
      <4>3. tree = t
        BY <4>1, <4>2, Zenon DEF t
      <4>4. QED
        BY <3>2, <4>3, Zenon DEF t
    <3>3. QED
      BY <3>1, <3>2
  <2> HIDE DEF tree, f, q, last, m, n
  <2>2. \A x, y : Tree(f, x, last, y).open = y /\ Tree(f, x, last, y).final = f /\ Tree(f, x, last, y).blocks = last
    BY DEF Tree
  <2>3. n = 0 => n = zero
    OBVIOUS
  <2> HIDE DEF zero
  <2>4. QED
    BY <2>1, <2>2, <2>3, Zenon
<1>7. EndOfMessage(tree) =
        IF tree.open = 0 THEN [tree EXCEPT !.queue = OneZero, !.open = 1]
        ELSE IF tree.open + 1 = Chunk THEN [SealedInto(tree, node) EXCEPT !.open = 0]
        ELSE [tree EXCEPT !.queue = node, !.open = tree.open + 1]
  BY Zenon DEF EndOfMessage
<1> DEFINE rec == EndOfMessage(tree)
<1>8. CASE n = 0
  <2>1. part = <<{}>>
    <3>1. Message(low, 0) = <<>>
      BY DEF Message
    <3>2. <<>> \o <<{}>> = <<{}>>
      OBVIOUS
    <3> HIDE DEF part, low, n
    <3>3. QED
      BY <1>5, <1>8, <3>1, <3>2, Zenon DEF Then
  <2> DEFINE one == 1
             pending == OneZero
  <2>2. rec = [Tree(f, q, last, zero) EXCEPT !.queue = pending, !.open = one]
    <3> HIDE DEF n, f, q, last, zero, tree, node
    <3>1. QED
      BY <1>6, <1>7, <1>8, Zenon
  <2>3. [Tree(f, q, last, zero) EXCEPT !.queue = pending, !.open = one] = Tree(f, pending, last, one)
    <3> HIDE DEF f, q, last, zero, pending, one
    <3>1. [Tree(f, q, last, zero) EXCEPT !.queue = pending, !.open = one]
            = [[Tree(f, q, last, zero) EXCEPT !.queue = pending] EXCEPT !.open = one]
      OBVIOUS
    <3>2. [Tree(f, q, last, zero) EXCEPT !.queue = pending] = Tree(f, pending, last, zero)
      BY DEF Tree
    <3>3. [Tree(f, pending, last, zero) EXCEPT !.open = one] = Tree(f, pending, last, one)
      BY DEF Tree
    <3>4. QED
      BY <3>1, <3>2, <3>3, Zenon
  <2>4. one # 0
    OBVIOUS
  <2>5. pending = Absorbed(part)
    BY <2>1, OneZeroIs
  <2> HIDE DEF f, q, last, zero, pending, one, rec, part
  <2>6. rec.open = one /\ rec.blocks = last /\ rec.final = f /\ rec.queue = pending
    BY <2>2, <2>3 DEF Tree
  <2>7. QED
    BY <2>4, <2>5, <2>6, Zenon DEF AtEnd, f, last, part, rec
<1>9. ASSUME n # 0 PROVE tree = Tree(f, Absorbed(m), last, n) /\ tree.queue = Absorbed(m) /\ node = Absorbed(part)
  <2>1. tree = Tree(f, Absorbed(m), last, n)
    <3> HIDE DEF n, f, q, last, zero, tree, m
    <3>1. QED
      BY <1>6, <1>9, Zenon
  <2>2. tree.queue = Absorbed(m)
    <3> HIDE DEF n, f, last, tree, m
    <3>1. QED
      BY <2>1 DEF Tree
  <2>3. m \in Seq(Bytes(Tokens))
    <3> HIDE DEF n, low
    <3>1. QED
      BY <1>2, <1>3, <1>4, MessageType
  <2> HIDE DEF m, tree, part
  <2>4. SkipByte(tree.queue) = Absorbed(Then(m, <<{}>>))
    BY <2>2, <2>3, SkipIsZero
  <2>5. QED
    BY <1>5, <2>1, <2>2, <2>4, Zenon
<1>10. CASE n # 0 /\ n + 1 = Chunk
  <2> DEFINE sealed == Tree(Absorbed(TreeOf(length, last)), [Seal(node, 11) EXCEPT !.byteIOIndex = Cap], last + 1, n)
  <2>1. SealedInto(tree, node) = sealed
    <3>1. tree = Tree(Absorbed(TreeOf(length, last - 1)), Absorbed(m), last, n) /\ node = Absorbed(PartOf(length, last))
      BY <1>9, <1>10
    <3>2. last \in 0 .. LastOf(length) /\ last # 0
      BY <1>1
    <3> DEFINE pending == Absorbed(m)
    <3> HIDE DEF tree, node, m, n, last, pending
    <3>3. tree = Tree(Absorbed(TreeOf(length, last - 1)), pending, last, n)
      BY <3>1 DEF pending
    <3>4. SealedInto(tree, node) = Tree(Absorbed(TreeOf(length, last)), [Seal(node, 11) EXCEPT !.byteIOIndex = Cap], last + 1, n)
      BY <3>1, <3>2, <3>3, SealsInto
    <3>5. QED
      BY <3>4
  <2>2. rec = [sealed EXCEPT !.open = 0]
    <3> HIDE DEF n, tree, node, sealed
    <3>1. QED
      BY <1>6, <1>7, <1>10, <2>1, Zenon
  <2> DEFINE all == Absorbed(TreeOf(length, last))
             closed == [Seal(node, 11) EXCEPT !.byteIOIndex = Cap]
             next == last + 1
  <2>3. sealed = Tree(all, closed, next, n)
    OBVIOUS
  <2> HIDE DEF all, closed, next, n, sealed, rec
  <2>4. rec.open = 0 /\ rec.blocks = next /\ rec.final = all
    <3>1. [Tree(all, closed, next, n) EXCEPT !.open = 0] = Tree(all, closed, next, 0)
      BY DEF Tree
    <3>2. rec = Tree(all, closed, next, 0)
      BY <2>2, <2>3, <3>1, Zenon
    <3>3. QED
      BY <3>2 DEF Tree
  <2>5. QED
    BY <2>4, Zenon DEF AtEnd, all, next, rec
<1>11. CASE n # 0 /\ n + 1 # Chunk
  <2> DEFINE next == n + 1
             pending == Absorbed(m)
  <2>1. rec = [Tree(f, pending, last, n) EXCEPT !.queue = node, !.open = next]
    <3>1. tree = Tree(f, pending, last, n)
      BY <1>9, <1>11
    <3> HIDE DEF n, f, pending, last, tree, node
    <3>2. rec = [tree EXCEPT !.queue = node, !.open = n + 1]
      BY <1>6, <1>7, <1>11, Zenon
    <3>3. QED
      BY <3>1, <3>2, Zenon
  <2>2. node = Absorbed(part)
    BY <1>9, <1>11
  <2>3. next # 0
    <3> HIDE DEF n
    <3>1. QED
      BY <1>4
  <2> HIDE DEF n, f, pending, last, node, next, rec, part
  <2>4. [Tree(f, pending, last, n) EXCEPT !.queue = node, !.open = next] = Tree(f, node, last, next)
    <3>1. [Tree(f, pending, last, n) EXCEPT !.queue = node, !.open = next]
            = [[Tree(f, pending, last, n) EXCEPT !.queue = node] EXCEPT !.open = next]
      OBVIOUS
    <3>2. [Tree(f, pending, last, n) EXCEPT !.queue = node] = Tree(f, node, last, n)
      BY DEF Tree
    <3>3. [Tree(f, node, last, n) EXCEPT !.open = next] = Tree(f, node, last, next)
      BY DEF Tree
    <3>4. QED
      BY <3>1, <3>2, <3>3, Zenon
  <2>5. rec.open = next /\ rec.blocks = last /\ rec.final = f /\ rec.queue = node
    BY <2>1, <2>4 DEF Tree
  <2>6. QED
    BY <2>2, <2>3, <2>5, Zenon DEF AtEnd, f, last, part, rec
<1>12. QED
  BY <1>8, <1>10, <1>11

\* The open leaf, the number of leaves, the suffix.
LEMMA CloseTreeEnds ==
    ASSUME NEW length \in Nat, LastOf(length) # 0, NEW rec, AtEnd(length, rec)
    PROVE  Ends(CloseTree(rec), StringOf(length), SuffixOf(length))
<1> DEFINE last == LastOf(length)
           d == IF rec.open = 0 THEN rec ELSE SealedInto(rec, rec.queue)
           leaf == Seal(rec.queue, 11)
           tree == TreeOf(length, last)
           code == encbuf(last)
           str == StringOf(length)
           node == StockAbsorb(d.final, encbuf(d.blocks - 1))
<1>1. last \in Nat /\ last # 0 /\ last \in 0 .. last
  <2>1. last \in Nat /\ last # 0
    BY ValuesAre
  <2> HIDE DEF last
  <2>2. QED
    BY <2>1
<1>2. d.final = Absorbed(tree) /\ d.blocks - 1 = last
  <2>1. CASE rec.open # 0
    <3>1. rec.blocks = last /\ rec.final = Absorbed(TreeOf(length, last - 1)) /\ rec.queue = Absorbed(PartOf(length, last))
      BY <2>1, Zenon DEF AtEnd
    <3> DEFINE before == rec.final
               pending == rec.queue
               all == AbsorbSealed(before, Seal(pending, 11))
               x == [Seal(pending, 11) EXCEPT !.byteIOIndex = Cap]
               next == rec.blocks + 1
               open == rec.open
    <3>2. all = Absorbed(tree)
      <4>1. before = Absorbed(TreeOf(length, last - 1)) /\ pending = Absorbed(PartOf(length, last))
            /\ last \in 0 .. LastOf(length)
        BY <1>1, <3>1
      <4> HIDE DEF before, pending, last
      <4>2. AbsorbSealed(before, Seal(pending, 11)) = Absorbed(TreeOf(length, last))
        BY <1>1, <4>1, StockLeafInto
      <4>3. QED
        BY <4>2
    <3>3. SealedInto(rec, pending) = [final |-> all, queue |-> x, blocks |-> next, open |-> open]
      BY Zenon DEF SealedInto
    <3>4. d = SealedInto(rec, pending)
      BY <2>1, Zenon
    <3>5. next - 1 = last
      <4> HIDE DEF last
      <4>1. QED
        BY <1>1, <3>1
    <3> HIDE DEF all, x, next, open, pending, d, tree
    <3>6. d.final = all /\ d.blocks = next
      BY <3>3, <3>4
    <3>7. QED
      BY <3>2, <3>5, <3>6
  <2>2. CASE rec.open = 0
    <3>1. rec.blocks = last + 1 /\ rec.final = Absorbed(tree)
      BY <2>2, Zenon DEF AtEnd
    <3>2. d = rec
      BY <2>2, Zenon
    <3>3. rec.blocks - 1 = last
      <4> HIDE DEF last
      <4>1. QED
        BY <1>1, <3>1
    <3> HIDE DEF d, last, tree
    <3>4. QED
      BY <3>1, <3>2, <3>3, Zenon
  <2>3. QED
    BY <2>1, <2>2
<1>3. tree \in Seq(Bytes(Tokens)) /\ code \in Seq(Bytes(Tokens)) /\ str \in Seq(Bytes(Tokens))
  BY <1>1, StringsAre
<1>4. str = Then(tree, code) /\ SuffixOf(length) = 6
  BY <1>1, Zenon DEF StringOf, SuffixOf
<1>5. CloseTree(rec) = XorAt(node, node.byteIOIndex, Byte(6))
  BY Zenon DEF CloseTree
<1>6. node = StockAbsorb(d.final, code)
  <2> HIDE DEF d, last
  <2>1. QED
    BY <1>2, Zenon
<1> DEFINE before == d.final
<1>7. before = Absorbed(tree)
  BY <1>2
<1> HIDE DEF d, tree, code, str, node, before
<1>8. StockAbsorb(before, code) = KangarooTwelve_F_Absorb(before, code) /\ StockAbsorb(before, code) = Absorbed(Then(tree, code))
  BY <1>3, <1>7, StockAbsorbedOn
<1>9. node = Absorbed(str)
  BY <1>4, <1>6, <1>8, Zenon DEF before
<1>10. Ends(XorAt(node, node.byteIOIndex, Byte(6)), str, 6)
  BY <1>3, <1>9, EndsIn
<1>11. QED
  BY <1>4, <1>5, <1>10, Zenon DEF str

\* A message shorter than a chunk, whose index the reference leaves where it is.
LEMMA CloseShortEnds ==
    ASSUME NEW length \in Nat, length < Chunk
    PROVE  Ends(CloseShort(StockAbsorb(Fresh, Message(0, length))), StringOf(length), SuffixOf(length))
<1> DEFINE m == Message(0, length)
           first == Absorbed(m)
           p == first.past
           cur == first.cur
           at == first.byteIOIndex
           str == StringOf(length)
           suffix == SuffixOf(length)
           sign == Byte(7)
           x == Absorbed(str).byteIOIndex
           e == Byte(suffix)
<1>1. m \in Seq(Bytes(Tokens))
  <2>1. (\A i \in Nat : {<<"m", i>>} \in Bytes(Tokens)) /\ 0 \in Nat
    BY LettersAre
  <2>2. QED
    BY <2>1, MessageType
<1>2. StockAbsorb(Fresh, m) = first /\ KangarooTwelve_F_Absorb(Fresh, m) = first
  BY <1>1, StockAbsorbedAll, AbsorbedAll
<1>3. first = Node(p, cur, at)
  <2>1. Fresh \in Nodes(Tokens)
    BY FreshNode
  <2>2. first \in Nodes(Tokens)
    BY <1>1, <2>1, BytewiseType DEF Absorbed
  <2>3. QED
    BY <2>2, NodeIs
<1> DEFINE node == ShortNode(length)
           next == at + 1
<1>4. node = Node(p, cur, next)
  <2>1. node = [KangarooTwelve_F_Absorb(Fresh, m) EXCEPT !.byteIOIndex = @ + 1]
    BY Zenon DEF ShortNode
  <2>2. node = [first EXCEPT !.byteIOIndex = next]
    <3> HIDE DEF node, m, first
    <3>1. QED
      BY <1>2, <2>1, Zenon
  <2> HIDE DEF node, first, p, cur, at, next
  <2>3. [Node(p, cur, at) EXCEPT !.byteIOIndex = next] = Node(p, cur, next)
    BY NodeChanges
  <2>4. QED
    BY <1>3, <2>2, <2>3, Zenon
<1>5. Ends(ShortEnd(node), str, suffix)
  BY ShortEnds
<1>6. ShortEnd(node) = IF node.byteIOIndex = Rate THEN XorAt(KeccakP1600_Permute_12rounds(node), 0, sign)
                       ELSE XorAt(node, node.byteIOIndex, sign)
  BY Zenon DEF ShortEnd
<1>7. CloseShort(first) = IF next = Rate THEN XorAt(KeccakP1600_Permute_12rounds(first), 0, sign)
                          ELSE XorAt(first, next, sign)
  BY Zenon DEF CloseShort
<1> HIDE DEF node, first, p, cur, at, next, str, suffix, sign
<1>8. node.byteIOIndex = next
  BY <1>4, NodeParts
<1> DEFINE y == IF next = Rate THEN 0 ELSE next
           past == IF next = Rate THEN Append(p, cur) ELSE p
           open == IF next = Rate THEN Zeros ELSE cur
<1>9. ShortEnd(node) = Node(past, Onto(open, y, sign), next) /\ CloseShort(first) = Node(past, Onto(open, y, sign), at)
  <2>1. CASE next = Rate
    <3> DEFINE full == Append(p, cur)
               none == 0
    <3>1. past = full /\ open = Zeros /\ y = none
      BY <2>1
    <3>2. KeccakP1600_Permute_12rounds(node) = Node(full, Zeros, next)
          /\ KeccakP1600_Permute_12rounds(first) = Node(full, Zeros, at)
      BY <1>3, <1>4, NodePermuted
    <3>3. ShortEnd(node) = XorAt(KeccakP1600_Permute_12rounds(node), none, sign)
          /\ CloseShort(first) = XorAt(KeccakP1600_Permute_12rounds(first), none, sign)
      BY <1>6, <1>7, <1>8, <2>1, Zenon
    <3> HIDE DEF full, none, past, open, y
    <3>4. XorAt(Node(full, Zeros, next), none, sign) = Node(full, Onto(Zeros, none, sign), next)
          /\ XorAt(Node(full, Zeros, at), none, sign) = Node(full, Onto(Zeros, none, sign), at)
      BY XorAtParts
    <3>5. QED
      BY <3>1, <3>2, <3>3, <3>4, Zenon
  <2>2. CASE next # Rate
    <3>1. past = p /\ open = cur /\ y = next
      BY <2>2
    <3>2. ShortEnd(node) = XorAt(node, next, sign) /\ CloseShort(first) = XorAt(first, next, sign)
      BY <1>6, <1>7, <1>8, <2>2, Zenon
    <3> HIDE DEF past, open, y
    <3>3. XorAt(Node(p, cur, next), next, sign) = Node(p, Onto(cur, next, sign), next)
          /\ XorAt(Node(p, cur, at), next, sign) = Node(p, Onto(cur, next, sign), at)
      BY XorAtParts
    <3>4. QED
      BY <1>3, <1>4, <3>1, <3>2, <3>3, Zenon
  <2>3. QED
    BY <2>1, <2>2
<1> HIDE DEF past, open, y, x, e
<1>10. PICK b : ShortEnd(node) = XorAt(Node(Absorbed(str).past, Absorbed(str).cur, b), x, e)
  BY <1>5, Zenon DEF Ends, x, e
<1> DEFINE block == Onto(open, y, sign)
           before == Absorbed(str).past
           last == Absorbed(str).cur
           same == Onto(last, x, e)
<1> HIDE DEF block, before, last, same
<1>11. Node(past, block, next) = Node(before, same, b)
  <2>1. XorAt(Node(before, last, b), x, e) = Node(before, Onto(last, x, e), b)
    BY XorAtParts
  <2>2. QED
    BY <1>9, <1>10, <2>1, Zenon DEF block, before, last, same
<1>12. past = before /\ block = same
  BY <1>11, NodeParts
<1>13. CloseShort(first) = XorAt(Node(before, last, at), x, e)
  <2>1. XorAt(Node(before, last, at), x, e) = Node(before, Onto(last, x, e), at)
    BY XorAtParts
  <2>2. QED
    BY <1>9, <1>12, <2>1, Zenon DEF block, same
<1>14. Ends(CloseShort(first), str, suffix)
  BY <1>13, Zenon DEF Ends, before, last, x, e
<1>15. QED
  BY <1>2, <1>14, Zenon DEF str, suffix

\* The reference's hash of every length is the definition's.
LEMMA StockIs ==
    ASSUME NEW length \in Nat, NEW node, node = StockKangarooTwelve(length)
    PROVE  [past |-> node.past, cur |-> node.cur] = Reference(length)
<1> DEFINE len == IF Chunk < length THEN Chunk ELSE length
           first == StockAbsorb(Fresh, Message(0, len))
           tree == [final |-> MarkFirstChunk(first), queue |-> Garbage, blocks |-> 1, open |-> 0]
           last == IF len < Chunk THEN CloseShort(first)
                   ELSE CloseTree(EndOfMessage(LeafLoop(tree, len, length)))
           str == StringOf(length)
           suffix == SuffixOf(length)
<1>1. node = KeccakP1600_Permute_12rounds(XorAt(last, Rate - 1, Byte(128)))
  BY Zenon DEF StockKangarooTwelve
<1>2. Chunk \in Nat /\ Chunk > 0
  BY Sizes
<1>3. Ends(last, str, suffix)
  <2>1. CASE length < Chunk
    <3>1. len = length /\ len < Chunk
      BY <1>2, <2>1
    <3>2. Ends(CloseShort(StockAbsorb(Fresh, Message(0, length))), str, suffix)
      BY <2>1, CloseShortEnds
    <3> HIDE DEF len, str, suffix
    <3>3. QED
      BY <3>1, <3>2, Zenon
  <2>2. CASE length >= Chunk
    <3>1. len = Chunk /\ ~ (len < Chunk)
      BY <1>2, <2>2
    <3>2. /\ MarkFirstChunk(KangarooTwelve_F_Absorb(Fresh, Message(0, Chunk))) = Absorbed(TreeOf(length, 0))
          /\ LastOf(length) # 0
      BY <2>2, HeadInto
    <3>3. first = KangarooTwelve_F_Absorb(Fresh, Message(0, Chunk))
      <4> DEFINE m == Message(0, Chunk)
      <4>1. m \in Seq(Bytes(Tokens))
        <5>1. (\A i \in Nat : {<<"m", i>>} \in Bytes(Tokens)) /\ 0 \in Nat
          BY LettersAre
        <5>2. QED
          BY <1>2, <5>1, MessageType
      <4> HIDE DEF m
      <4>2. StockAbsorb(Fresh, m) = Absorbed(m) /\ KangarooTwelve_F_Absorb(Fresh, m) = Absorbed(m)
        BY <4>1, StockAbsorbedAll, AbsorbedAll
      <4> HIDE DEF len
      <4>3. QED
        BY <3>1, <4>2, Zenon DEF m
    <3> DEFINE begin == Tree(Absorbed(TreeOf(length, 0)), Garbage, 1, 0)
    <3>4. tree = begin
      <4>1. MarkFirstChunk(first) = Absorbed(TreeOf(length, 0))
        BY <3>2, <3>3, Zenon
      <4> HIDE DEF first
      <4>2. QED
        BY <4>1, Zenon DEF Tree
    <3>5. LeafLoop(begin, Chunk, length) = LoopEnd(length).tree
      <4> DEFINE b == begin
      <4>1. b = Tree(Absorbed(TreeOf(length, 0)), Garbage, 1, 0)
        OBVIOUS
      <4> HIDE DEF b
      <4>2. LeafLoop(b, Chunk, length) = LoopEnd(length).tree
        BY <3>2, <4>1, LeafLoopIs
      <4>3. QED
        BY <4>2 DEF b
    <3> DEFINE rec == EndOfMessage(LoopEnd(length).tree)
    <3>6. AtEnd(length, rec)
      BY <3>2, EndOfMessageIs
    <3>7. last = CloseTree(rec)
      <4>1. last = CloseTree(EndOfMessage(LeafLoop(tree, len, length)))
        BY <3>1, Zenon
      <4> HIDE DEF tree, len, last, begin
      <4>2. QED
        BY <3>1, <3>4, <3>5, <4>1, Zenon
    <3> HIDE DEF rec
    <3>8. Ends(CloseTree(rec), StringOf(length), SuffixOf(length))
      BY <3>2, <3>6, CloseTreeEnds
    <3>9. QED
      BY <3>7, <3>8, Zenon
  <2>3. QED
    BY <1>2, <2>1, <2>2
<1>4. str \in Seq(Bytes(Tokens)) /\ suffix \in Nat
  BY StringsAre DEF SuffixOf
<1>5. Reference(length) = Sponge(str, suffix)
  BY ReferenceIs
<1> HIDE DEF str, suffix, last
<1>6. [past |-> node.past, cur |-> node.cur] = Sponge(str, suffix)
  BY <1>1, <1>3, <1>4, FinishIs
<1>7. QED
  BY <1>5, <1>6

\* Whatever the length, the reference's hash, down to the lanes that its absorb loop
\* XORs, is KangarooTwelve's definition, too.
THEOREM StockHashesAsDefined == Spec => []StockHashIsK12
<1>1. Init => HashInv
  BY HashBegins
<1>2. HashInv /\ [Next]_vars => HashInv'
  BY HashGoesOn
<1>3. HashInv => StockHashIsK12
  <2> SUFFICES ASSUME total \in Nat
               PROVE  LET node == StockKangarooTwelve(total)
                      IN  [past |-> node.past, cur |-> node.cur] = Reference(total)
    BY DEF HashInv, StockHashIsK12
  <2> DEFINE node == StockKangarooTwelve(total)
  <2>1. node = StockKangarooTwelve(total)
    OBVIOUS
  <2> HIDE DEF node
  <2>2. [past |-> node.past, cur |-> node.cur] = Reference(total)
    BY <2>1, StockIs
  <2>3. QED
    BY <2>2 DEF node
<1>4. QED
  BY <1>1, <1>2, <1>3, PTL DEF Spec
=============================================================================
