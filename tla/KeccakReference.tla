-------------------------- MODULE KeccakReference --------------------------
(***************************************************************************)
(* Keccak-p[1600, 12] as it is defined, over coordinates (x, y) of column  *)
(* and plane, one round per step.  A lane is the set of its one bits.      *)
(***************************************************************************)
EXTENDS Integers, FiniteSetsExt

CONSTANTS Inputs

VARIABLES s, round

vars == <<s, round>>

Coord == (0 .. 4) \X (0 .. 4)

Rotated(lane, n) == {(b + n) % 64 : b \in lane}

Xor3(p, q, r) == SymDiff(SymDiff(p, q), r)

Theta(m) ==
    LET P[x \in 0 .. 4] == Xor3(Xor3(m[<<x, 0>>], m[<<x, 1>>], m[<<x, 2>>]), m[<<x, 3>>], m[<<x, 4>>])
    IN  [q \in Coord |-> Xor3(m[q], P[(q[1] - 1) % 5], Rotated(P[(q[1] + 1) % 5], 1))]

\* The t-th lane on the walk (1, 0) -> (y, 2x + 3y) turns by (t + 1)(t + 2) / 2.
Walk[t \in 0 .. 23] ==
    IF t = 0 THEN <<1, 0>>
    ELSE LET q == Walk[t - 1] IN <<q[2], (2 * q[1] + 3 * q[2]) % 5>>

Rho(m) ==
    [q \in Coord |->
        IF q = <<0, 0>> THEN m[q]
        ELSE LET t == CHOOSE u \in 0 .. 23 : Walk[u] = q
             IN  Rotated(m[q], ((t + 1) * (t + 2)) \div 2)]

Pi(m) == [q \in Coord |-> m[<<(q[1] + 3 * q[2]) % 5, q[1]>>]]

Chi(m) ==
    [q \in Coord |->
        SymDiff(m[q], m[<<(q[1] + 2) % 5, q[2]>>] \ m[<<(q[1] + 1) % 5, q[2]>>])]

\* The register behind the constants: x^8 + x^6 + x^5 + x^4 + 1.
Register[t \in 0 .. 167] ==
    IF t = 0 THEN {0}
    ELSE LET r == {b + 1 : b \in Register[t - 1]}
         IN  IF 8 \in r THEN SymDiff(r, {0, 4, 5, 6, 8}) ELSE r

\* 2^j - 1, the bits the constants may have.
Place == <<0, 1, 3, 7, 15, 31, 63>>

\* The last twelve of the 24 rounds of Keccak-f.
Iota(m, n) ==
    LET bits == {Place[j + 1] : j \in {k \in 0 .. 6 : 0 \in Register[k + 7 * (12 + n)]}}
    IN  [m EXCEPT ![<<0, 0>>] = SymDiff(@, bits)]

KeccakRound(m, n) == Iota(Chi(Pi(Rho(Theta(m)))), n)

Init == s \in Inputs /\ round = 0

Next ==
    /\ round < 12
    /\ s' = KeccakRound(s, round)
    /\ round' = round + 1

Spec == Init /\ [][Next]_vars
=============================================================================
