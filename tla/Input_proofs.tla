---------------------------- MODULE Input_proofs ----------------------------
(***************************************************************************)
(* The input of the guest, for every fixture, every file and every width   *)
(* of the length fields.  First what digits, numbers and packed sequences  *)
(* are, then what the parser and the guest's walk have behind them and     *)
(* ahead of them.  ParseInv says that what is behind the parser is what    *)
(* serialize writes of the fields held; GenuineInv that what is ahead of   *)
(* it is the rest of a fixture, when the file is one; WalkInv and          *)
(* HonestInv say the same of the walk over the frame.                      *)
(* Then the index of the computors' keys: the duplicate check is exact and *)
(* the search finds the computor, for every number of computors.           *)
(* Last the identity that the build bakes: its letters are taken apart and *)
(* put together again, and IdentityInv says what each reader of the file   *)
(* has made of it, for every file.                                         *)
(***************************************************************************)
EXTENDS HostToGuest, PubkeyIndex, Identity, SequenceTheorems, WellFoundedInduction, TLAPS

-----------------------------------------------------------------------------
(* Induction and recursion up to a bound, over sets and functions.         *)

LEMMA UpTo ==
    ASSUME NEW n \in Nat, NEW S, 0 \in S, \A k \in 0 .. n - 1 : k \in S => k + 1 \in S
    PROVE  \A k \in 0 .. n : k \in S
<1> DEFINE Missing == {k \in 0 .. n : k \notin S}
<1> SUFFICES ASSUME Missing # {} PROVE FALSE
  OBVIOUS
<1>1. Missing \in SUBSET Nat
  OBVIOUS
<1>2. PICK k \in Missing : \A x \in Missing : <<x, k>> \notin OpToRel(<, Nat)
  <2> HIDE DEF Missing
  <2>1. QED
    BY <1>1, NatLessThanWellFounded, WFMin
<1>3. k \in 0 .. n /\ k # 0 /\ k \notin S
  BY <1>2
<1>4. k - 1 \in 0 .. n - 1 /\ k - 1 + 1 = k
  BY <1>3
<1>5. k - 1 \in Missing
  BY <1>3, <1>4
<1>6. <<k - 1, k>> \in OpToRel(<, Nat)
  BY <1>3, <1>4 DEF OpToRel
<1>7. QED
  BY <1>2, <1>5, <1>6

\* A recursive definition over 0 .. n has a solution.
Solves(n, S, x, g, f) ==
    /\ f \in [0 .. n -> S]
    /\ f[0] = x
    /\ \A k \in 1 .. n : f[k] = g[k][f[k - 1]]

LEMMA Recursion ==
    ASSUME NEW n \in Nat, NEW S, NEW x \in S, NEW g \in [1 .. n -> [S -> S]]
    PROVE  \E f : Solves(n, S, x, g, f)
<1> DEFINE Solved == {m \in 0 .. n : \E f : Solves(m, S, x, g, f)}
<1>1. Solves(0, S, x, g, [k \in 0 .. 0 |-> x])
  BY DEF Solves
<1>2. ASSUME NEW m \in 0 .. n - 1, NEW f, Solves(m, S, x, g, f)
      PROVE  \E h : Solves(m + 1, S, x, g, h)
  <2> DEFINE h == [k \in 0 .. m + 1 |-> IF k = m + 1 THEN g[m + 1][f[m]] ELSE f[k]]
  <2>1. g[m + 1][f[m]] \in S
    BY <1>2 DEF Solves
  <2>2. h \in [0 .. m + 1 -> S] /\ h[0] = x
    BY <1>2, <2>1 DEF Solves
  <2>3. \A k \in 1 .. m + 1 : h[k] = g[k][h[k - 1]]
    BY <1>2 DEF Solves
  <2>4. Solves(m + 1, S, x, g, h)
    BY <2>2, <2>3 DEF Solves
  <2>5. QED
    BY <2>4
<1>3. 0 \in Solved /\ \A m \in 0 .. n - 1 : m \in Solved => m + 1 \in Solved
  BY <1>1, <1>2
<1>4. n \in Solved
  <2> HIDE DEF Solved
  <2>1. \A k \in 0 .. n : k \in Solved
    BY <1>3, UpTo
  <2>2. QED
    BY <2>1
<1>5. QED
  BY <1>4

\* And only one.
Alike(n, f, h) ==
    /\ f[0] = h[0]
    /\ \A k \in 1 .. n : f[k - 1] = h[k - 1] => f[k] = h[k]

LEMMA OneSolution ==
    ASSUME NEW n \in Nat, NEW f, NEW h, Alike(n, f, h)
    PROVE  \A k \in 0 .. n : f[k] = h[k]
<1> DEFINE Agreed == {k \in 0 .. n : f[k] = h[k]}
<1>0. f[0] = h[0] /\ \A k \in 1 .. n : f[k - 1] = h[k - 1] => f[k] = h[k]
  BY DEF Alike
<1>1. 0 \in Agreed /\ \A k \in 0 .. n - 1 : k \in Agreed => k + 1 \in Agreed
  <2>1. ASSUME NEW k \in 0 .. n - 1, f[k] = h[k]
        PROVE  k + 1 \in 0 .. n /\ f[k + 1] = h[k + 1]
    <3>1. k + 1 \in 1 .. n /\ k + 1 - 1 = k
      OBVIOUS
    <3>2. QED
      BY <1>0, <2>1, <3>1
  <2>2. QED
    BY <1>0, <2>1
<1> HIDE DEF Agreed
<1>2. \A k \in 0 .. n : k \in Agreed
  BY <1>1, UpTo
<1>3. QED
  BY <1>2 DEF Agreed

-----------------------------------------------------------------------------
(* Division by the base of a number system, again and again.               *)

LEMMA DivMod ==
    ASSUME NEW m \in Nat, m > 0, NEW x \in Nat
    PROVE  /\ x % m \in Nat /\ x % m < m /\ x \div m \in Nat
           /\ x = m * (x \div m) + (x % m)
OBVIOUS

LEMMA Multiples ==
    ASSUME NEW m \in Nat, NEW q \in Nat, NEW p \in Nat
    PROVE  /\ m * q \in Nat
           /\ q <= p => m * q <= m * p
           /\ q < p => m * q + m <= m * p
<1>1. m * q \in Nat /\ m * p \in Nat
  OBVIOUS
<1>2. ASSUME NEW d \in Nat, p = q + d PROVE m * p = m * q + m * d /\ m * d \in Nat
  BY <1>2
<1>3. ASSUME q <= p PROVE m * q <= m * p
  <2> DEFINE d == p - q
  <2>1. d \in Nat /\ p = q + d
    BY <1>3
  <2>2. m * p = m * q + m * d /\ m * d \in Nat
    BY <1>2, <2>1
  <2>3. QED
    BY <1>1, <2>2
<1>4. ASSUME q < p PROVE m * q + m <= m * p
  <2> DEFINE d == p - q - 1
  <2> HIDE DEF d
  <2>1. d \in Nat /\ p = q + 1 + d
    BY <1>4 DEF d
  <2>2. m * (q + 1 + d) = m * q + m + m * d /\ m * d \in Nat
    BY <2>1
  <2>3. QED
    BY <1>1, <2>1, <2>2
<1>5. QED
  BY <1>1, <1>3, <1>4

Powers(m, n) ==
    LET power[k \in 0 .. n] == IF k = 0 THEN 1 ELSE m * power[k - 1] IN power

Divisions(m, n, v) ==
    LET rest[k \in 0 .. n] == IF k = 0 THEN v ELSE rest[k - 1] \div m IN rest

LEMMA PowersAre ==
    ASSUME NEW m \in Nat, NEW n \in Nat
    PROVE  /\ Powers(m, n) \in [0 .. n -> Nat] /\ Powers(m, n)[0] = 1
           /\ \A k \in 1 .. n : Powers(m, n)[k] = m * Powers(m, n)[k - 1]
<1> DEFINE g == [k \in 1 .. n |-> [x \in Nat |-> m * x]]
<1>1. g \in [1 .. n -> [Nat -> Nat]]
  OBVIOUS
<1>2. PICK f : Solves(n, Nat, 1, g, f)
  <2> HIDE DEF g
  <2>1. 1 \in Nat
    OBVIOUS
  <2>2. QED
    BY <1>1, <2>1, Recursion
<1>3. f \in [0 .. n -> Nat] /\ f[0] = 1 /\ \A k \in 1 .. n : f[k] = m * f[k - 1]
  <2>1. \A k \in 1 .. n : k - 1 \in 0 .. n
    OBVIOUS
  <2>2. QED
    BY <1>2, <2>1 DEF Solves
<1> DEFINE power[k \in 0 .. n] == IF k = 0 THEN 1 ELSE m * power[k - 1]
<1>4. power = [k \in 0 .. n |-> IF k = 0 THEN 1 ELSE m * power[k - 1]]
  <2>1. \A k \in 0 .. n : f[k] = IF k = 0 THEN 1 ELSE m * f[k - 1]
    BY <1>3
  <2>2. f = [k \in 0 .. n |-> IF k = 0 THEN 1 ELSE m * f[k - 1]]
    BY <1>3, <2>1
  <2>3. QED
    BY <2>2
<1>5. Powers(m, n) = power
  BY DEF Powers
<1> HIDE DEF power
<1>6. power[0] = 1 /\ \A k \in 1 .. n : power[k] = m * power[k - 1]
  <2>1. \A k \in 0 .. n : power[k] = IF k = 0 THEN 1 ELSE m * power[k - 1]
    BY <1>4
  <2>2. 0 \in 0 .. n /\ \A k \in 1 .. n : k \in 0 .. n /\ k # 0
    OBVIOUS
  <2>3. QED
    BY <2>1, <2>2
<1>7. \A k \in 0 .. n : power[k] = f[k]
  <2>1. Alike(n, power, f)
    BY <1>3, <1>6 DEF Alike
  <2>2. QED
    BY <2>1, OneSolution
<1>8. \A k \in 0 .. n : power[k] \in Nat
  BY <1>3, <1>7
<1>9. power \in [0 .. n -> Nat]
  BY <1>4, <1>8
<1>10. QED
  BY <1>5, <1>6, <1>9

LEMMA DivisionsAre ==
    ASSUME NEW m \in Nat, m > 0, NEW n \in Nat, NEW v \in Nat
    PROVE  /\ Divisions(m, n, v) \in [0 .. n -> Nat] /\ Divisions(m, n, v)[0] = v
           /\ \A k \in 1 .. n : Divisions(m, n, v)[k] = Divisions(m, n, v)[k - 1] \div m
<1> DEFINE g == [k \in 1 .. n |-> [x \in Nat |-> x \div m]]
<1>1. g \in [1 .. n -> [Nat -> Nat]]
  OBVIOUS
<1>2. PICK f : Solves(n, Nat, v, g, f)
  <2> HIDE DEF g
  <2>1. QED
    BY <1>1, Recursion
<1>3. f \in [0 .. n -> Nat] /\ f[0] = v /\ \A k \in 1 .. n : f[k] = f[k - 1] \div m
  <2>1. \A k \in 1 .. n : k - 1 \in 0 .. n
    OBVIOUS
  <2>2. QED
    BY <1>2, <2>1 DEF Solves
<1> DEFINE rest[k \in 0 .. n] == IF k = 0 THEN v ELSE rest[k - 1] \div m
<1>4. rest = [k \in 0 .. n |-> IF k = 0 THEN v ELSE rest[k - 1] \div m]
  <2>1. \A k \in 0 .. n : f[k] = IF k = 0 THEN v ELSE f[k - 1] \div m
    BY <1>3
  <2>2. f = [k \in 0 .. n |-> IF k = 0 THEN v ELSE f[k - 1] \div m]
    BY <1>3, <2>1
  <2>3. QED
    BY <2>2
<1>5. Divisions(m, n, v) = rest
  BY DEF Divisions
<1> HIDE DEF rest
<1>6. rest[0] = v /\ \A k \in 1 .. n : rest[k] = rest[k - 1] \div m
  <2>1. \A k \in 0 .. n : rest[k] = IF k = 0 THEN v ELSE rest[k - 1] \div m
    BY <1>4
  <2>2. 0 \in 0 .. n /\ \A k \in 1 .. n : k \in 0 .. n /\ k # 0
    OBVIOUS
  <2>3. QED
    BY <2>1, <2>2
<1>7. \A k \in 0 .. n : rest[k] = f[k]
  <2>1. Alike(n, rest, f)
    BY <1>3, <1>6 DEF Alike
  <2>2. QED
    BY <2>1, OneSolution
<1>8. \A k \in 0 .. n : rest[k] \in Nat
  BY <1>3, <1>7
<1>9. rest \in [0 .. n -> Nat]
  BY <1>4, <1>8
<1>10. QED
  BY <1>5, <1>6, <1>9

\* Nothing is left after n divisions of a number below the n-th power.
Multiplies(m, n, power) ==
    /\ power \in [0 .. n -> Nat] /\ power[0] = 1
    /\ \A k \in 1 .. n : power[k] = m * power[k - 1]

Divides(m, n, rest) ==
    /\ rest \in [0 .. n -> Nat]
    /\ \A k \in 1 .. n : rest[k] = rest[k - 1] \div m

LEMMA NothingDivided ==
    ASSUME NEW m \in Nat, m > 0, NEW n \in Nat,
           NEW power, Multiplies(m, n, power), NEW rest, Divides(m, n, rest), rest[0] < power[n]
    PROVE  rest[n] = 0
<1>0. /\ power \in [0 .. n -> Nat] /\ power[0] = 1
      /\ \A k \in 1 .. n : power[k] = m * power[k - 1]
      /\ rest \in [0 .. n -> Nat]
      /\ \A k \in 1 .. n : rest[k] = rest[k - 1] \div m
  BY DEF Multiplies, Divides
<1> DEFINE Small == {i \in 0 .. n : rest[i] < power[n - i]}
<1>1. ASSUME NEW i \in 0 .. n - 1, rest[i] < power[n - i]
      PROVE  rest[i + 1] < power[n - (i + 1)]
  <2>1. /\ i \in 0 .. n /\ i + 1 \in 1 .. n /\ i + 1 - 1 = i
        /\ n - i \in 1 .. n /\ n - (i + 1) \in 0 .. n /\ n - i - 1 = n - (i + 1)
    OBVIOUS
  <2> DEFINE r == rest[i]  p == power[n - (i + 1)]
  <2>2. rest[i + 1] = r \div m
    BY <1>0, <2>1
  <2>3. power[n - i] = m * p
    BY <1>0, <2>1
  <2>4. r \in Nat /\ p \in Nat /\ r < m * p
    BY <1>0, <1>1, <2>1, <2>3
  <2>5. r \div m < p
    <3> DEFINE q == r \div m  d == r % m
    <3> HIDE DEF r, p
    <3>1. q \in Nat /\ d \in Nat /\ r = m * q + d
      BY <2>4, DivMod
    <3> HIDE DEF q, d
    <3> DEFINE high == m * p  low == m * q
    <3>2. high \in Nat /\ low \in Nat /\ (p <= q => high <= low)
      BY <2>4, <3>1, Multiples
    <3>3. r < high /\ r = low + d
      BY <2>4, <3>1
    <3> HIDE DEF high, low
    <3>4. q < p
      BY <2>4, <3>1, <3>2, <3>3
    <3>5. QED
      BY <3>4 DEF q
  <2>6. QED
    BY <2>2, <2>5
<1>2. 0 \in Small /\ \A i \in 0 .. n - 1 : i \in Small => i + 1 \in Small
  <2>1. 0 \in 0 .. n /\ n - 0 = n /\ \A i \in 0 .. n - 1 : i + 1 \in 0 .. n
    OBVIOUS
  <2>2. QED
    BY <1>1, <2>1
<1>3. n \in Small
  <2> HIDE DEF Small
  <2>1. n \in 0 .. n
    OBVIOUS
  <2>2. QED
    BY <1>2, <2>1, UpTo
<1>4. n - n = 0 /\ n \in 0 .. n
  OBVIOUS
<1>5. rest[n] < 1 /\ rest[n] \in Nat
  BY <1>0, <1>3, <1>4
<1>6. QED
  BY <1>5

-----------------------------------------------------------------------------
(* The u32 fields.                                                         *)

LEMMA Sizes ==
    /\ Radix \in Nat /\ Radix >= 2 /\ Field \in Nat /\ Field >= 1
    /\ 0 \in Byte
    /\ \A v \in Nat : v % Radix \in Byte /\ v \div Radix \in Nat
                      /\ v = Radix * (v \div Radix) + (v % Radix)
<1>1. Radix \in Nat /\ Radix >= 2 /\ Field \in Nat /\ Field >= 1
  BY WordAssumption
<1>2. ASSUME NEW v \in Nat
      PROVE  v % Radix \in Byte /\ v \div Radix \in Nat /\ v = Radix * (v \div Radix) + (v % Radix)
  BY <1>1 DEF Byte
<1>3. QED
  BY <1>1, <1>2 DEF Byte

\* Division undoes one step of Number.
LEMMA Digit ==
    ASSUME NEW b \in Byte, NEW q \in Nat
    PROVE  /\ b + Radix * q \in Nat
           /\ (b + Radix * q) % Radix = b /\ (b + Radix * q) \div Radix = q
<1>1. b \in Nat /\ b < Radix /\ Radix \in Nat /\ Radix >= 2
  BY Sizes DEF Byte
<1>2. QED
  BY <1>1

LEMMA PowerIs ==
    \E power \in [0 .. Field -> Nat] :
        /\ power[0] = 1 /\ \A n \in 1 .. Field : power[n] = Radix * power[n - 1]
        /\ Modulus = power[Field]
<1>1. Modulus = Powers(Radix, Field)[Field]
  BY DEF Modulus, Powers
<1>2. QED
  BY <1>1, Sizes, PowersAre

\* What is left of v after i divisions is what Word takes its digits from.
LEMMA WordIs ==
    ASSUME NEW v \in Nat
    PROVE  \E rest \in [0 .. Field -> Nat] :
               /\ rest[0] = v /\ \A k \in 1 .. Field : rest[k] = rest[k - 1] \div Radix
               /\ Word(v) = [k \in 1 .. Field |-> rest[k - 1] % Radix]
<1> DEFINE rest == Divisions(Radix, Field, v)
<1>1. Word(v) = [k \in 1 .. Field |-> rest[k - 1] % Radix]
  BY DEF Word, Divisions
<1> HIDE DEF rest
<1>2. /\ rest \in [0 .. Field -> Nat] /\ rest[0] = v
      /\ \A k \in 1 .. Field : rest[k] = rest[k - 1] \div Radix
  <2>1. Radix \in Nat /\ Radix > 0 /\ Field \in Nat
    BY Sizes
  <2>2. QED
    BY <2>1, DivisionsAre DEF rest
<1>3. QED
  BY <1>1, <1>2

\* The number of the last n bytes.
LEMMA NumberIs ==
    ASSUME NEW bytes \in Seq(Byte)
    PROVE  \E high \in [0 .. Len(bytes) -> Nat] :
               /\ high[0] = 0
               /\ \A n \in 1 .. Len(bytes) :
                      high[n] = bytes[Len(bytes) - n + 1] + Radix * high[n - 1]
               /\ Number(bytes) = high[Len(bytes)]
<1> DEFINE last == Len(bytes)
           g == [n \in 1 .. last |-> [x \in Nat |-> bytes[last - n + 1] + Radix * x]]
<1>1. last \in Nat /\ \A n \in 1 .. last : bytes[last - n + 1] \in Byte
  <2>1. \A n \in 1 .. last : last - n + 1 \in 1 .. last
    OBVIOUS
  <2>2. QED
    BY <2>1, ElementOfSeq
<1> HIDE DEF last
<1>2. g \in [1 .. last -> [Nat -> Nat]]
  <2>1. \A n \in 1 .. last, x \in Nat : bytes[last - n + 1] + Radix * x \in Nat
    BY <1>1, Sizes, Digit
  <2>2. QED
    BY <2>1
<1>3. PICK f : Solves(last, Nat, 0, g, f)
  <2> HIDE DEF g
  <2>1. 0 \in Nat
    OBVIOUS
  <2>2. QED
    BY <1>1, <1>2, <2>1, Recursion
<1>4. /\ f \in [0 .. last -> Nat] /\ f[0] = 0
      /\ \A n \in 1 .. last : f[n] = bytes[last - n + 1] + Radix * f[n - 1]
  <2>1. \A n \in 1 .. last : n - 1 \in 0 .. last
    BY <1>1
  <2>2. QED
    BY <1>3, <2>1 DEF Solves
<1> DEFINE high[n \in 0 .. last] ==
               IF n = 0 THEN 0 ELSE bytes[last - n + 1] + Radix * high[n - 1]
<1>5. high = [n \in 0 .. last |-> IF n = 0 THEN 0 ELSE bytes[last - n + 1] + Radix * high[n - 1]]
  <2>1. \A n \in 0 .. last : f[n] = IF n = 0 THEN 0 ELSE bytes[last - n + 1] + Radix * f[n - 1]
    BY <1>4
  <2>2. f = [n \in 0 .. last |-> IF n = 0 THEN 0 ELSE bytes[last - n + 1] + Radix * f[n - 1]]
    BY <1>4, <2>1
  <2>3. QED
    BY <2>2
<1>6. Number(bytes) = high[last]
  BY DEF Number, last
<1> HIDE DEF high
<1>7. /\ high[0] = 0
      /\ \A n \in 1 .. last : high[n] = bytes[last - n + 1] + Radix * high[n - 1]
  <2>1. \A n \in 0 .. last :
            high[n] = IF n = 0 THEN 0 ELSE bytes[last - n + 1] + Radix * high[n - 1]
    BY <1>5
  <2>2. 0 \in 0 .. last /\ \A n \in 1 .. last : n \in 0 .. last /\ n # 0
    BY <1>1
  <2>3. QED
    BY <2>1, <2>2
<1>8. \A n \in 0 .. last : high[n] = f[n]
  <2>1. Alike(last, high, f)
    BY <1>4, <1>7 DEF Alike
  <2>2. last \in Nat
    BY <1>1
  <2>3. QED
    BY <2>1, <2>2, OneSolution
<1>9. last \in 0 .. last
  BY <1>1
<1>10. QED
  BY <1>4, <1>6, <1>8, <1>9 DEF last

\* Nothing is left after Field digits of a number that fits.
LEMMA NothingLeft ==
    ASSUME NEW v \in Nat, v < Modulus,
           NEW rest \in [0 .. Field -> Nat], rest[0] = v,
           \A k \in 1 .. Field : rest[k] = rest[k - 1] \div Radix
    PROVE  rest[Field] = 0
<1>1. PICK power \in [0 .. Field -> Nat] :
          /\ power[0] = 1 /\ \A n \in 1 .. Field : power[n] = Radix * power[n - 1]
          /\ Modulus = power[Field]
  BY PowerIs
<1>2. Radix \in Nat /\ Radix > 0 /\ Field \in Nat
  BY Sizes
<1>3. Multiplies(Radix, Field, power) /\ Divides(Radix, Field, rest)
  BY <1>1 DEF Multiplies, Divides
<1>4. rest[0] < power[Field]
  BY <1>1
<1>5. QED
  BY <1>2, <1>3, <1>4, NothingDivided

LEMMA WordType ==
    ASSUME NEW v \in Nat
    PROVE  Word(v) \in Seq(Byte) /\ Len(Word(v)) = Field /\ DOMAIN Word(v) = 1 .. Field
<1>1. PICK rest \in [0 .. Field -> Nat] : Word(v) = [k \in 1 .. Field |-> rest[k - 1] % Radix]
  BY WordIs
<1>2. \A k \in 1 .. Field : rest[k - 1] % Radix \in Byte
  <2>1. \A k \in 1 .. Field : k - 1 \in 0 .. Field
    BY Sizes
  <2>2. QED
    BY <2>1, Sizes
<1>3. Word(v) \in [1 .. Field -> Byte]
  BY <1>1, <1>2
<1>4. Field \in Nat
  BY Sizes
<1>5. QED
  BY <1>3, <1>4

\* Four bytes hold any number below Modulus.
LEMMA NumberOfWord ==
    ASSUME NEW v \in Nat, v < Modulus
    PROVE  Number(Word(v)) = v
<1>1. PICK rest \in [0 .. Field -> Nat] :
          /\ rest[0] = v /\ \A k \in 1 .. Field : rest[k] = rest[k - 1] \div Radix
          /\ Word(v) = [k \in 1 .. Field |-> rest[k - 1] % Radix]
  BY WordIs
<1>2. rest[Field] = 0
  BY <1>1, NothingLeft
<1> DEFINE bytes == Word(v)
<1>3. bytes \in Seq(Byte) /\ Len(bytes) = Field
  BY WordType
<1>4. PICK high \in [0 .. Field -> Nat] :
          /\ high[0] = 0
          /\ \A n \in 1 .. Field : high[n] = bytes[Field - n + 1] + Radix * high[n - 1]
          /\ Number(bytes) = high[Field]
  BY <1>3, NumberIs
<1> DEFINE Same == {n \in 0 .. Field : high[n] = rest[Field - n]}
<1>5. ASSUME NEW n \in 0 .. Field - 1, high[n] = rest[Field - n]
      PROVE  high[n + 1] = rest[Field - (n + 1)]
  <2>1. /\ n + 1 \in 1 .. Field /\ n + 1 - 1 = n
        /\ Field - (n + 1) + 1 = Field - n /\ Field - n - 1 = Field - (n + 1)
        /\ Field - n \in 1 .. Field /\ Field - (n + 1) \in 0 .. Field
    BY Sizes
  <2>2. high[n + 1] = bytes[Field - n] + Radix * high[n]
    BY <1>4, <2>1
  <2>3. bytes[Field - n] = rest[Field - (n + 1)] % Radix
    BY <1>1, <2>1
  <2>4. high[n] = rest[Field - (n + 1)] \div Radix
    BY <1>1, <1>5, <2>1
  <2> DEFINE r == rest[Field - (n + 1)]
  <2>5. r \in Nat
    BY <2>1
  <2>6. r = (r % Radix) + Radix * (r \div Radix)
    <3>1. /\ r % Radix \in Byte /\ r \div Radix \in Nat
          /\ r = Radix * (r \div Radix) + (r % Radix)
      BY <2>5, Sizes
    <3>2. Radix * (r \div Radix) \in Nat
      BY <3>1, Multiples, Sizes
    <3> HIDE DEF r
    <3>3. QED
      BY <3>1, <3>2 DEF Byte
  <2>7. QED
    BY <2>2, <2>3, <2>4, <2>6
<1>6. 0 \in Same /\ \A n \in 0 .. Field - 1 : n \in Same => n + 1 \in Same
  <2>1. 0 \in 0 .. Field /\ Field - 0 = Field /\ \A i \in 0 .. Field - 1 : i + 1 \in 0 .. Field
    BY Sizes
  <2>2. QED
    BY <1>2, <1>4, <1>5, <2>1
<1>7. Field \in Same
  <2> HIDE DEF Same
  <2>1. Field \in Nat /\ Field \in 0 .. Field
    BY Sizes
  <2>2. QED
    BY <1>6, <2>1, UpTo
<1>8. Field - Field = 0
  BY Sizes
<1>9. QED
  BY <1>1, <1>4, <1>7, <1>8

\* And whatever four bytes there are, they are those of a number below Modulus.
LEMMA WordOfNumber ==
    ASSUME NEW bytes \in Seq(Byte), Len(bytes) = Field
    PROVE  Number(bytes) \in Nat /\ Number(bytes) < Modulus /\ Word(Number(bytes)) = bytes
<1>1. PICK power \in [0 .. Field -> Nat] :
          /\ power[0] = 1 /\ \A n \in 1 .. Field : power[n] = Radix * power[n - 1]
          /\ Modulus = power[Field]
  BY PowerIs
<1>2. PICK high \in [0 .. Field -> Nat] :
          /\ high[0] = 0
          /\ \A n \in 1 .. Field : high[n] = bytes[Field - n + 1] + Radix * high[n - 1]
          /\ Number(bytes) = high[Field]
  BY NumberIs
<1>3. 0 \in 0 .. Field /\ Field \in 0 .. Field /\ Field \in Nat /\ Field - 0 = Field
      /\ \A i \in 0 .. Field - 1 : i + 1 \in 0 .. Field
  BY Sizes
<1>4. \A k \in 1 .. Field : bytes[k] \in Byte
  BY ElementOfSeq
<1> DEFINE Small == {n \in 0 .. Field : high[n] < power[n]}
<1>5. ASSUME NEW n \in 0 .. Field - 1, high[n] < power[n]
      PROVE  high[n + 1] < power[n + 1]
  <2>1. n \in 0 .. Field /\ n + 1 \in 1 .. Field /\ n + 1 - 1 = n
        /\ Field - (n + 1) + 1 \in 1 .. Field
    BY Sizes
  <2> DEFINE b == bytes[Field - (n + 1) + 1]  h == high[n]  p == power[n]
  <2>2. high[n + 1] = b + Radix * h /\ power[n + 1] = Radix * p
    BY <1>1, <1>2, <2>1
  <2>3. b \in Byte /\ h \in Nat /\ p \in Nat /\ h < p
    BY <1>4, <1>5, <2>1
  <2>4. b + Radix * h < Radix * p
    <3> HIDE DEF b, h, p
    <3>1. b \in Nat /\ b < Radix
      BY <2>3 DEF Byte
    <3>2. Radix * h + Radix <= Radix * p /\ Radix * h \in Nat /\ Radix * p \in Nat
      BY <2>3, Multiples, Sizes
    <3> DEFINE x == Radix * h  y == Radix * p
    <3> HIDE DEF x, y
    <3>3. x + Radix <= y /\ x \in Nat /\ y \in Nat
      BY <3>2 DEF x, y
    <3>4. b + x < y
      BY <3>1, <3>3, Sizes
    <3>5. QED
      BY <3>4 DEF x, y
  <2>5. QED
    BY <2>2, <2>4
<1>6. Field \in Small
  <2>1. 0 \in Small /\ \A n \in 0 .. Field - 1 : n \in Small => n + 1 \in Small
    BY <1>1, <1>2, <1>3, <1>5
  <2> HIDE DEF Small
  <2>2. QED
    BY <1>3, <2>1, UpTo
<1>7. Number(bytes) \in Nat /\ Number(bytes) < Modulus
  BY <1>1, <1>2, <1>3, <1>6
<1> DEFINE v == Number(bytes)
<1>8. PICK rest \in [0 .. Field -> Nat] :
          /\ rest[0] = v /\ \A k \in 1 .. Field : rest[k] = rest[k - 1] \div Radix
          /\ Word(v) = [k \in 1 .. Field |-> rest[k - 1] % Radix]
  BY <1>7, WordIs
<1> DEFINE Same == {i \in 0 .. Field : rest[i] = high[Field - i]}
<1>9. ASSUME NEW i \in 0 .. Field - 1, rest[i] = high[Field - i]
      PROVE  rest[i + 1] = high[Field - (i + 1)] /\ rest[i] % Radix = bytes[i + 1]
  <2>1. /\ i + 1 \in 1 .. Field /\ i + 1 - 1 = i /\ Field - i \in 1 .. Field
        /\ Field - (Field - i) + 1 = i + 1 /\ Field - i - 1 = Field - (i + 1)
        /\ Field - (i + 1) \in 0 .. Field
    BY Sizes
  <2>2. high[Field - i] = bytes[i + 1] + Radix * high[Field - (i + 1)]
    BY <1>2, <2>1
  <2>3. bytes[i + 1] \in Byte /\ high[Field - (i + 1)] \in Nat
    BY <1>4, <2>1
  <2>4. /\ high[Field - i] % Radix = bytes[i + 1]
        /\ high[Field - i] \div Radix = high[Field - (i + 1)]
    <3> DEFINE b == bytes[i + 1]  x == high[Field - (i + 1)]
    <3>1. b \in Byte /\ x \in Nat
      BY <2>3
    <3> HIDE DEF b, x
    <3>2. (b + Radix * x) % Radix = b /\ (b + Radix * x) \div Radix = x
      BY <3>1, Digit
    <3>3. QED
      BY <2>2, <3>2 DEF b, x
  <2>5. rest[i + 1] = rest[i] \div Radix
    BY <1>8, <2>1
  <2>6. QED
    BY <1>9, <2>4, <2>5
<1>10. \A i \in 0 .. Field : i \in Same
  <2>1. 0 \in Same /\ \A i \in 0 .. Field - 1 : i \in Same => i + 1 \in Same
    BY <1>2, <1>3, <1>8, <1>9
  <2> HIDE DEF Same
  <2>2. QED
    BY <1>3, <2>1, UpTo
<1>11. \A k \in 1 .. Field : Word(v)[k] = bytes[k]
  <2>1. SUFFICES ASSUME NEW k \in 1 .. Field PROVE Word(v)[k] = bytes[k]
    OBVIOUS
  <2>2. k - 1 \in 0 .. Field - 1 /\ k - 1 \in 0 .. Field /\ k - 1 + 1 = k
    BY <1>3
  <2>3. rest[k - 1] = high[Field - (k - 1)]
    BY <1>10, <2>2
  <2>4. rest[k - 1] % Radix = bytes[k]
    BY <1>9, <2>2, <2>3
  <2>5. QED
    BY <1>8, <2>4
<1>12. Word(v) = bytes
  <2>1. Word(v) \in Seq(Byte) /\ Len(Word(v)) = Field
    BY <1>7, WordType
  <2> HIDE DEF v
  <2>2. QED
    BY <1>11, <2>1, SeqEqual
<1>13. QED
  BY <1>7, <1>12

-----------------------------------------------------------------------------
(* Reading a sequence from the left: what is behind, what is ahead.        *)

LEMMA Slice ==
    ASSUME NEW S, NEW c \in Seq(S), NEW i \in 0 .. Len(c), NEW j \in i .. Len(c)
    PROVE  /\ SubSeq(c, i + 1, j) \in Seq(S)
           /\ Len(SubSeq(c, i + 1, j)) = j - i
           /\ \A k \in 1 .. j - i : SubSeq(c, i + 1, j)[k] = c[i + k]
<1>1. Len(c) \in Nat
  BY LenProperties
<1>2. i \in Int /\ j \in Int /\ i + 1 \in Int /\ j - (i + 1) + 1 = j - i
  BY <1>1
<1>3. \A k \in i + 1 .. j : c[k] \in S
  <2>1. \A k \in i + 1 .. j : k \in 1 .. Len(c)
    BY <1>1
  <2>2. QED
    BY <2>1, ElementOfSeq
<1>4. /\ SubSeq(c, i + 1, j) \in Seq(S)
      /\ Len(SubSeq(c, i + 1, j)) = IF i + 1 <= j THEN j - (i + 1) + 1 ELSE 0
      /\ \A k \in 1 .. j - (i + 1) + 1 : SubSeq(c, i + 1, j)[k] = c[i + 1 + k - 1]
  BY <1>2, <1>3, SubSeqProperties
<1>5. \A k \in 1 .. j - i : i + 1 + k - 1 = i + k
  BY <1>1
<1>6. QED
  BY <1>1, <1>2, <1>4, <1>5

LEMMA Joined ==
    ASSUME NEW S, NEW c \in Seq(S), NEW i \in 0 .. Len(c), NEW j \in i .. Len(c)
    PROVE  SubSeq(c, 1, j) = SubSeq(c, 1, i) \o SubSeq(c, i + 1, j)
<1>1. Len(c) \in Nat
  BY LenProperties
<1>2. 1 \in 1 .. Len(c) + 1 /\ i \in 1 - 1 .. Len(c)
  BY <1>1
<1>3. QED
  BY <1>2, ConcatAdjacentSubSeq

\* What has been read of c, what is next, what is ahead.
Behind(c, p) == SubSeq(c, 1, p)
Part(c, p, n) == SubSeq(c, p + 1, p + n)
Ahead(c, p) == SubSeq(c, p + 1, Len(c))
ComesNext(c, p, u, v) == Ahead(c, p) = u \o v

\* The n bytes at p follow those behind p.
Follows(c, p, n, part) ==
    /\ p + n \in 0 .. Len(c) /\ part \in Seq(Byte) /\ Len(part) = n
    /\ Behind(c, p + n) = Behind(c, p) \o part

LEMMA PartFollows ==
    ASSUME NEW c \in Seq(Byte), NEW p \in 0 .. Len(c), NEW n \in Nat, p + n <= Len(c)
    PROVE  Follows(c, p, n, Part(c, p, n))
<1>1. Len(c) \in Nat
  BY LenProperties
<1>2. p + n \in 0 .. Len(c) /\ p \in 0 .. p + n /\ p + n \in p .. Len(c) /\ p + n - p = n
  BY <1>1
<1> DEFINE j == p + n
<1>3. j \in p .. Len(c)
  BY <1>2
<1> HIDE DEF j
<1>4. SubSeq(c, p + 1, j) \in Seq(Byte) /\ Len(SubSeq(c, p + 1, j)) = j - p
  BY <1>3, Slice
<1>5. SubSeq(c, 1, j) = SubSeq(c, 1, p) \o SubSeq(c, p + 1, j)
  BY <1>3, Joined
<1>6. QED
  BY <1>2, <1>4, <1>5 DEF Follows, Behind, Part, j

LEMMA Bytewise ==
    ASSUME NEW c \in Seq(Byte), NEW p \in 0 .. Len(c), NEW n \in Nat, p + n <= Len(c)
    PROVE  /\ Len(c) \in Nat /\ p + n \in 0 .. Len(c)
           /\ Behind(c, p) \in Seq(Byte) /\ Len(Behind(c, p)) = p
           /\ Part(c, p, n) \in Seq(Byte) /\ Len(Part(c, p, n)) = n
           /\ Ahead(c, p) \in Seq(Byte) /\ Len(Ahead(c, p)) = Len(c) - p
           /\ Behind(c, p + n) = Behind(c, p) \o Part(c, p, n)
<1>1. Len(c) \in Nat
  BY LenProperties
<1>2. /\ 0 \in 0 .. Len(c) /\ p \in 0 .. Len(c) /\ Len(c) \in p .. Len(c)
      /\ p + n \in p .. Len(c) /\ p + n - p = n /\ p - 0 = p /\ 0 + 1 = 1
  BY <1>1
<1>3. SubSeq(c, 0 + 1, p) \in Seq(Byte) /\ Len(SubSeq(c, 0 + 1, p)) = p - 0
  BY <1>2, Slice
<1>4. SubSeq(c, p + 1, p + n) \in Seq(Byte) /\ Len(SubSeq(c, p + 1, p + n)) = p + n - p
  BY <1>2, Slice
<1>5. SubSeq(c, p + 1, Len(c)) \in Seq(Byte) /\ Len(SubSeq(c, p + 1, Len(c))) = Len(c) - p
  BY <1>2, Slice
<1>6. SubSeq(c, 1, p + n) = SubSeq(c, 1, p) \o SubSeq(c, p + 1, p + n)
  BY <1>2, Joined
<1>7. QED
  BY <1>1, <1>2, <1>3, <1>4, <1>5, <1>6 DEF Behind, Part, Ahead

Then(u, v) == u \o v

LEMMA ThenType ==
    ASSUME NEW u \in Seq(Byte), NEW v \in Seq(Byte)
    PROVE  /\ Then(u, v) \in Seq(Byte)
           /\ Len(Then(u, v)) = Len(u) + Len(v) /\ Len(u) \in Nat /\ Len(v) \in Nat
<1>1. Len(u) \in Nat /\ Len(v) \in Nat
  BY LenProperties
<1>2. u \o v \in Seq(Byte) /\ Len(u \o v) = Len(u) + Len(v)
  BY ConcatProperties
<1>3. QED
  BY <1>1, <1>2 DEF Then

LEMMA ThenAssociative ==
    ASSUME NEW u \in Seq(Byte), NEW v \in Seq(Byte), NEW w \in Seq(Byte)
    PROVE  Then(Then(u, v), w) = Then(u, Then(v, w))
BY ConcatProperties DEF Then

LEMMA Concatenation ==
    ASSUME NEW u \in Seq(Byte), NEW v \in Seq(Byte), NEW w \in Seq(Byte)
    PROVE  /\ (u \o v) \o w = u \o (v \o w)
           /\ u \o v \in Seq(Byte) /\ Len(u \o v) = Len(u) + Len(v) /\ Len(u) \in Nat
<1>1. (u \o v) \o w = u \o (v \o w)
  <2>1. Then(Then(u, v), w) = Then(u, Then(v, w))
    BY ThenAssociative
  <2>2. QED
    BY <2>1, Zenon DEF Then
<1>2. u \o v \in Seq(Byte) /\ Len(u \o v) = Len(u) + Len(v) /\ Len(u) \in Nat
  <2>1. Then(u, v) \in Seq(Byte) /\ Len(Then(u, v)) = Len(u) + Len(v) /\ Len(u) \in Nat
    BY ThenType
  <2>2. QED
    BY <2>1, Zenon DEF Then
<1>3. QED
  BY <1>1, <1>2, Zenon

LEMMA Fourfold ==
    ASSUME NEW u \in Seq(Byte), NEW w \in Seq(Byte), NEW p \in Seq(Byte), NEW x \in Seq(Byte)
    PROVE  Then(Then(u, Then(w, p)), x) = Then(u, Then(w, Then(p, x)))
<1>1. Then(w, p) \in Seq(Byte)
  BY ThenType
<1>2. Then(Then(u, Then(w, p)), x) = Then(u, Then(Then(w, p), x))
  BY <1>1, ThenAssociative
<1>3. Then(Then(w, p), x) = Then(w, Then(p, x))
  BY ThenAssociative
<1>4. QED
  BY <1>2, <1>3

\* If u \o v is ahead at p, then u is there and v behind it.
LEMMA NextIsThere ==
    ASSUME NEW c \in Seq(Byte), NEW p \in 0 .. Len(c), NEW u \in Seq(Byte), NEW v \in Seq(Byte),
           ComesNext(c, p, u, v)
    PROVE  /\ p + Len(u) \in p .. Len(c) /\ p + Len(u) \in 0 .. Len(c)
           /\ Part(c, p, Len(u)) = u
           /\ Ahead(c, p + Len(u)) = v
<1> DEFINE n == Len(c)  a == Len(u)  b == Len(v)
<1>1. n \in Nat /\ a \in Nat /\ b \in Nat
  BY LenProperties
<1>2. n \in p .. n
  BY <1>1
<1>0. SubSeq(c, p + 1, n) = u \o v
  BY DEF Ahead, ComesNext
<1>3. Len(SubSeq(c, p + 1, n)) = n - p /\ \A k \in 1 .. n - p : SubSeq(c, p + 1, n)[k] = c[p + k]
  BY <1>2, Slice
<1>4. /\ Len(u \o v) = a + b
      /\ \A k \in 1 .. a + b : (u \o v)[k] = IF k <= a THEN u[k] ELSE v[k - a]
  BY ConcatProperties
<1>5. n - p = a + b /\ \A k \in 1 .. a + b : c[p + k] = IF k <= a THEN u[k] ELSE v[k - a]
  BY <1>0, <1>3, <1>4
<1>6. p + a \in p .. n /\ p + a \in 0 .. n /\ n \in p + a .. n /\ p + a - p = a /\ n - (p + a) = b
  BY <1>1, <1>5
<1>7. SubSeq(c, p + 1, p + a) = u
  <2>1. /\ SubSeq(c, p + 1, p + a) \in Seq(Byte) /\ Len(SubSeq(c, p + 1, p + a)) = a
        /\ \A k \in 1 .. a : SubSeq(c, p + 1, p + a)[k] = c[p + k]
    BY <1>6, Slice
  <2>2. \A k \in 1 .. a : c[p + k] = u[k]
    BY <1>1, <1>5
  <2>3. QED
    BY <2>1, <2>2, SeqEqual
<1>8. SubSeq(c, p + a + 1, n) = v
  <2>1. /\ SubSeq(c, p + a + 1, n) \in Seq(Byte) /\ Len(SubSeq(c, p + a + 1, n)) = b
        /\ \A k \in 1 .. b : SubSeq(c, p + a + 1, n)[k] = c[p + a + k]
    BY <1>6, Slice
  <2>2. \A k \in 1 .. b : c[p + a + k] = v[k]
    <3>1. SUFFICES ASSUME NEW k \in 1 .. b PROVE c[p + a + k] = v[k]
      OBVIOUS
    <3>2. a + k \in 1 .. a + b /\ ~(a + k <= a) /\ a + k - a = k /\ p + (a + k) = p + a + k
      BY <1>1
    <3>3. QED
      BY <1>5, <3>2
  <2>3. QED
    BY <2>1, <2>2, SeqEqual
<1>9. QED
  BY <1>6, <1>7, <1>8 DEF Part, Ahead

LEMMA BlobType ==
    ASSUME NEW b \in Seq(Byte)
    PROVE  Blob(b) \in Seq(Byte) /\ Len(Blob(b)) = Field + Len(b) /\ Len(b) \in Nat
<1>1. Len(b) \in Nat
  BY LenProperties
<1>2. Word(Len(b)) \in Seq(Byte) /\ Len(Word(Len(b))) = Field
  BY <1>1, WordType
<1>3. QED
  BY <1>1, <1>2, ConcatProperties DEF Blob

\* A word that is ahead is read as it was written.
LEMMA WordAhead ==
    ASSUME NEW c \in Seq(Byte), NEW p \in 0 .. Len(c), NEW n \in Nat, NEW t \in Seq(Byte),
           n < Modulus, ComesNext(c, p, Word(n), t)
    PROVE  /\ p + Field \in 0 .. Len(c) /\ p + Field <= Len(c)
           /\ Number(Part(c, p, Field)) = n
           /\ Ahead(c, p + Field) = t
<1> DEFINE w == Word(n)
<1>1. w \in Seq(Byte) /\ Len(w) = Field /\ Number(w) = n
  BY WordType, NumberOfWord
<1>2. ComesNext(c, p, w, t)
  OBVIOUS
<1> HIDE DEF w
<1>3. /\ p + Len(w) \in p .. Len(c) /\ p + Len(w) \in 0 .. Len(c)
      /\ Part(c, p, Len(w)) = w
      /\ Ahead(c, p + Len(w)) = t
  BY <1>1, <1>2, NextIsThere
<1>4. QED
  BY <1>1, <1>3

\* A blob, likewise.
LEMMA BlobAhead ==
    ASSUME NEW c \in Seq(Byte), NEW p \in 0 .. Len(c), NEW b \in Seq(Byte), NEW t \in Seq(Byte),
           Len(b) < Modulus, ComesNext(c, p, Blob(b), t)
    PROVE  /\ p + Field \in 0 .. Len(c) /\ p + Field <= Len(c)
           /\ Number(Part(c, p, Field)) = Len(b)
           /\ p + Field + Len(b) <= Len(c) /\ p + Field + Len(b) \in 0 .. Len(c)
           /\ Part(c, p + Field, Len(b)) = b
           /\ Ahead(c, p + Field + Len(b)) = t
<1> DEFINE n == Len(b)  w == Word(n)  s == b \o t
<1>1. n \in Nat /\ n < Modulus
  BY LenProperties
<1>2. w \in Seq(Byte) /\ s \in Seq(Byte)
  BY <1>1, WordType, Concatenation
<1>3. ComesNext(c, p, w, s)
  <2>1. Ahead(c, p) = Then(Then(w, b), t)
    BY Zenon DEF Blob, ComesNext, Then
  <2> HIDE DEF w
  <2>2. Ahead(c, p) = Then(w, Then(b, t))
    BY <1>2, <2>1, ThenAssociative
  <2>3. QED
    BY <2>2, Zenon DEF ComesNext, Then
<1>4. /\ p + Field \in 0 .. Len(c) /\ p + Field <= Len(c)
      /\ Number(Part(c, p, Field)) = n
      /\ Ahead(c, p + Field) = s
  <2>1. ComesNext(c, p, Word(n), s)
    BY <1>3
  <2> HIDE DEF n, s
  <2>2. QED
    BY <1>1, <1>2, <2>1, WordAhead
<1> DEFINE q == p + Field
<1> HIDE DEF q
<1>5. q \in 0 .. Len(c) /\ ComesNext(c, q, b, t)
  BY <1>4 DEF q, ComesNext
<1>6. /\ q + Len(b) \in q .. Len(c) /\ q + Len(b) \in 0 .. Len(c)
      /\ Part(c, q, Len(b)) = b
      /\ Ahead(c, q + Len(b)) = t
  BY <1>5, NextIsThere
<1>7. q + Len(b) <= Len(c)
  BY <1>6, LenProperties
<1>8. QED
  BY <1>4, <1>6, <1>7 DEF q

\* And what is read is the word it was written from.
LEMMA WordBehind ==
    ASSUME NEW c \in Seq(Byte), NEW p \in 0 .. Len(c), p + Field <= Len(c)
    PROVE  /\ Number(Part(c, p, Field)) \in Nat /\ Number(Part(c, p, Field)) < Modulus
           /\ Behind(c, p + Field) = Behind(c, p) \o Word(Number(Part(c, p, Field)))
<1> DEFINE w == Part(c, p, Field)
<1>0. Field \in Nat
  BY Sizes
<1>1. w \in Seq(Byte) /\ Len(w) = Field /\ Behind(c, p + Field) = Behind(c, p) \o w
  <2>1. Follows(c, p, Field, w)
    BY <1>0, PartFollows
  <2> HIDE DEF w
  <2>2. QED
    BY <2>1 DEF Follows
<1> HIDE DEF w
<1>2. Number(w) \in Nat /\ Number(w) < Modulus /\ Word(Number(w)) = w
  BY <1>1, WordOfNumber
<1>3. QED
  BY <1>1, <1>2 DEF w

LEMMA BlobBehind ==
    ASSUME NEW c \in Seq(Byte), NEW p \in 0 .. Len(c), NEW n, n = Number(Part(c, p, Field)),
           p + Field <= Len(c), p + Field + n <= Len(c)
    PROVE  /\ n \in Nat /\ n < Modulus /\ p + Field + n \in 0 .. Len(c)
           /\ Part(c, p + Field, n) \in Seq(Byte) /\ Len(Part(c, p + Field, n)) = n
           /\ Behind(c, p + Field + n) = Behind(c, p) \o Blob(Part(c, p + Field, n))
<1> DEFINE q == p + Field  b == Part(c, q, n)  u == Behind(c, p)  w == Word(n)
<1>1. n \in Nat /\ n < Modulus /\ Behind(c, q) = u \o w
  BY WordBehind
<1>2. q \in 0 .. Len(c) /\ q + n <= Len(c) /\ u \in Seq(Byte)
  BY <1>1, Sizes, Bytewise
<1>3. w \in Seq(Byte)
  BY <1>1, WordType
<1>4. /\ q + n \in 0 .. Len(c) /\ b \in Seq(Byte) /\ Len(b) = n
      /\ Behind(c, q + n) = Behind(c, q) \o b
  <2>1. n \in Nat /\ q \in 0 .. Len(c) /\ q + n <= Len(c)
    BY <1>1, <1>2
  <2>2. Follows(c, q, n, b)
    <3> HIDE DEF q
    <3>1. QED
      BY <2>1, PartFollows
  <2> HIDE DEF q, b
  <2>3. QED
    BY <2>2 DEF Follows
<1>5. Blob(b) = w \o b
  BY <1>4 DEF Blob
<1>6. (u \o w) \o b = u \o (w \o b)
  <2>1. u \in Seq(Byte) /\ w \in Seq(Byte) /\ b \in Seq(Byte)
    BY <1>2, <1>3, <1>4
  <2> HIDE DEF u, w, b
  <2>2. Then(Then(u, w), b) = Then(u, Then(w, b))
    BY <2>1, ThenAssociative
  <2>3. QED
    BY <2>2, Zenon DEF Then
<1>7. Behind(c, q + n) = u \o Blob(b)
  BY <1>1, <1>4, <1>5, <1>6
<1>8. QED
  BY <1>1, <1>4, <1>7

-----------------------------------------------------------------------------
(* The packed transactions.                                                *)

Extended(bytes, tx) == bytes \o Blob(tx)

Packs(txs, upto) ==
    /\ upto \in [0 .. Len(txs) -> Seq(Byte)]
    /\ upto[0] = <<>>
    /\ \A n \in 1 .. Len(txs) : upto[n] = Extended(upto[n - 1], txs[n])

LEMMA Elements ==
    ASSUME NEW txs \in Seq(Seq(Byte))
    PROVE  /\ Len(txs) \in Nat
           /\ \A n \in 1 .. Len(txs) : txs[n] \in Seq(Byte) /\ Blob(txs[n]) \in Seq(Byte)
<1>1. \A n \in 1 .. Len(txs) : txs[n] \in Seq(Byte)
  BY ElementOfSeq
<1>2. QED
  BY <1>1, BlobType, LenProperties

LEMMA PackedIs ==
    ASSUME NEW txs \in Seq(Seq(Byte))
    PROVE  \E upto : Packs(txs, upto) /\ Packed(txs) = upto[Len(txs)]
<1> DEFINE last == Len(txs)
           g == [n \in 1 .. last |-> [x \in Seq(Byte) |-> Extended(x, txs[n])]]
<1>1. last \in Nat /\ \A n \in 1 .. last : Blob(txs[n]) \in Seq(Byte)
  BY Elements
<1> HIDE DEF last
<1>2. g \in [1 .. last -> [Seq(Byte) -> Seq(Byte)]]
  <2>1. \A n \in 1 .. last, x \in Seq(Byte) : Extended(x, txs[n]) \in Seq(Byte)
    BY <1>1, Concatenation DEF Extended
  <2>2. QED
    BY <2>1
<1>3. PICK f : Solves(last, Seq(Byte), <<>>, g, f)
  <2> HIDE DEF g
  <2>1. <<>> \in Seq(Byte)
    BY EmptySeq
  <2>2. QED
    BY <1>1, <1>2, <2>1, Recursion
<1>4. /\ f \in [0 .. last -> Seq(Byte)] /\ f[0] = <<>>
      /\ \A n \in 1 .. last : f[n] = Extended(f[n - 1], txs[n])
  <2>1. \A n \in 1 .. last : n - 1 \in 0 .. last
    BY <1>1
  <2>2. QED
    BY <1>3, <2>1 DEF Solves
<1> DEFINE upto[n \in 0 .. last] == IF n = 0 THEN <<>> ELSE Extended(upto[n - 1], txs[n])
<1>5. upto = [n \in 0 .. last |-> IF n = 0 THEN <<>> ELSE Extended(upto[n - 1], txs[n])]
  <2>1. \A n \in 0 .. last : f[n] = IF n = 0 THEN <<>> ELSE Extended(f[n - 1], txs[n])
    BY <1>4
  <2>2. f = [n \in 0 .. last |-> IF n = 0 THEN <<>> ELSE Extended(f[n - 1], txs[n])]
    BY <1>4, <2>1
  <2>3. QED
    BY <2>2
<1>6. Packed(txs) = upto[last]
  BY DEF Packed, last, Extended
<1> HIDE DEF upto
<1>7. upto[0] = <<>> /\ \A n \in 1 .. last : upto[n] = Extended(upto[n - 1], txs[n])
  <2>1. \A n \in 0 .. last : upto[n] = IF n = 0 THEN <<>> ELSE Extended(upto[n - 1], txs[n])
    BY <1>5
  <2>2. 0 \in 0 .. last /\ \A n \in 1 .. last : n \in 0 .. last /\ n # 0
    BY <1>1
  <2>3. QED
    BY <2>1, <2>2
<1>8. \A n \in 0 .. last : upto[n] = f[n]
  <2>1. Alike(last, upto, f)
    BY <1>4, <1>7 DEF Alike
  <2>2. last \in Nat
    BY <1>1
  <2>3. QED
    BY <2>1, <2>2, OneSolution
<1>9. last \in 0 .. last
  BY <1>1
<1>10. Packs(txs, f) /\ Packed(txs) = f[last]
  BY <1>4, <1>6, <1>8, <1>9 DEF Packs, last
<1>11. QED
  BY <1>10 DEF last

LEMMA PackedEmpty == Packed(<<>>) = <<>>
<1>1. <<>> \in Seq(Seq(Byte)) /\ Len(<<>>) = 0
  BY EmptySeq
<1>2. PICK upto : Packs(<<>>, upto) /\ Packed(<<>>) = upto[Len(<<>>)]
  BY <1>1, PackedIs
<1>3. QED
  BY <1>1, <1>2 DEF Packs

LEMMA PackedType ==
    ASSUME NEW txs \in Seq(Seq(Byte))
    PROVE  Packed(txs) \in Seq(Byte) /\ Field * Len(txs) <= Len(Packed(txs))
<1>1. PICK upto : Packs(txs, upto) /\ Packed(txs) = upto[Len(txs)]
  BY PackedIs
<1> DEFINE last == Len(txs)
<1>2. last \in Nat /\ last \in 0 .. last /\ \A n \in 1 .. last : txs[n] \in Seq(Byte)
  BY Elements
<1>3. Packed(txs) \in Seq(Byte)
  BY <1>1, <1>2 DEF Packs
<1> DEFINE Long == {n \in 0 .. last : Field * n <= Len(upto[n])}
<1>4. 0 \in Long
  <2>1. Field * 0 = 0 /\ Len(upto[0]) = 0 /\ 0 \in 0 .. last
    BY <1>1, <1>2, Sizes DEF Packs
  <2>2. QED
    BY <2>1
<1>5. ASSUME NEW n \in 0 .. last - 1, n \in Long PROVE n + 1 \in Long
  <2>1. n + 1 \in 1 .. last /\ n \in 0 .. last /\ n + 1 \in 0 .. last /\ n + 1 - 1 = n
    BY <1>2
  <2>2. upto[n] \in Seq(Byte) /\ upto[n + 1] = Extended(upto[n], txs[n + 1])
    <3> DEFINE m == n + 1
    <3>1. m \in 1 .. last /\ m - 1 = n /\ n \in 0 .. last
      BY <2>1
    <3> HIDE DEF m
    <3>2. upto[m] = Extended(upto[m - 1], txs[m]) /\ upto[n] \in Seq(Byte)
      BY <1>1, <3>1 DEF Packs
    <3>3. QED
      BY <3>1, <3>2 DEF m
  <2>3. /\ Blob(txs[n + 1]) \in Seq(Byte) /\ Len(txs[n + 1]) \in Nat
        /\ Len(Blob(txs[n + 1])) = Field + Len(txs[n + 1])
    BY <1>2, <2>1, BlobType
  <2>4. Len(upto[n + 1]) = Len(upto[n]) + Len(Blob(txs[n + 1])) /\ Len(upto[n]) \in Nat
    <3> DEFINE u == upto[n]  b == Blob(txs[n + 1])
    <3>1. u \in Seq(Byte) /\ b \in Seq(Byte) /\ upto[n + 1] = Then(u, b)
      BY <2>2, <2>3 DEF Extended, Then
    <3> HIDE DEF u, b
    <3>2. Len(Then(u, b)) = Len(u) + Len(b) /\ Len(u) \in Nat
      BY <3>1, ThenType
    <3>3. QED
      BY <3>1, <3>2 DEF u, b
  <2>5. Field * (n + 1) = Field * n + Field /\ Field * n \in Nat
    BY <2>1, Sizes
  <2>6. Field * n <= Len(upto[n])
    BY <1>5
  <2> DEFINE m == Field * n
  <2>7. Field * (n + 1) <= Len(upto[n + 1])
    <3>1. m + Field <= Len(upto[n]) + (Field + Len(txs[n + 1]))
      <4>1. m \in Nat /\ m <= Len(upto[n])
        BY <2>5, <2>6
      <4> DEFINE a == Len(upto[n])  d == Len(txs[n + 1])
      <4>2. a \in Nat /\ d \in Nat /\ m \in Nat /\ m <= a /\ Field \in Nat
        BY <2>3, <2>4, <4>1, Sizes
      <4> HIDE DEF m, a, d
      <4>3. m + Field <= a + (Field + d)
        BY <4>2
      <4>4. QED
        BY <4>3 DEF a, d
    <3>2. QED
      BY <2>3, <2>4, <2>5, <3>1
  <2>8. QED
    BY <2>1, <2>7
<1>6. last \in Long
  <2> HIDE DEF Long, last
  <2>1. QED
    BY <1>2, <1>4, <1>5, UpTo
<1>7. QED
  BY <1>1, <1>3, <1>6

LEMMA PackedAppend ==
    ASSUME NEW txs \in Seq(Seq(Byte)), NEW tx \in Seq(Byte)
    PROVE  Packed(Append(txs, tx)) = Packed(txs) \o Blob(tx)
<1> DEFINE more == Append(txs, tx)  last == Len(txs)
<1>1. /\ more \in Seq(Seq(Byte)) /\ Len(more) = last + 1 /\ more[last + 1] = tx
      /\ \A n \in 1 .. last : more[n] = txs[n]
  BY AppendProperties
<1>2. last \in Nat
  BY Elements
<1>3. PICK f : Packs(txs, f) /\ Packed(txs) = f[last]
  BY PackedIs
<1> HIDE DEF more
<1>4. PICK h : Packs(more, h) /\ Packed(more) = h[Len(more)]
  BY <1>1, PackedIs
<1> HIDE DEF last
<1>5. Alike(last, h, f)
  <2>1. \A n \in 1 .. last : f[n] = Extended(f[n - 1], txs[n])
    BY <1>3 DEF Packs, last
  <2>2. \A n \in 1 .. last : h[n] = Extended(h[n - 1], txs[n])
    <3>1. \A n \in 1 .. last : n \in 1 .. last + 1
      BY <1>2
    <3>2. QED
      BY <1>1, <1>4, <3>1 DEF Packs
  <2>3. QED
    BY <1>3, <1>4, <2>1, <2>2 DEF Packs, Alike
<1>6. \A n \in 0 .. last : h[n] = f[n]
  BY <1>2, <1>5, OneSolution
<1>7. h[last + 1] = Extended(h[last], tx)
  <2> DEFINE m == last + 1
  <2>1. m \in 1 .. m /\ m - 1 = last
    BY <1>2
  <2>2. Len(more) = m /\ more[m] = tx
    BY <1>1
  <2> HIDE DEF m
  <2>3. h[m] = Extended(h[m - 1], more[m])
    BY <1>4, <2>1, <2>2 DEF Packs
  <2>4. QED
    BY <2>1, <2>2, <2>3 DEF m
<1>8. last \in 0 .. last
  BY <1>2
<1>9. QED
  BY <1>1, <1>3, <1>4, <1>6, <1>7, <1>8 DEF more, Extended

LEMMA PackedFirst ==
    ASSUME NEW txs \in Seq(Seq(Byte)), txs # <<>>
    PROVE  Packed(txs) = Blob(Head(txs)) \o Packed(Tail(txs))
<1> DEFINE rest == Tail(txs)  last == Len(rest)  b == Blob(txs[1])
<1>1. /\ rest \in Seq(Seq(Byte)) /\ Len(rest) = Len(txs) - 1
      /\ \A n \in 1 .. Len(rest) : rest[n] = txs[n + 1]
  BY HeadTailProperties
<1>2. last \in Nat /\ Len(txs) = last + 1 /\ b \in Seq(Byte) /\ Head(txs) = txs[1]
  <2>1. Len(txs) \in Nat /\ Len(txs) # 0
    BY Elements, EmptySeq
  <2>2. last \in Nat /\ Len(txs) = last + 1 /\ 1 \in 1 .. Len(txs)
    BY <1>1, <2>1
  <2>3. b \in Seq(Byte)
    BY <2>2, Elements
  <2>4. QED
    BY <2>2, <2>3
<1>3. PICK f : Packs(txs, f) /\ Packed(txs) = f[last + 1]
  BY <1>2, PackedIs
<1> HIDE DEF rest
<1>4. PICK h : Packs(rest, h) /\ Packed(rest) = h[last]
  BY <1>1, PackedIs
<1> HIDE DEF last, b
<1>5. h \in [0 .. last -> Seq(Byte)] /\ h[0] = <<>>
      /\ \A n \in 1 .. last : h[n] = Extended(h[n - 1], txs[n + 1])
  BY <1>1, <1>4 DEF Packs, last
<1>6. f \in [0 .. last + 1 -> Seq(Byte)] /\ f[0] = <<>>
      /\ \A n \in 1 .. last + 1 : f[n] = Extended(f[n - 1], txs[n])
  BY <1>2, <1>3 DEF Packs
<1> DEFINE Shifted == {n \in 0 .. last : f[n + 1] = b \o h[n]}
<1>7. 0 \in Shifted
  <2>1. f[1] = <<>> \o b
    <3>1. 1 \in 1 .. last + 1 /\ 1 - 1 = 0
      BY <1>2
    <3>2. f[1] = Extended(<<>>, txs[1])
      BY <1>6, <3>1
    <3>3. QED
      BY <3>2 DEF b, Extended
  <2>2. <<>> \o b = b \o <<>>
    BY <1>2, ConcatEmptySeq
  <2>3. 0 \in 0 .. last /\ 0 + 1 = 1
    BY <1>2
  <2>4. QED
    BY <1>5, <2>1, <2>2, <2>3
<1>8. ASSUME NEW n \in 0 .. last - 1, n \in Shifted PROVE n + 1 \in Shifted
  <2>1. /\ n \in 0 .. last /\ n + 1 \in 0 .. last /\ n + 1 \in 1 .. last /\ n + 1 - 1 = n
        /\ n + 1 + 1 \in 1 .. last + 1 /\ n + 1 + 1 - 1 = n + 1
    BY <1>2
  <2> DEFINE d == Blob(txs[n + 1 + 1])
  <2>2. h[n + 1] = h[n] \o d /\ h[n] \in Seq(Byte)
    <3> DEFINE m == n + 1
    <3>1. m \in 1 .. last /\ m - 1 = n /\ n \in 0 .. last
      BY <2>1
    <3> HIDE DEF m
    <3>2. h[m] = Extended(h[m - 1], txs[m + 1]) /\ h[n] \in Seq(Byte)
      BY <1>5, <3>1
    <3>3. QED
      BY <3>1, <3>2 DEF Extended, m
  <2>3. f[n + 1 + 1] = f[n + 1] \o d
    <3>1. f[n + 1 + 1] = Extended(f[n + 1], txs[n + 1 + 1])
      BY <1>6, <2>1
    <3>2. QED
      BY <3>1 DEF Extended
  <2>4. d \in Seq(Byte)
    BY <1>2, <2>1, Elements
  <2>5. f[n + 1] = b \o h[n]
    BY <1>8
  <2>6. (b \o h[n]) \o d = b \o (h[n] \o d)
    <3>1. h[n] \in Seq(Byte)
      BY <2>2
    <3> HIDE DEF d
    <3>2. Then(Then(b, h[n]), d) = Then(b, Then(h[n], d))
      BY <1>2, <2>4, <3>1, ThenAssociative
    <3>3. QED
      BY <3>2, Zenon DEF Then
  <2>7. QED
    BY <2>1, <2>2, <2>3, <2>5, <2>6
<1>9. last \in Shifted
  <2> HIDE DEF Shifted
  <2>1. last \in 0 .. last
    BY <1>2
  <2>2. QED
    BY <1>2, <1>7, <1>8, <2>1, UpTo
<1>10. QED
  BY <1>2, <1>3, <1>4, <1>9 DEF b, rest

-----------------------------------------------------------------------------
(* Offsets that wrap.                                                      *)

LEMMA FieldFits == Modulus \in Nat /\ Field < Modulus
<1>1. PICK power \in [0 .. Field -> Nat] :
          /\ power[0] = 1 /\ \A n \in 1 .. Field : power[n] = Radix * power[n - 1]
          /\ Modulus = power[Field]
  BY PowerIs
<1> DEFINE Above == {n \in 0 .. Field : n < power[n]}
<1>2. 0 \in Above
  BY <1>1, Sizes
<1>3. ASSUME NEW n \in 0 .. Field - 1, n \in Above PROVE n + 1 \in Above
  <2> DEFINE m == n + 1  p == power[n]
  <2>1. m \in 1 .. Field /\ m - 1 = n /\ m \in 0 .. Field /\ n \in 0 .. Field
    BY Sizes
  <2>2. p \in Nat /\ n < p
    BY <1>1, <1>3, <2>1
  <2> HIDE DEF m, p
  <2>3. power[m] = Radix * p
    BY <1>1, <2>1 DEF p
  <2>4. 2 * p <= Radix * p
    <3>1. Radix * p = p * Radix /\ 2 * p = p * 2
      BY <2>2, Sizes
    <3>2. Radix - 2 \in Nat
      BY Sizes
    <3>3. p * (Radix - 2) \in Nat
      BY <2>2, <3>2
    <3>4. p * Radix = p * 2 + p * (Radix - 2)
      BY <2>2, Sizes
    <3>5. QED
      BY <2>2, <3>1, <3>3, <3>4
  <2>5. m < 2 * p
    BY <2>1, <2>2
  <2>6. Radix * p \in Nat
    BY <2>2, Multiples, Sizes
  <2> DEFINE x == Radix * p
  <2> HIDE DEF x
  <2>7. m < x
    BY <2>1, <2>2, <2>4, <2>5, <2>6 DEF x
  <2>8. QED
    BY <2>1, <2>3, <2>7 DEF m, x
<1>4. Field \in Above
  <2> HIDE DEF Above
  <2>1. Field \in Nat /\ Field \in 0 .. Field
    BY Sizes
  <2>2. QED
    BY <1>2, <1>3, <2>1, UpTo
<1>5. QED
  BY <1>1, <1>4

\* A sum that wraps is less than what was added to.
LEMMA Wraps ==
    ASSUME NEW x \in Nat, NEW y \in Nat, NEW m \in Nat, x < Modulus, y < Modulus, m < Modulus
    PROVE  /\ x <= Plus(x, y) /\ Plus(x, y) <= m <=> x + y <= m
           /\ x + y <= m => Plus(x, y) = x + y
<1> DEFINE M == Modulus
<1>1. M \in Nat /\ M # 0
  BY FieldFits
<1> HIDE DEF M
<1>2. x < M /\ y < M /\ m < M
  BY DEF M
<1>3. CASE x + y < M
  <2>1. (x + y) % M = x + y
    BY <1>1, <1>3
  <2>2. QED
    BY <1>2, <2>1 DEF Plus, M
<1>4. CASE x + y >= M
  <2>1. (x + y) % M = x + y - M
    <3>1. x + y - M \in 0 .. M - 1 /\ x + y = M * 1 + (x + y - M)
      BY <1>1, <1>2, <1>4
    <3>2. QED
      BY <1>1, <3>1
  <2>2. QED
    BY <1>1, <1>2, <1>4, <2>1 DEF Plus, M
<1>5. QED
  BY <1>1, <1>3, <1>4

LEMMA TurnFitsIs ==
    ASSUME commits \in Seq(Byte), FitsMemory, pos \in 0 .. Len(commits)
    PROVE  LET n == Number(Part(commits, pos, Field))
           IN  /\ TurnFits <=> pos + Field <= Len(commits) /\ pos + Field + n <= Len(commits)
               /\ TurnFits => /\ n \in Nat /\ End = pos + Field + n
                              /\ SubSeq(commits, Start + 1, End) = Part(commits, pos + Field, n)
<1> DEFINE m == Len(commits)  n == Number(Part(commits, pos, Field))
<1>1. m \in Nat /\ m < Modulus /\ Field \in Nat /\ Field < Modulus /\ Modulus \in Nat
      /\ pos \in Nat /\ pos <= m
  BY FieldFits, Sizes, LenProperties DEF FitsMemory
<1>2. LengthAt = n
  BY DEF LengthAt, Part
<1> HIDE DEF m, n
<1>3. /\ Present(pos, Start) <=> pos + Field <= m
      /\ pos + Field <= m => Start = pos + Field
  <2>1. pos < Modulus
    BY <1>1
  <2>2. /\ pos <= Plus(pos, Field) /\ Plus(pos, Field) <= m <=> pos + Field <= m
        /\ pos + Field <= m => Plus(pos, Field) = pos + Field
    BY <1>1, <2>1, Wraps
  <2>3. QED
    BY <2>2 DEF Present, Start, m
<1>4. ASSUME pos + Field <= m
      PROVE  /\ n \in Nat
             /\ Present(Start, End) <=> pos + Field + n <= m
             /\ pos + Field + n <= m => End = pos + Field + n
  <2> DEFINE q == pos + Field
  <2>1. n \in Nat /\ n < Modulus
    BY <1>1, <1>4, WordBehind DEF m, n
  <2>2. q \in Nat /\ q < Modulus /\ Start = q
    BY <1>1, <1>3, <1>4
  <2> HIDE DEF q
  <2>3. /\ q <= Plus(q, n) /\ Plus(q, n) <= m <=> q + n <= m
        /\ q + n <= m => Plus(q, n) = q + n
    BY <1>1, <2>1, <2>2, Wraps
  <2>4. QED
    BY <1>2, <2>1, <2>2, <2>3 DEF Present, End, m, q
<1>5. TurnFits <=> pos + Field <= m /\ pos + Field + n <= m
  BY <1>3, <1>4 DEF TurnFits
<1>6. ASSUME TurnFits
      PROVE  /\ n \in Nat /\ End = pos + Field + n
             /\ SubSeq(commits, Start + 1, End) = Part(commits, pos + Field, n)
  <2>1. n \in Nat /\ End = pos + Field + n /\ Start = pos + Field
    BY <1>3, <1>4, <1>5, <1>6
  <2>2. QED
    BY <2>1 DEF Part
<1>7. QED
  BY <1>5, <1>6 DEF m, n

-----------------------------------------------------------------------------
(* What a frame encodes.                                                   *)

Progress == [at : Nat, txs : Seq(Seq(Byte))]
Nothing == [at |-> Field, txs |-> <<>>]

LEMMA DecodeIs ==
    ASSUME NEW c \in Seq(Byte), NEW d \in Progress
    PROVE  LET n == Number(Part(c, d.at, Field))
               fits == d.at + Field <= Len(c) /\ d.at + Field + n <= Len(c)
           IN  /\ Decode(c, d) \in Progress
               /\ ~fits => Decode(c, d) = d
               /\ fits => /\ n \in Nat /\ Part(c, d.at + Field, n) \in Seq(Byte)
                          /\ Decode(c, d).at = d.at + Field + n
                          /\ Decode(c, d).txs = Append(d.txs, Part(c, d.at + Field, n))
<1> DEFINE m == Len(c)  p == d.at  q == p + Field  n == Number(Part(c, p, Field))
           tx == Part(c, q, n)
<1>1. m \in Nat /\ p \in Nat /\ q \in Nat /\ d.txs \in Seq(Seq(Byte))
  <2>1. Field \in Nat
    BY Sizes
  <2>2. QED
    BY <2>1, LenProperties DEF Progress
<1>2. Decode(c, d) = IF q > m \/ q + n > m THEN d
                     ELSE [at |-> q + n, txs |-> Append(d.txs, tx)]
  BY DEF Decode, Part
<1>3. ASSUME q <= m, q + n <= m
      PROVE  n \in Nat /\ q + n \in Nat /\ tx \in Seq(Byte)
  <2>1. p \in 0 .. m
    BY <1>1, <1>3, Sizes
  <2>2. p + Field <= Len(c) /\ p + Field + n <= Len(c)
    BY <1>3
  <2> HIDE DEF p
  <2>3. n \in Nat /\ tx \in Seq(Byte)
    BY <2>1, <2>2, BlobBehind
  <2>4. QED
    BY <1>1, <2>3
<1> HIDE DEF m, p, q, n, tx
<1>4. CASE q <= m /\ q + n <= m
  <2>1. n \in Nat /\ q + n \in Nat /\ tx \in Seq(Byte)
    BY <1>3, <1>4
  <2>2. Decode(c, d) = [at |-> q + n, txs |-> Append(d.txs, tx)]
    BY <1>1, <1>2, <1>4, <2>1
  <2>3. Append(d.txs, tx) \in Seq(Seq(Byte))
    BY <1>1, <2>1, AppendProperties
  <2>4. Decode(c, d) \in Progress /\ Decode(c, d).at = q + n /\ Decode(c, d).txs = Append(d.txs, tx)
    BY <2>1, <2>2, <2>3 DEF Progress
  <2>5. QED
    BY <1>4, <2>1, <2>4 DEF m, p, q, n, tx
<1>5. CASE ~(q <= m /\ q + n <= m)
  <2>1. q > m \/ q + n > m
    <3>1. CASE q <= m
      <4>1. p \in 0 .. Len(c) /\ p + Field <= Len(c)
        BY <1>1, <3>1, Sizes DEF q, m
      <4>2. n \in Nat
        BY <4>1, WordBehind DEF n
      <4>3. QED
        BY <1>1, <1>5, <3>1, <4>2
    <3>2. CASE ~(q <= m)
      BY <1>1, <3>2
    <3>3. QED
      BY <3>1, <3>2
  <2>2. Decode(c, d) = d
    BY <1>2, <2>1
  <2>3. QED
    BY <1>5, <2>2 DEF m, p, q, n
<1>6. QED
  BY <1>4, <1>5

Decodes(c, n, first) ==
    /\ first \in [0 .. n -> Progress]
    /\ first[0] = Nothing
    /\ \A k \in 1 .. n : first[k] = Decode(c, first[k - 1])

LEMMA DecodedIs ==
    ASSUME NEW c \in Seq(Byte), NEW n \in Nat
    PROVE  \E first : Decodes(c, n, first) /\ Decoded(c, n) = first[n]
<1> DEFINE g == [k \in 1 .. n |-> [d \in Progress |-> Decode(c, d)]]
<1>1. g \in [1 .. n -> [Progress -> Progress]]
  <2>1. \A d \in Progress : Decode(c, d) \in Progress
    BY DecodeIs
  <2>2. QED
    BY <2>1
<1>2. PICK f : Solves(n, Progress, Nothing, g, f)
  <2> HIDE DEF g
  <2>1. Nothing \in Progress
    BY Sizes, EmptySeq DEF Nothing, Progress
  <2>2. QED
    BY <1>1, <2>1, Recursion
<1>3. /\ f \in [0 .. n -> Progress] /\ f[0] = Nothing
      /\ \A k \in 1 .. n : f[k] = Decode(c, f[k - 1])
  <2>1. \A k \in 1 .. n : k - 1 \in 0 .. n
    OBVIOUS
  <2>2. QED
    BY <1>2, <2>1 DEF Solves
<1> DEFINE first[k \in 0 .. n] == IF k = 0 THEN Nothing ELSE Decode(c, first[k - 1])
<1>4. first = [k \in 0 .. n |-> IF k = 0 THEN Nothing ELSE Decode(c, first[k - 1])]
  <2>1. \A k \in 0 .. n : f[k] = IF k = 0 THEN Nothing ELSE Decode(c, f[k - 1])
    BY <1>3
  <2>2. f = [k \in 0 .. n |-> IF k = 0 THEN Nothing ELSE Decode(c, f[k - 1])]
    BY <1>3, <2>1
  <2>3. QED
    BY <2>2
<1>5. Decoded(c, n) = first[n]
  BY DEF Decoded, Nothing
<1> HIDE DEF first
<1>6. first[0] = Nothing /\ \A k \in 1 .. n : first[k] = Decode(c, first[k - 1])
  <2>1. \A k \in 0 .. n : first[k] = IF k = 0 THEN Nothing ELSE Decode(c, first[k - 1])
    BY <1>4
  <2>2. 0 \in 0 .. n /\ \A k \in 1 .. n : k \in 0 .. n /\ k # 0
    OBVIOUS
  <2>3. QED
    BY <2>1, <2>2
<1>7. \A k \in 0 .. n : first[k] = f[k]
  <2>1. Alike(n, first, f)
    BY <1>3, <1>6 DEF Alike
  <2> HIDE DEF g
  <2>2. QED
    BY <2>1, OneSolution
<1>8. Decodes(c, n, f) /\ Decoded(c, n) = f[n]
  BY <1>3, <1>5, <1>7 DEF Decodes
<1>9. QED
  BY <1>8

LEMMA DecodedSteps ==
    ASSUME NEW c \in Seq(Byte), NEW n \in Nat
    PROVE  /\ Decoded(c, 0) = Nothing
           /\ Decoded(c, n) \in Progress
           /\ Decoded(c, n + 1) = Decode(c, Decoded(c, n))
<1>1. PICK z : Decodes(c, 0, z) /\ Decoded(c, 0) = z[0]
  BY DecodedIs
<1>2. PICK f : Decodes(c, n, f) /\ Decoded(c, n) = f[n]
  BY DecodedIs
<1> DEFINE m == n + 1
<1>3. m \in Nat /\ m \in 1 .. m /\ m - 1 = n /\ n \in 0 .. n /\ \A k \in 1 .. n : k \in 1 .. m
  OBVIOUS
<1> HIDE DEF m
<1>4. PICK h : Decodes(c, m, h) /\ Decoded(c, m) = h[m]
  BY <1>3, DecodedIs
<1>5. Alike(n, h, f)
  BY <1>2, <1>3, <1>4 DEF Decodes, Alike
<1>6. h[n] = f[n]
  <2>1. n \in Nat
    OBVIOUS
  <2>2. \A k \in 0 .. n : h[k] = f[k]
    BY <1>5, <2>1, OneSolution
  <2>3. QED
    BY <1>3, <2>2
<1>7. h[m] = Decode(c, h[m - 1])
  BY <1>3, <1>4 DEF Decodes
<1>8. QED
  BY <1>1, <1>2, <1>3, <1>4, <1>6, <1>7 DEF Decodes, m

LEMMA PrefixIs ==
    ASSUME NEW s \in Seq(Seq(Byte)), NEW t \in Seq(Seq(Byte))
    PROVE  IsPrefix(s, t) <=> Len(s) <= Len(t) /\ \A i \in 1 .. Len(s) : s[i] = t[i]
<1>1. Len(s) \in Nat /\ Len(t) \in Nat
  BY LenProperties
<1>2. SubSeq(s, 1, Len(s)) = s
  BY SubSeqFull
<1>3. ASSUME Len(s) <= Len(t)
      PROVE  SubSeq(t, 1, Len(s)) = s <=> \A i \in 1 .. Len(s) : s[i] = t[i]
  <2>1. \A i \in 1 .. Len(s) : t[i] \in Seq(Byte)
    <3>1. \A i \in 1 .. Len(s) : i \in 1 .. Len(t)
      BY <1>1, <1>3
    <3>2. QED
      BY <3>1, ElementOfSeq
  <2> DEFINE n == Len(s)  u == SubSeq(t, 1, n)
  <2>2. 1 \in Int /\ n \in Int
    BY <1>1
  <2>3. /\ u \in Seq(Seq(Byte))
        /\ Len(u) = IF 1 <= n THEN n - 1 + 1 ELSE 0
        /\ \A i \in 1 .. n - 1 + 1 : u[i] = t[1 + i - 1]
    BY <2>1, <2>2, SubSeqProperties
  <2> HIDE DEF u
  <2>4. Len(u) = n /\ \A i \in 1 .. n : u[i] = t[i]
    BY <1>1, <2>3
  <2>5. (\A i \in 1 .. n : s[i] = t[i]) => u = s
    BY <2>3, <2>4, SeqEqual
  <2>6. QED
    BY <2>4, <2>5 DEF u
<1>4. QED
  BY <1>2, <1>3 DEF IsPrefix

\* Decoding goes on or stays where it is, one transaction a step.
LEMMA DecodedGrows ==
    ASSUME NEW c \in Seq(Byte), NEW k \in Nat, NEW n \in Nat, k <= n
    PROVE  /\ IsPrefix(Decoded(c, k).txs, Decoded(c, n).txs)
           /\ Decode(c, Decoded(c, k)) = Decoded(c, k) => Decoded(c, n) = Decoded(c, k)
           /\ Len(Decoded(c, n).txs) <= n
<1> DEFINE D(i) == Decoded(c, i)
<1>1. \A i \in Nat : D(i) \in Progress /\ D(i + 1) = Decode(c, D(i)) /\ D(i).txs \in Seq(Seq(Byte))
  BY DecodedSteps DEF Progress
<1>2. \A i \in Nat : \/ D(i + 1).txs = D(i).txs
                     \/ \E tx \in Seq(Byte) : D(i + 1).txs = Append(D(i).txs, tx)
  <2>1. SUFFICES ASSUME NEW i \in Nat
                 PROVE  \/ D(i + 1).txs = D(i).txs
                        \/ \E tx \in Seq(Byte) : D(i + 1).txs = Append(D(i).txs, tx)
    OBVIOUS
  <2> DEFINE d == D(i)
  <2>2. d \in Progress /\ D(i + 1) = Decode(c, d)
    BY <1>1
  <2> HIDE DEF d, D
  <2>3. \/ Decode(c, d) = d
        \/ \E tx \in Seq(Byte) : Decode(c, d).txs = Append(d.txs, tx)
    BY <2>2, DecodeIs
  <2>4. QED
    BY <2>2, <2>3 DEF d
<1> HIDE DEF D
<1> DEFINE Grown == {i \in 0 .. n - k : IsPrefix(D(k).txs, D(k + i).txs)}
<1>3. n - k \in Nat /\ k + 0 = k /\ k + (n - k) = n /\ \A i \in 0 .. n - k : k + i \in Nat
  OBVIOUS
<1>4. 0 \in Grown
  <2>1. D(k).txs \in Seq(Seq(Byte))
    BY <1>1
  <2>2. Len(D(k).txs) \in Nat
    BY <2>1, LenProperties
  <2>3. IsPrefix(D(k).txs, D(k).txs)
    BY <2>1, <2>2, PrefixIs
  <2>4. QED
    BY <1>3, <2>3
<1>5. ASSUME NEW i \in 0 .. n - k - 1, i \in Grown PROVE i + 1 \in Grown
  <2> DEFINE s == D(k).txs  t == D(k + i).txs  u == D(k + i + 1).txs
  <2>1. k + i \in Nat /\ k + (i + 1) = k + i + 1 /\ k + i + 1 \in Nat /\ i + 1 \in 0 .. n - k
    OBVIOUS
  <2>2. s \in Seq(Seq(Byte)) /\ t \in Seq(Seq(Byte)) /\ u \in Seq(Seq(Byte))
    BY <1>1, <2>1
  <2>3. Len(s) <= Len(t) /\ \A j \in 1 .. Len(s) : s[j] = t[j]
    BY <1>5, <2>2, PrefixIs
  <2>4. u = t \/ \E tx \in Seq(Byte) : u = Append(t, tx)
    BY <1>2, <2>1
  <2> HIDE DEF s, t, u
  <2>5. Len(s) \in Nat /\ Len(t) \in Nat
    BY <2>2, LenProperties
  <2>6. Len(t) <= Len(u) /\ \A j \in 1 .. Len(t) : u[j] = t[j]
    <3>1. CASE u = t
      BY <2>5, <3>1
    <3>2. ASSUME NEW tx \in Seq(Byte), u = Append(t, tx)
          PROVE  Len(t) <= Len(u) /\ \A j \in 1 .. Len(t) : u[j] = t[j]
      <4>1. Len(u) = Len(t) + 1 /\ \A j \in 1 .. Len(t) : u[j] = t[j]
        BY <2>2, <3>2, AppendProperties
      <4>2. QED
        BY <2>5, <4>1
    <3>3. QED
      BY <2>4, <3>1, <3>2
  <2>7. Len(u) \in Nat
    BY <2>2, LenProperties
  <2>8. Len(s) <= Len(u) /\ \A j \in 1 .. Len(s) : s[j] = u[j]
    BY <2>3, <2>5, <2>6, <2>7
  <2>9. IsPrefix(s, u)
    BY <2>2, <2>8, PrefixIs
  <2>10. QED
    BY <2>1, <2>9 DEF s, u
<1>6. IsPrefix(D(k).txs, D(n).txs)
  <2>1. n - k \in Grown
    <3> HIDE DEF Grown
    <3>1. n - k \in 0 .. n - k
      BY <1>3
    <3>2. QED
      BY <1>3, <1>4, <1>5, <3>1, UpTo
  <2>2. QED
    BY <1>3, <2>1
<1> DEFINE Stuck == {i \in 0 .. n - k : D(k + i) = D(k)}
<1>7. ASSUME Decode(c, D(k)) = D(k) PROVE D(n) = D(k)
  <2>1. 0 \in Stuck
    BY <1>3
  <2>2. ASSUME NEW i \in 0 .. n - k - 1, i \in Stuck PROVE i + 1 \in Stuck
    <3>1. k + i \in Nat /\ k + (i + 1) = k + i + 1 /\ i + 1 \in 0 .. n - k
      OBVIOUS
    <3>2. D(k + i + 1) = Decode(c, D(k + i))
      BY <1>1, <3>1
    <3>3. QED
      BY <1>7, <2>2, <3>1, <3>2
  <2>3. n - k \in Stuck
    <3> HIDE DEF Stuck
    <3>1. n - k \in 0 .. n - k
      BY <1>3
    <3>2. QED
      BY <1>3, <2>1, <2>2, <3>1, UpTo
  <2>4. QED
    BY <1>3, <2>3
<1> DEFINE Short == {i \in 0 .. n : Len(D(i).txs) <= i}
<1>8. 0 \in Short
  <2>1. D(0) = Nothing /\ 0 \in 0 .. n
    BY DecodedSteps DEF D
  <2>2. QED
    BY <2>1 DEF Nothing
<1>9. ASSUME NEW i \in 0 .. n - 1, i \in Short PROVE i + 1 \in Short
  <2> DEFINE t == D(i).txs  u == D(i + 1).txs
  <2>1. i \in Nat /\ i + 1 \in 0 .. n
    OBVIOUS
  <2>2. t \in Seq(Seq(Byte)) /\ (u = t \/ \E tx \in Seq(Byte) : u = Append(t, tx)) /\ Len(t) <= i
    BY <1>1, <1>2, <1>9, <2>1
  <2> HIDE DEF t, u
  <2>3. Len(t) \in Nat
    BY <2>2, LenProperties
  <2>4. Len(u) <= Len(t) + 1
    BY <2>2, <2>3, AppendProperties
  <2>5. Len(u) \in Nat
    BY <2>2, <2>3, AppendProperties
  <2>6. Len(u) <= i + 1
    BY <2>1, <2>2, <2>3, <2>4, <2>5
  <2>7. QED
    BY <2>1, <2>6 DEF u
<1>10. n \in Short
  <2> HIDE DEF Short
  <2>1. n \in 0 .. n
    OBVIOUS
  <2>2. QED
    BY <1>8, <1>9, <2>1, UpTo
<1>11. QED
  BY <1>6, <1>7, <1>10 DEF D

-----------------------------------------------------------------------------
(* Parsing, behind: the bytes read so far are those that serialize writes  *)
(* for the fields read so far.                                             *)

Held == [computors_packet : Seq(Byte), query_id : Seq(Byte), query_tx : Seq(Byte),
         reply : Seq(Byte), commit_txs : Seq(Seq(Byte)), reveal_tx : Seq(Byte)]

Introduced(f) == MAGIC \o f.computors_packet \o f.query_id
Asked(f) == Introduced(f) \o Blob(f.query_tx)
Answered(f) == Asked(f) \o Blob(f.reply)
Committed(f, n) == Answered(f) \o (Word(n) \o Packed(f.commit_txs))

ParseType ==
    /\ file \in Seq(Byte) /\ off \in 0 .. Len(file) /\ left \in Nat /\ fx \in Held
    /\ Len(fx.commit_txs) + left < Modulus
    /\ \A i \in 1 .. Len(fx.commit_txs) : Len(fx.commit_txs[i]) < Modulus
    /\ field \in {"magic", "packet", "query_tx", "reply", "count"} =>
           fx.commit_txs = <<>> /\ left = 0

ReadSoFar ==
    /\ field = "magic" => off = 0
    /\ field = "packet" => Behind(file, off) = MAGIC
    /\ field = "query_tx" => Behind(file, off) = Introduced(fx)
    /\ field = "reply" => Behind(file, off) = Asked(fx)
    /\ field = "count" => Behind(file, off) = Answered(fx)
    /\ field = "commits" => Behind(file, off) = Committed(fx, Len(fx.commit_txs) + left)
    /\ field = "reveal_tx" => Behind(file, off) = Committed(fx, Len(fx.commit_txs))
    /\ field = "end" => Behind(file, off) = serialize(fx)
    /\ field = "accepted" => file = serialize(fx)

ParseInv == ParseType /\ ReadSoFar

LEMMA SerializeIs ==
    ASSUME NEW f
    PROVE  serialize(f) = Committed(f, Len(f.commit_txs)) \o Blob(f.reveal_tx)
BY DEF serialize, commits_frame, Committed, Answered, Asked, Introduced

LEMMA HeldType ==
    ASSUME NEW f \in Held, NEW n \in Nat
    PROVE  /\ MAGIC \in Seq(Byte)
           /\ Introduced(f) \in Seq(Byte) /\ Asked(f) \in Seq(Byte) /\ Answered(f) \in Seq(Byte)
           /\ Word(n) \in Seq(Byte) /\ Packed(f.commit_txs) \in Seq(Byte)
           /\ Committed(f, n) \in Seq(Byte)
<1>1. MAGIC \in Seq(Byte)
  BY FixtureAssumption DEF Byte
<1>2. /\ f.computors_packet \in Seq(Byte) /\ f.query_id \in Seq(Byte) /\ f.query_tx \in Seq(Byte)
      /\ f.reply \in Seq(Byte) /\ f.commit_txs \in Seq(Seq(Byte))
  BY DEF Held
<1>3. Introduced(f) \in Seq(Byte)
  BY <1>1, <1>2, Concatenation DEF Introduced
<1>4. Blob(f.query_tx) \in Seq(Byte) /\ Blob(f.reply) \in Seq(Byte)
  BY <1>2, BlobType
<1>5. Asked(f) \in Seq(Byte)
  BY <1>3, <1>4, Concatenation DEF Asked
<1>6. Answered(f) \in Seq(Byte)
  BY <1>4, <1>5, Concatenation DEF Answered
<1>7. Word(n) \in Seq(Byte)
  BY WordType
<1>8. Packed(f.commit_txs) \in Seq(Byte)
  BY <1>2, PackedType
<1>9. Committed(f, n) \in Seq(Byte)
  BY <1>6, <1>7, <1>8, Concatenation DEF Committed
<1>10. QED
  BY <1>1, <1>3, <1>5, <1>6, <1>7, <1>8, <1>9

LEMMA BlobRead ==
    ASSUME ParseType, HasBlob
    PROVE  /\ BlobBytes \in Seq(Byte) /\ Len(BlobBytes) < Modulus
           /\ off + Field + BlobLen \in 0 .. Len(file)
           /\ Behind(file, off + Field + BlobLen) = Behind(file, off) \o Blob(BlobBytes)
<1> DEFINE n == Number(Part(file, off, Field))
<1>1. /\ file \in Seq(Byte) /\ off \in 0 .. Len(file)
      /\ off + Field <= Len(file) /\ off + Field + n <= Len(file)
  BY DEF ParseType, HasBlob, Has, Bytes, Part
<1>2. BlobLen = n /\ BlobBytes = Part(file, off + Field, n)
  BY DEF BlobLen, BlobBytes, Bytes, Part
<1> HIDE DEF n
<1>3. n = Number(Part(file, off, Field))
  BY DEF n
<1>4. /\ n \in Nat /\ n < Modulus /\ off + Field + n \in 0 .. Len(file)
      /\ Part(file, off + Field, n) \in Seq(Byte) /\ Len(Part(file, off + Field, n)) = n
      /\ Behind(file, off + Field + n) = Behind(file, off) \o Blob(Part(file, off + Field, n))
  BY <1>1, <1>3, BlobBehind
<1>5. QED
  BY <1>2, <1>4

LEMMA MagicStep ==
    ASSUME ParseInv, TakeMagic
    PROVE  ParseInv'
<1> USE DEF ParseInv
<1>1. /\ file \in Seq(Byte) /\ off = 0 /\ Len(MAGIC) \in Nat /\ Len(MAGIC) <= Len(file)
      /\ Bytes(0, Len(MAGIC)) = MAGIC
  BY FixtureAssumption, LenProperties DEF ParseType, ReadSoFar, TakeMagic, Has
<1>2. Behind(file, Len(MAGIC)) = MAGIC
  BY <1>1 DEF Bytes, Behind
<1>3. Len(MAGIC) \in 0 .. Len(file)
  BY <1>1, LenProperties
<1>4. field' = "packet" /\ off' = Len(MAGIC) /\ UNCHANGED <<file, left, fx>> /\ field = "magic"
  BY DEF TakeMagic
<1>5. ParseType'
  BY <1>3, <1>4 DEF ParseType
<1>6. Behind(file, off)' = MAGIC
  BY <1>2, <1>4 DEF Behind
<1>7. QED
  BY <1>4, <1>5, <1>6 DEF ReadSoFar

LEMMA PacketStep ==
    ASSUME ParseInv, TakePacket
    PROVE  ParseInv'
<1> USE DEF ParseInv
<1> DEFINE cp == Part(file, off, PACKET_SIZE)  q == off + PACKET_SIZE
           id == Part(file, q, QUERY_ID_SIZE)
<1>1. /\ field = "packet" /\ field' = "query_tx" /\ UNCHANGED <<file, left>>
      /\ off + (PACKET_SIZE + QUERY_ID_SIZE) <= Len(file)
      /\ off' = off + PACKET_SIZE + QUERY_ID_SIZE
      /\ fx' = [fx EXCEPT !.computors_packet = cp, !.query_id = id]
  BY DEF TakePacket, Has, Bytes, Part
<1>2. /\ file \in Seq(Byte) /\ off \in 0 .. Len(file) /\ Len(file) \in Nat
      /\ PACKET_SIZE \in Nat /\ QUERY_ID_SIZE \in Nat
  BY FixtureAssumption, LenProperties DEF ParseType
<1>3. /\ off + PACKET_SIZE <= Len(file) /\ q \in 0 .. Len(file) /\ q + QUERY_ID_SIZE <= Len(file)
      /\ q + QUERY_ID_SIZE \in 0 .. Len(file)
  BY <1>1, <1>2
<1>4. cp \in Seq(Byte) /\ Behind(file, q) = Behind(file, off) \o cp
  <2>1. Follows(file, off, PACKET_SIZE, cp)
    BY <1>2, <1>3, PartFollows
  <2> HIDE DEF cp
  <2>2. QED
    BY <2>1 DEF Follows
<1>5. id \in Seq(Byte) /\ Behind(file, q + QUERY_ID_SIZE) = Behind(file, q) \o id
  <2>1. Follows(file, q, QUERY_ID_SIZE, id)
    <3> HIDE DEF q
    <3>1. QED
      BY <1>2, <1>3, PartFollows
  <2> HIDE DEF q, id
  <2>2. QED
    BY <2>1 DEF Follows
<1> HIDE DEF cp, id
<1>6. /\ fx' \in Held /\ fx'.computors_packet = cp /\ fx'.query_id = id
      /\ fx'.commit_txs = fx.commit_txs
  BY <1>1, <1>4, <1>5 DEF ParseType, Held
<1>7. ParseType'
  BY <1>1, <1>3, <1>6 DEF ParseType
<1>8. Behind(file', off') = Introduced(fx')
  <2>1. Behind(file, off) = MAGIC
    BY <1>1 DEF ReadSoFar
  <2>2. Behind(file', off') = (MAGIC \o cp) \o id
    BY <1>1, <1>4, <1>5, <2>1
  <2>3. QED
    BY <1>6, <2>2 DEF Introduced
<1>9. QED
  BY <1>1, <1>7, <1>8 DEF ReadSoFar

LEMMA QueryStep ==
    ASSUME ParseInv, TakeBlob("query_tx", "reply")
    PROVE  ParseInv'
<1> USE DEF ParseInv
<1> DEFINE b == BlobBytes  q == off + Field + BlobLen
<1>1. /\ field = "query_tx" /\ field' = "reply" /\ HasBlob /\ UNCHANGED <<file, left>>
      /\ off' = q /\ fx' = [fx EXCEPT !.query_tx = b]
  BY DEF TakeBlob
<1>2. b \in Seq(Byte) /\ q \in 0 .. Len(file) /\ Behind(file, q) = Behind(file, off) \o Blob(b)
  BY <1>1, BlobRead
<1> HIDE DEF b, q
<1>3. /\ fx' \in Held /\ fx'.query_tx = b /\ fx'.commit_txs = fx.commit_txs
      /\ fx'.computors_packet = fx.computors_packet /\ fx'.query_id = fx.query_id
  BY <1>1, <1>2 DEF ParseType, Held
<1>4. ParseType'
  BY <1>1, <1>2, <1>3 DEF ParseType
<1>5. Behind(file', off') = Asked(fx')
  <2>1. Behind(file, off) = Introduced(fx)
    BY <1>1 DEF ReadSoFar
  <2>2. Behind(file', off') = Introduced(fx) \o Blob(b)
    BY <1>1, <1>2, <2>1
  <2>3. Introduced(fx') = Introduced(fx)
    BY <1>3 DEF Introduced
  <2>4. QED
    BY <1>3, <2>2, <2>3 DEF Asked
<1>6. QED
  BY <1>1, <1>4, <1>5 DEF ReadSoFar

LEMMA ReplyStep ==
    ASSUME ParseInv, TakeBlob("reply", "count")
    PROVE  ParseInv'
<1> USE DEF ParseInv
<1> DEFINE b == BlobBytes  q == off + Field + BlobLen
<1>1. /\ field = "reply" /\ field' = "count" /\ HasBlob /\ UNCHANGED <<file, left>>
      /\ off' = q /\ fx' = [fx EXCEPT !.reply = b]
  BY DEF TakeBlob
<1>2. b \in Seq(Byte) /\ q \in 0 .. Len(file) /\ Behind(file, q) = Behind(file, off) \o Blob(b)
  BY <1>1, BlobRead
<1> HIDE DEF b, q
<1>3. /\ fx' \in Held /\ fx'.reply = b /\ fx'.commit_txs = fx.commit_txs
      /\ fx'.computors_packet = fx.computors_packet /\ fx'.query_id = fx.query_id
      /\ fx'.query_tx = fx.query_tx
  BY <1>1, <1>2 DEF ParseType, Held
<1>4. ParseType'
  BY <1>1, <1>2, <1>3 DEF ParseType
<1>5. Behind(file', off') = Answered(fx')
  <2>1. Behind(file, off) = Asked(fx)
    BY <1>1 DEF ReadSoFar
  <2>2. Behind(file', off') = Asked(fx) \o Blob(b)
    BY <1>1, <1>2, <2>1
  <2>3. Asked(fx') = Asked(fx)
    BY <1>3 DEF Asked, Introduced
  <2>4. QED
    BY <1>3, <2>2, <2>3 DEF Answered
<1>6. QED
  BY <1>1, <1>4, <1>5 DEF ReadSoFar

LEMMA CountStep ==
    ASSUME ParseInv, TakeCount
    PROVE  ParseInv'
<1> USE DEF ParseInv
<1> DEFINE n == Number(Part(file, off, Field))
<1>1. /\ field = "count" /\ field' = "commits" /\ UNCHANGED <<file, fx>>
      /\ off + Field <= Len(file) /\ off' = off + Field /\ left' = n
  BY DEF TakeCount, Has, Bytes, Part
<1>2. /\ file \in Seq(Byte) /\ off \in 0 .. Len(file) /\ fx \in Held /\ fx.commit_txs = <<>>
  BY <1>1 DEF ParseType
<1>3. n \in Nat /\ n < Modulus /\ Behind(file, off + Field) = Behind(file, off) \o Word(n)
  BY <1>1, <1>2, WordBehind
<1>4. off + Field \in 0 .. Len(file)
  BY <1>1, <1>2, Sizes
<1> HIDE DEF n
<1>5. Len(fx.commit_txs) = 0 /\ Len(fx.commit_txs) + n = n
  BY <1>2, <1>3
<1>6. ParseType'
  BY <1>1, <1>2, <1>3, <1>4, <1>5 DEF ParseType
<1>7. Behind(file', off') = Committed(fx', Len(fx'.commit_txs) + left')
  <2>1. Behind(file, off) = Answered(fx)
    BY <1>1 DEF ReadSoFar
  <2>2. Packed(fx.commit_txs) = <<>>
    BY <1>2, PackedEmpty
  <2>3. Word(n) \o <<>> = Word(n)
    BY <1>3, WordType, ConcatEmptySeq
  <2>4. Committed(fx, n) = Answered(fx) \o Word(n)
    BY <2>2, <2>3 DEF Committed
  <2>5. QED
    BY <1>1, <1>3, <1>5, <2>1, <2>4
<1>8. QED
  BY <1>1, <1>6, <1>7 DEF ReadSoFar

LEMMA CommitStep ==
    ASSUME ParseInv, TakeCommit
    PROVE  ParseInv'
<1> USE DEF ParseInv
<1> DEFINE b == BlobBytes  q == off + Field + BlobLen  txs == fx.commit_txs
<1>1. /\ field = "commits" /\ field' = "commits" /\ HasBlob /\ file' = file
      /\ left > 0 /\ left' = left - 1 /\ off' = q
      /\ fx' = [fx EXCEPT !.commit_txs = Append(fx.commit_txs, b)]
  BY DEF TakeCommit
<1>2. /\ b \in Seq(Byte) /\ q \in 0 .. Len(file) /\ Behind(file, q) = Behind(file, off) \o Blob(b)
      /\ Len(b) < Modulus
  BY <1>1, BlobRead
<1> HIDE DEF b, q
<1>3. fx \in Held /\ txs \in Seq(Seq(Byte)) /\ left \in Nat /\ Len(txs) \in Nat
  BY LenProperties DEF ParseType, Held
<1>4. /\ Append(txs, b) \in Seq(Seq(Byte)) /\ Len(Append(txs, b)) = Len(txs) + 1
      /\ \A i \in 1 .. Len(txs) : Append(txs, b)[i] = txs[i]
      /\ Append(txs, b)[Len(txs) + 1] = b
  BY <1>2, <1>3, AppendProperties
<1>5. /\ fx' \in Held /\ fx'.commit_txs = Append(txs, b) /\ fx'.reply = fx.reply
      /\ fx'.computors_packet = fx.computors_packet /\ fx'.query_id = fx.query_id
      /\ fx'.query_tx = fx.query_tx
  BY <1>1, <1>3, <1>4 DEF Held
<1> DEFINE n == Len(txs) + left
<1>6. Len(fx'.commit_txs) + left' = n /\ left' \in Nat /\ n \in Nat
  <2>1. Len(fx'.commit_txs) = Len(txs) + 1
    BY <1>4, <1>5
  <2>2. left > 0 /\ left' = left - 1
    BY <1>1
  <2>3. QED
    BY <1>3, <2>1, <2>2
<1>7. ParseType'
  <2>1. \A i \in 1 .. Len(fx'.commit_txs) : Len(fx'.commit_txs[i]) < Modulus
    <3>1. SUFFICES ASSUME NEW i \in 1 .. Len(txs) + 1 PROVE Len(Append(txs, b)[i]) < Modulus
      BY <1>4, <1>5
    <3>2. CASE i = Len(txs) + 1
      BY <1>2, <1>4, <3>2
    <3>3. CASE i # Len(txs) + 1
      <4>1. i \in 1 .. Len(txs)
        BY <1>3, <3>3
      <4>2. QED
        BY <1>4, <4>1 DEF ParseType
    <3>4. QED
      BY <3>2, <3>3
  <2>2. n < Modulus
    BY DEF ParseType
  <2>3. QED
    BY <1>1, <1>2, <1>5, <1>6, <2>1, <2>2 DEF ParseType
<1> HIDE DEF n
<1>8. Behind(file', off') = Committed(fx', n)
  <2> DEFINE u == Answered(fx)  w == Word(n)  p == Packed(txs)  x == Blob(b)
  <2>1. Behind(file, off) = u \o (w \o p)
    BY <1>1 DEF ReadSoFar, Committed, n
  <2>2. u \in Seq(Byte) /\ w \in Seq(Byte) /\ p \in Seq(Byte) /\ x \in Seq(Byte)
    BY <1>2, <1>3, <1>6, HeldType, BlobType
  <2>3. Packed(fx'.commit_txs) = p \o x
    BY <1>2, <1>3, <1>5, PackedAppend
  <2>4. Answered(fx') = u
    BY <1>5 DEF Answered, Asked, Introduced
  <2>5. Committed(fx', n) = u \o (w \o (p \o x))
    BY <2>3, <2>4 DEF Committed
  <2>6. Behind(file', off') = (u \o (w \o p)) \o x
    BY <1>1, <1>2, <2>1
  <2>7. (u \o (w \o p)) \o x = u \o (w \o (p \o x))
    <3>1. Then(Then(u, Then(w, p)), x) = Then(u, Then(w, Then(p, x)))
      <4> HIDE DEF u, w, p, x
      <4>1. QED
        BY <2>2, Fourfold
    <3> HIDE DEF u, w, p, x
    <3>2. QED
      BY <3>1 DEF Then
  <2>8. QED
    BY <2>5, <2>6, <2>7
<1>9. Behind(file', off') = Committed(fx', Len(fx'.commit_txs) + left')
  BY <1>6, <1>8
<1>10. QED
  BY <1>1, <1>7, <1>9 DEF ReadSoFar

LEMMA RevealStep ==
    ASSUME ParseInv, TakeBlob("reveal_tx", "end")
    PROVE  ParseInv'
<1> USE DEF ParseInv
<1> DEFINE b == BlobBytes  q == off + Field + BlobLen
<1>1. /\ field = "reveal_tx" /\ field' = "end" /\ HasBlob /\ UNCHANGED <<file, left>>
      /\ off' = q /\ fx' = [fx EXCEPT !.reveal_tx = b]
  BY DEF TakeBlob
<1>2. b \in Seq(Byte) /\ q \in 0 .. Len(file) /\ Behind(file, q) = Behind(file, off) \o Blob(b)
  BY <1>1, BlobRead
<1> HIDE DEF b, q
<1>3. /\ fx' \in Held /\ fx'.reveal_tx = b /\ fx'.commit_txs = fx.commit_txs
      /\ fx'.computors_packet = fx.computors_packet /\ fx'.query_id = fx.query_id
      /\ fx'.query_tx = fx.query_tx /\ fx'.reply = fx.reply
  BY <1>1, <1>2 DEF ParseType, Held
<1>4. ParseType'
  BY <1>1, <1>2, <1>3 DEF ParseType
<1>5. Behind(file', off') = serialize(fx')
  <2> DEFINE n == Len(fx.commit_txs)
  <2>1. Behind(file, off) = Committed(fx, n)
    BY <1>1 DEF ReadSoFar
  <2>2. Behind(file', off') = Committed(fx, n) \o Blob(b)
    BY <1>1, <1>2, <2>1
  <2>3. Committed(fx', n) = Committed(fx, n)
    BY <1>3 DEF Committed, Answered, Asked, Introduced
  <2>4. QED
    BY <1>3, <2>2, <2>3, SerializeIs
<1>6. QED
  BY <1>1, <1>4, <1>5 DEF ReadSoFar

LEMMA EndStep ==
    ASSUME ParseInv, EndCommits \/ Accept \/ Fail \/ BadMagic
    PROVE  ParseInv'
<1> USE DEF ParseInv
<1>1. CASE EndCommits
  <2>1. /\ field = "commits" /\ left = 0 /\ field' = "reveal_tx" /\ UNCHANGED <<file, off, left, fx>>
    BY <1>1 DEF EndCommits
  <2>2. Len(fx.commit_txs) + left = Len(fx.commit_txs)
    <3>1. Len(fx.commit_txs) \in Nat
      BY LenProperties DEF ParseType, Held
    <3>2. QED
      BY <2>1, <3>1
  <2>3. Behind(file, off) = Committed(fx, Len(fx.commit_txs))
    BY <2>1, <2>2 DEF ReadSoFar
  <2>4. ParseType'
    BY <2>1 DEF ParseType
  <2>5. QED
    BY <2>1, <2>3, <2>4 DEF ReadSoFar
<1>2. CASE Accept
  <2>1. /\ field = "end" /\ off = Len(file) /\ field' = "accepted" /\ UNCHANGED <<file, off, left, fx>>
    BY <1>2 DEF Accept
  <2>2. Behind(file, off) = file
    BY <2>1, SubSeqFull DEF Behind, ParseType
  <2>3. file = serialize(fx)
    BY <2>1, <2>2 DEF ReadSoFar
  <2>4. ParseType'
    BY <2>1 DEF ParseType
  <2>5. QED
    BY <2>1, <2>3, <2>4 DEF ReadSoFar
<1>3. CASE Fail \/ BadMagic
  <2>1. field' = "rejected" /\ UNCHANGED <<file, off, left, fx>>
    BY <1>3 DEF Fail, BadMagic, Reject
  <2>2. ParseType'
    BY <2>1 DEF ParseType
  <2>3. QED
    BY <2>1, <2>2 DEF ReadSoFar
<1>4. QED
  BY <1>1, <1>2, <1>3

-----------------------------------------------------------------------------
(* Parsing, ahead: while the file is what serialize wrote for a fixture,   *)
(* the rest of it is what serialize wrote for the fields still to read.    *)

LastTxs(txs, n) == SubSeq(txs, Len(txs) - n + 1, Len(txs))

FromReveal(f) == Then(Blob(f.reveal_tx), <<>>)
FromCommits(f, n) == Then(Packed(LastTxs(f.commit_txs, n)), FromReveal(f))
FromCount(f) == Then(Word(Len(f.commit_txs)), FromCommits(f, Len(f.commit_txs)))
FromReply(f) == Then(Blob(f.reply), FromCount(f))
FromQuery(f) == Then(Blob(f.query_tx), FromReply(f))
FromId(f) == Then(f.query_id, FromQuery(f))
FromPacket(f) == Then(f.computors_packet, FromId(f))

Followed(f) ==
    /\ field # "rejected"
    /\ field = "packet" => Ahead(file, off) = FromPacket(f)
    /\ field = "query_tx" => Ahead(file, off) = FromQuery(f)
    /\ field = "reply" => Ahead(file, off) = FromReply(f)
    /\ field = "count" => Ahead(file, off) = FromCount(f)
    /\ field = "commits" => left <= Len(f.commit_txs) /\ Ahead(file, off) = FromCommits(f, left)
    /\ field = "reveal_tx" => Ahead(file, off) = FromReveal(f)
    /\ field = "end" => Ahead(file, off) = <<>>

GenuineInv == \A f \in Good : serialize(f) = file => Followed(f)

LEMMA EncodableType ==
    ASSUME NEW f, Encodable(f)
    PROVE  /\ f \in Held
           /\ Len(f.computors_packet) = PACKET_SIZE /\ Len(f.query_id) = QUERY_ID_SIZE
           /\ Len(f.query_tx) < Modulus /\ Len(f.reply) < Modulus /\ Len(f.reveal_tx) < Modulus
           /\ Len(f.commit_txs) < Modulus
           /\ \A i \in 1 .. Len(f.commit_txs) : Len(f.commit_txs[i]) < Modulus
<1>1. f \in [computors_packet : [1 .. PACKET_SIZE -> Byte],
             query_id : [1 .. QUERY_ID_SIZE -> Byte],
             query_tx : Seq(Byte), reply : Seq(Byte), commit_txs : Seq(Seq(Byte)),
             reveal_tx : Seq(Byte)]
  BY DEF Encodable
<1>2. PACKET_SIZE \in Nat /\ QUERY_ID_SIZE \in Nat
  BY FixtureAssumption
<1>3. /\ f.computors_packet \in Seq(Byte) /\ Len(f.computors_packet) = PACKET_SIZE
      /\ f.query_id \in Seq(Byte) /\ Len(f.query_id) = QUERY_ID_SIZE
  <2>1. f.computors_packet \in [1 .. PACKET_SIZE -> Byte] /\ f.query_id \in [1 .. QUERY_ID_SIZE -> Byte]
    BY <1>1
  <2>2. QED
    BY <1>2, <2>1
<1>4. f \in Held
  BY <1>1, <1>3 DEF Held
<1>5. \A i \in 1 .. Len(f.commit_txs) : f.commit_txs[i] \in Range(f.commit_txs)
  <2>1. f.commit_txs \in Seq(Seq(Byte))
    BY <1>1
  <2>2. DOMAIN f.commit_txs = 1 .. Len(f.commit_txs)
    BY <2>1, LenProperties
  <2>3. QED
    BY <2>2 DEF Range
<1>6. \A bytes \in {f.query_tx, f.reply, f.reveal_tx} \cup Range(f.commit_txs) : Len(bytes) < Modulus
  BY DEF Encodable
<1>7. Len(f.commit_txs) < Modulus
  BY DEF Encodable
<1>8. QED
  BY <1>3, <1>4, <1>5, <1>6, <1>7

LEMMA LastIs ==
    ASSUME NEW txs \in Seq(Seq(Byte))
    PROVE  /\ LastTxs(txs, 0) = <<>> /\ LastTxs(txs, Len(txs)) = txs
           /\ \A n \in 0 .. Len(txs) : LastTxs(txs, n) \in Seq(Seq(Byte)) /\ Len(LastTxs(txs, n)) = n
           /\ \A n \in 1 .. Len(txs) :
                  /\ Head(LastTxs(txs, n)) = txs[Len(txs) - n + 1]
                  /\ Tail(LastTxs(txs, n)) = LastTxs(txs, n - 1)
                  /\ LastTxs(txs, n) # <<>>
<1> DEFINE last == Len(txs)
<1>1. last \in Nat
  BY LenProperties
<1>2. LastTxs(txs, 0) = <<>>
  <2>1. last - 0 + 1 \in Int /\ last \in Int /\ last < last - 0 + 1
    BY <1>1
  <2>2. QED
    BY <2>1, SubSeqEmpty DEF LastTxs
<1>3. LastTxs(txs, last) = txs
  <2>1. last - last + 1 = 1
    BY <1>1
  <2>2. QED
    BY <2>1, SubSeqFull DEF LastTxs
<1>4. ASSUME NEW n \in 0 .. last
      PROVE  LastTxs(txs, n) \in Seq(Seq(Byte)) /\ Len(LastTxs(txs, n)) = n
  <2> DEFINE i == last - n
  <2>1. i \in 0 .. last /\ last \in i .. last /\ last - i = n
    BY <1>1
  <2> HIDE DEF i
  <2>2. SubSeq(txs, i + 1, last) \in Seq(Seq(Byte)) /\ Len(SubSeq(txs, i + 1, last)) = last - i
    BY <2>1, Slice
  <2>3. QED
    BY <2>1, <2>2 DEF LastTxs, i
<1>5. ASSUME NEW n \in 1 .. last
      PROVE  /\ Head(LastTxs(txs, n)) = txs[last - n + 1]
             /\ Tail(LastTxs(txs, n)) = LastTxs(txs, n - 1)
             /\ LastTxs(txs, n) # <<>>
  <2> DEFINE m == last - n + 1
  <2>1. m \in 1 .. last /\ last \in m .. last /\ m + 1 = last - (n - 1) + 1
    BY <1>1
  <2>2. LastTxs(txs, n) = SubSeq(txs, m, last) /\ LastTxs(txs, n - 1) = SubSeq(txs, m + 1, last)
    BY <2>1 DEF LastTxs
  <2> HIDE DEF m
  <2>3. /\ Head(SubSeq(txs, m, last)) = txs[m]
        /\ Tail(SubSeq(txs, m, last)) = SubSeq(txs, m + 1, last)
    BY <2>1, HeadTailOfSubSeq
  <2>4. Len(LastTxs(txs, n)) = n /\ n # 0
    BY <1>1, <1>4
  <2>5. LastTxs(txs, n) # <<>>
    <3>1. ASSUME LastTxs(txs, n) = <<>> PROVE Len(LastTxs(txs, n)) = 0
      BY <3>1, EmptySeq
    <3>2. QED
      BY <2>4, <3>1
  <2>6. QED
    BY <2>2, <2>3, <2>5 DEF m
<1>6. QED
  BY <1>2, <1>3, <1>4, <1>5

LEMMA PackedLast ==
    ASSUME NEW txs \in Seq(Seq(Byte)), NEW n \in 1 .. Len(txs)
    PROVE  /\ txs[Len(txs) - n + 1] \in Seq(Byte)
           /\ Packed(LastTxs(txs, n - 1)) \in Seq(Byte)
           /\ Packed(LastTxs(txs, n))
                  = Then(Blob(txs[Len(txs) - n + 1]), Packed(LastTxs(txs, n - 1)))
<1>1. Len(txs) \in Nat
  BY LenProperties
<1>2. n \in 0 .. Len(txs) /\ n - 1 \in 0 .. Len(txs) /\ Len(txs) - n + 1 \in 1 .. Len(txs)
  BY <1>1
<1>3. txs[Len(txs) - n + 1] \in Seq(Byte)
  BY <1>2, ElementOfSeq
<1>4. LastTxs(txs, n) \in Seq(Seq(Byte)) /\ LastTxs(txs, n - 1) \in Seq(Seq(Byte))
  BY <1>2, LastIs
<1>5. /\ Head(LastTxs(txs, n)) = txs[Len(txs) - n + 1]
      /\ Tail(LastTxs(txs, n)) = LastTxs(txs, n - 1)
      /\ LastTxs(txs, n) # <<>>
  BY LastIs
<1> DEFINE s == LastTxs(txs, n)
<1>6. Packed(s) = Blob(Head(s)) \o Packed(Tail(s))
  <2> HIDE DEF s
  <2>1. s \in Seq(Seq(Byte)) /\ s # <<>>
    BY <1>4, <1>5 DEF s
  <2>2. QED
    BY <2>1, PackedFirst
<1>7. Packed(LastTxs(txs, n - 1)) \in Seq(Byte)
  BY <1>4, PackedType
<1>8. QED
  BY <1>3, <1>5, <1>6, <1>7 DEF Then

LEMMA AheadType ==
    ASSUME NEW f \in Held, NEW n \in 0 .. Len(f.commit_txs)
    PROVE  /\ FromReveal(f) \in Seq(Byte) /\ FromCommits(f, n) \in Seq(Byte)
           /\ FromCount(f) \in Seq(Byte) /\ FromReply(f) \in Seq(Byte)
           /\ FromQuery(f) \in Seq(Byte) /\ FromId(f) \in Seq(Byte) /\ FromPacket(f) \in Seq(Byte)
           /\ Field * Len(f.commit_txs) <= Len(FromCount(f))
<1> DEFINE last == Len(f.commit_txs)
<1>1. /\ f.computors_packet \in Seq(Byte) /\ f.query_id \in Seq(Byte) /\ f.query_tx \in Seq(Byte)
      /\ f.reply \in Seq(Byte) /\ f.commit_txs \in Seq(Seq(Byte)) /\ f.reveal_tx \in Seq(Byte)
      /\ <<>> \in Seq(Byte)
  BY DEF Held
<1>2. last \in Nat /\ last \in 0 .. last
  BY <1>1, LenProperties
<1>3. /\ Blob(f.query_tx) \in Seq(Byte) /\ Blob(f.reply) \in Seq(Byte)
      /\ Blob(f.reveal_tx) \in Seq(Byte) /\ Word(last) \in Seq(Byte)
  BY <1>1, <1>2, BlobType, WordType
<1>4. FromReveal(f) \in Seq(Byte)
  BY <1>1, <1>3, ThenType DEF FromReveal
<1>5. ASSUME NEW m \in 0 .. last PROVE FromCommits(f, m) \in Seq(Byte)
  <2>1. LastTxs(f.commit_txs, m) \in Seq(Seq(Byte))
    BY <1>1, LastIs
  <2>2. Packed(LastTxs(f.commit_txs, m)) \in Seq(Byte)
    BY <2>1, PackedType
  <2>3. QED
    BY <1>4, <2>2, ThenType DEF FromCommits
<1>6. FromCommits(f, last) \in Seq(Byte)
  BY <1>2, <1>5
<1>7. FromCount(f) \in Seq(Byte) /\ Len(FromCount(f)) = Len(Word(last)) + Len(FromCommits(f, last))
  BY <1>3, <1>6, ThenType DEF FromCount
<1>8. FromReply(f) \in Seq(Byte)
  BY <1>3, <1>7, ThenType DEF FromReply
<1>9. FromQuery(f) \in Seq(Byte)
  BY <1>3, <1>8, ThenType DEF FromQuery
<1>10. FromId(f) \in Seq(Byte)
  BY <1>1, <1>9, ThenType DEF FromId
<1>11. FromPacket(f) \in Seq(Byte)
  BY <1>1, <1>10, ThenType DEF FromPacket
<1>12. Field * last <= Len(FromCount(f))
  <2> DEFINE p == Packed(f.commit_txs)  a == Len(p)  d == Len(FromReveal(f))  w == Len(Word(last))
             m == Field * last
  <2>1. p \in Seq(Byte) /\ m <= a
    BY <1>1, PackedType
  <2>2. FromCommits(f, last) = Then(p, FromReveal(f))
    BY <1>1, LastIs DEF FromCommits
  <2>3. Len(FromCommits(f, last)) = a + d /\ a \in Nat /\ d \in Nat
    <3>1. p \in Seq(Byte)
      BY <2>1
    <3> HIDE DEF p
    <3>2. QED
      BY <1>4, <2>2, <3>1, ThenType
  <2>4. w \in Nat
    BY <1>3, LenProperties
  <2>5. m \in Nat
    BY <1>2, Sizes
  <2>6. Len(FromCount(f)) = w + (a + d)
    BY <1>7, <2>3
  <2> HIDE DEF a, d, w, m
  <2>7. m <= w + (a + d)
    BY <2>1, <2>3, <2>4, <2>5
  <2>8. QED
    BY <2>6, <2>7 DEF m
<1>13. QED
  BY <1>4, <1>5, <1>7, <1>8, <1>9, <1>10, <1>11, <1>12

LEMMA SerializeAhead ==
    ASSUME NEW f \in Held
    PROVE  serialize(f) = Then(MAGIC, FromPacket(f))
<1> DEFINE n == Len(f.commit_txs)
           a == Introduced(f)  d == Asked(f)  e == Answered(f)
           q == Blob(f.query_tx)  r == Blob(f.reply)  v == Blob(f.reveal_tx)
           w == Word(n)  p == Packed(f.commit_txs)
           cp == f.computors_packet  id == f.query_id
<1>1. /\ cp \in Seq(Byte) /\ id \in Seq(Byte) /\ f.query_tx \in Seq(Byte)
      /\ f.reply \in Seq(Byte) /\ f.commit_txs \in Seq(Seq(Byte)) /\ f.reveal_tx \in Seq(Byte)
  BY DEF Held
<1>2. q \in Seq(Byte) /\ r \in Seq(Byte) /\ v \in Seq(Byte)
  BY <1>1, BlobType
<1>3. n \in Nat /\ n \in 0 .. n
  BY <1>1, LenProperties
<1>4. /\ MAGIC \in Seq(Byte) /\ a \in Seq(Byte) /\ d \in Seq(Byte) /\ e \in Seq(Byte)
      /\ w \in Seq(Byte) /\ p \in Seq(Byte)
  BY <1>3, HeldType
<1>5. serialize(f) = Then(Then(e, Then(w, p)), v)
  BY SerializeIs DEF Committed, Then
<1>6. /\ FromReveal(f) = v
      /\ FromCount(f) = Then(w, Then(p, v))
  <2>1. Then(v, <<>>) = v
    BY <1>2, ConcatEmptySeq DEF Then
  <2>2. LastTxs(f.commit_txs, n) = f.commit_txs
    BY <1>1, LastIs
  <2>3. QED
    BY <2>1, <2>2 DEF FromReveal, FromCount, FromCommits
<1>7. e = Then(d, r) /\ d = Then(a, q) /\ a = Then(Then(MAGIC, cp), id)
  BY DEF Answered, Asked, Introduced, Then
<1>8. /\ FromReply(f) = Then(r, FromCount(f)) /\ FromQuery(f) = Then(q, FromReply(f))
      /\ FromId(f) = Then(id, FromQuery(f)) /\ FromPacket(f) = Then(cp, FromId(f))
  BY DEF FromReply, FromQuery, FromId, FromPacket
<1>9. /\ FromCount(f) \in Seq(Byte) /\ FromReply(f) \in Seq(Byte) /\ FromQuery(f) \in Seq(Byte)
      /\ FromId(f) \in Seq(Byte)
  BY <1>3, AheadType
<1> HIDE DEF a, d, e, q, r, v, w, p, cp, id
<1>10. serialize(f) = Then(e, FromCount(f))
  BY <1>2, <1>4, <1>5, <1>6, Fourfold
<1>11. Then(e, FromCount(f)) = Then(d, FromReply(f))
  BY <1>2, <1>4, <1>7, <1>8, <1>9, ThenAssociative
<1>12. Then(d, FromReply(f)) = Then(a, FromQuery(f))
  BY <1>2, <1>4, <1>7, <1>8, <1>9, ThenAssociative
<1>13. Then(MAGIC, cp) \in Seq(Byte)
  BY <1>1, <1>4, ThenType
<1>14. Then(a, FromQuery(f)) = Then(Then(MAGIC, cp), FromId(f))
  BY <1>1, <1>7, <1>8, <1>9, <1>13, ThenAssociative
<1>15. Then(Then(MAGIC, cp), FromId(f)) = Then(MAGIC, FromPacket(f))
  BY <1>1, <1>4, <1>8, <1>9, ThenAssociative
<1>16. QED
  BY <1>10, <1>11, <1>12, <1>14, <1>15

LEMMA CommitAhead ==
    ASSUME NEW f \in Held, NEW n \in 1 .. Len(f.commit_txs)
    PROVE  LET tx == f.commit_txs[Len(f.commit_txs) - n + 1]
           IN  tx \in Seq(Byte) /\ FromCommits(f, n) = Then(Blob(tx), FromCommits(f, n - 1))
<1> DEFINE txs == f.commit_txs  tx == txs[Len(txs) - n + 1]  p == Packed(LastTxs(txs, n - 1))
           b == Blob(tx)  r == FromReveal(f)
<1>1. txs \in Seq(Seq(Byte))
  BY DEF Held
<1>2. Len(txs) \in Nat
  BY <1>1, LenProperties
<1>3. n \in 0 .. Len(txs)
  BY <1>2
<1>4. tx \in Seq(Byte) /\ p \in Seq(Byte) /\ Packed(LastTxs(txs, n)) = Then(b, p)
  <2> HIDE DEF txs
  <2>1. n \in 1 .. Len(txs)
    BY DEF txs
  <2>2. QED
    BY <1>1, <2>1, PackedLast
<1>5. r \in Seq(Byte)
  BY <1>3, AheadType
<1>6. b \in Seq(Byte)
  BY <1>4, BlobType
<1>7. FromCommits(f, n) = Then(Then(b, p), r) /\ FromCommits(f, n - 1) = Then(p, r)
  BY <1>4 DEF FromCommits
<1> HIDE DEF b, p, r
<1>8. Then(Then(b, p), r) = Then(b, Then(p, r))
  BY <1>4, <1>5, <1>6, ThenAssociative
<1>9. QED
  BY <1>4, <1>7, <1>8 DEF b

LEMMA Quotient ==
    ASSUME NEW n \in Nat, NEW m \in Nat, Field * n <= m
    PROVE  n <= m \div Field
<1> DEFINE q == m \div Field  r == m % Field
<1>1. Field \in Nat /\ Field > 0
  BY Sizes
<1>2. q \in Nat /\ r \in 0 .. Field - 1 /\ m = Field * q + r
  BY <1>1
<1> HIDE DEF q, r
<1>3. ASSUME q < n PROVE FALSE
  <2>1. n - q - 1 \in Nat
    BY <1>2, <1>3
  <2> DEFINE d == n - q - 1
  <2> HIDE DEF d
  <2>2. d \in Nat /\ n = q + 1 + d
    BY <1>2, <2>1 DEF d
  <2>3. Field * n = Field * q + Field + Field * d /\ Field * d \in Nat /\ Field * q \in Nat
    BY <1>1, <1>2, <2>2
  <2>4. QED
    BY <1>1, <1>2, <2>3
<1>4. QED
  BY <1>2, <1>3 DEF q

LEMMA GenuineBlob ==
    ASSUME ParseType, NEW b \in Seq(Byte), NEW t \in Seq(Byte), Len(b) < Modulus,
           Ahead(file, off) = Then(Blob(b), t)
    PROVE  HasBlob /\ Ahead(file, off + Field + BlobLen) = t
<1>1. ComesNext(file, off, Blob(b), t)
  BY DEF ComesNext, Then
<1>2. file \in Seq(Byte) /\ off \in 0 .. Len(file)
  BY DEF ParseType
<1>3. /\ off + Field <= Len(file)
      /\ Number(Part(file, off, Field)) = Len(b)
      /\ off + Field + Len(b) <= Len(file)
      /\ Ahead(file, off + Field + Len(b)) = t
  BY <1>1, <1>2, BlobAhead
<1>4. QED
  BY <1>3 DEF HasBlob, Has, Bytes, BlobLen, Part

\* A genuine file is read on, field by field.
LEMMA GenuineStep ==
    ASSUME ParseInv, NEW f, Encodable(f), serialize(f) = file, Followed(f), FixtureNext
    PROVE  Followed(f)'
<1> USE DEF ParseInv
<1>1. /\ f \in Held
      /\ Len(f.computors_packet) = PACKET_SIZE /\ Len(f.query_id) = QUERY_ID_SIZE
      /\ Len(f.query_tx) < Modulus /\ Len(f.reply) < Modulus /\ Len(f.reveal_tx) < Modulus
      /\ Len(f.commit_txs) < Modulus
      /\ \A i \in 1 .. Len(f.commit_txs) : Len(f.commit_txs[i]) < Modulus
  BY EncodableType
<1>2. /\ f.computors_packet \in Seq(Byte) /\ f.query_id \in Seq(Byte) /\ f.query_tx \in Seq(Byte)
      /\ f.reply \in Seq(Byte) /\ f.commit_txs \in Seq(Seq(Byte)) /\ f.reveal_tx \in Seq(Byte)
      /\ Len(f.commit_txs) \in Nat
  BY <1>1, LenProperties DEF Held
<1>3. \A n \in 0 .. Len(f.commit_txs) :
          /\ FromReveal(f) \in Seq(Byte) /\ FromCommits(f, n) \in Seq(Byte)
          /\ FromCount(f) \in Seq(Byte) /\ FromReply(f) \in Seq(Byte)
          /\ FromQuery(f) \in Seq(Byte) /\ FromId(f) \in Seq(Byte) /\ FromPacket(f) \in Seq(Byte)
          /\ Field * Len(f.commit_txs) <= Len(FromCount(f))
  BY <1>1, AheadType
<1>4. 0 \in 0 .. Len(f.commit_txs) /\ Len(f.commit_txs) \in 0 .. Len(f.commit_txs)
  BY <1>2
<1>5. file \in Seq(Byte) /\ off \in 0 .. Len(file) /\ Len(file) \in Nat /\ left \in Nat
  BY LenProperties DEF ParseType
<1>6. CASE field = "magic"
  <2>1. off = 0
    BY <1>6 DEF ReadSoFar
  <2>2. MAGIC \in Seq(Byte) /\ FromPacket(f) \in Seq(Byte)
    BY <1>3, <1>4, FixtureAssumption DEF Byte
  <2>3. ComesNext(file, 0, MAGIC, FromPacket(f))
    <3>1. Ahead(file, 0) = file
      BY <1>5, SubSeqFull DEF Ahead
    <3>2. QED
      BY <1>1, <3>1, SerializeAhead DEF ComesNext, Then
  <2>4. /\ 0 + Len(MAGIC) \in 0 .. Len(file)
        /\ Part(file, 0, Len(MAGIC)) = MAGIC
        /\ Ahead(file, 0 + Len(MAGIC)) = FromPacket(f)
    <3>1. 0 \in 0 .. Len(file)
      BY <1>5
    <3>2. QED
      BY <1>5, <2>2, <2>3, <3>1, NextIsThere
  <2>5. 0 + Len(MAGIC) = Len(MAGIC) /\ Len(MAGIC) \in Nat
    BY <2>2, LenProperties
  <2>6. ~BadMagic
    BY <1>5, <2>4, <2>5 DEF BadMagic, Has, Bytes, Part
  <2>7. TakeMagic
    BY <1>6, <2>6 DEF FixtureNext, TakePacket, TakeBlob, TakeCount, TakeCommit, EndCommits,
                      Accept, Fail, Truncated
  <2>8. field' = "packet" /\ off' = Len(MAGIC) /\ file' = file
    BY <2>7 DEF TakeMagic
  <2>9. Ahead(file', off') = FromPacket(f)
    BY <2>4, <2>5, <2>8
  <2>10. QED
    BY <2>8, <2>9 DEF Followed
<1>7. CASE field = "packet"
  <2> DEFINE q == off + PACKET_SIZE
  <2>1. ComesNext(file, off, f.computors_packet, FromId(f))
    BY <1>7 DEF Followed, FromPacket, ComesNext, Then
  <2>2. q \in 0 .. Len(file) /\ Ahead(file, q) = FromId(f)
    BY <1>1, <1>2, <1>3, <1>4, <1>5, <2>1, NextIsThere
  <2>3. ComesNext(file, q, f.query_id, FromQuery(f))
    BY <2>2 DEF FromId, ComesNext, Then
  <2>4. q + QUERY_ID_SIZE \in 0 .. Len(file) /\ Ahead(file, q + QUERY_ID_SIZE) = FromQuery(f)
    <3> HIDE DEF q
    <3>1. QED
      BY <1>1, <1>2, <1>3, <1>4, <1>5, <2>2, <2>3, NextIsThere
  <2>5. q + QUERY_ID_SIZE = off + (PACKET_SIZE + QUERY_ID_SIZE)
    BY <1>5, FixtureAssumption
  <2>6. Has(off, PACKET_SIZE + QUERY_ID_SIZE)
    BY <1>5, <2>4, <2>5 DEF Has
  <2>7. TakePacket
    BY <1>7, <2>6 DEF FixtureNext, TakeMagic, BadMagic, TakeBlob, TakeCount, TakeCommit,
                      EndCommits, Accept, Fail, Truncated
  <2>8. field' = "query_tx" /\ off' = q + QUERY_ID_SIZE /\ file' = file
    BY <2>7 DEF TakePacket
  <2>9. Ahead(file', off') = FromQuery(f)
    BY <2>4, <2>8
  <2>10. QED
    BY <2>8, <2>9 DEF Followed
<1>8. CASE field = "query_tx"
  <2>1. Ahead(file, off) = Then(Blob(f.query_tx), FromReply(f))
    BY <1>8 DEF Followed, FromQuery
  <2>2. HasBlob /\ Ahead(file, off + Field + BlobLen) = FromReply(f)
    BY <1>1, <1>2, <1>3, <1>4, <2>1, GenuineBlob
  <2>3. TakeBlob("query_tx", "reply")
    BY <1>8, <2>2 DEF FixtureNext, TakeMagic, BadMagic, TakePacket, TakeBlob, TakeCount,
                      TakeCommit, EndCommits, Accept, Fail, Truncated
  <2>4. field' = "reply" /\ off' = off + Field + BlobLen /\ file' = file
    BY <2>3 DEF TakeBlob
  <2>5. Ahead(file', off') = FromReply(f)
    BY <2>2, <2>4
  <2>6. QED
    BY <2>4, <2>5 DEF Followed
<1>9. CASE field = "reply"
  <2>1. Ahead(file, off) = Then(Blob(f.reply), FromCount(f))
    BY <1>9 DEF Followed, FromReply
  <2>2. HasBlob /\ Ahead(file, off + Field + BlobLen) = FromCount(f)
    BY <1>1, <1>2, <1>3, <1>4, <2>1, GenuineBlob
  <2>3. TakeBlob("reply", "count")
    BY <1>9, <2>2 DEF FixtureNext, TakeMagic, BadMagic, TakePacket, TakeBlob, TakeCount,
                      TakeCommit, EndCommits, Accept, Fail, Truncated
  <2>4. field' = "count" /\ off' = off + Field + BlobLen /\ file' = file
    BY <2>3 DEF TakeBlob
  <2>5. Ahead(file', off') = FromCount(f)
    BY <2>2, <2>4
  <2>6. QED
    BY <2>4, <2>5 DEF Followed
<1>10. CASE field = "count"
  <2> DEFINE n == Len(f.commit_txs)
  <2>1. Ahead(file, off) = FromCount(f)
    BY <1>10 DEF Followed
  <2>2. ComesNext(file, off, Word(n), FromCommits(f, n))
    BY <2>1 DEF FromCount, ComesNext, Then
  <2>3. /\ off + Field <= Len(file)
        /\ Number(Part(file, off, Field)) = n
        /\ Ahead(file, off + Field) = FromCommits(f, n)
    <3>1. n \in Nat /\ n < Modulus /\ FromCommits(f, n) \in Seq(Byte)
      BY <1>1, <1>2, <1>3, <1>4
    <3> HIDE DEF n
    <3>2. QED
      BY <1>5, <2>2, <3>1, WordAhead
  <2>4. CountFits(n)
    <3>1. Field * n <= Len(FromCount(f))
      BY <1>3, <1>4
    <3>2. Len(Ahead(file, off)) = Len(file) - off
      <4>1. Len(file) \in off .. Len(file)
        BY <1>5
      <4>2. QED
        BY <1>5, <4>1, Slice DEF Ahead
    <3> DEFINE m == Field * n
    <3>3. m \in Nat /\ n \in Nat
      BY <1>2, Sizes
    <3>4. m <= Len(file)
      <4>1. m <= Len(file) - off
        BY <2>1, <3>1, <3>2
      <4> HIDE DEF m
      <4>2. QED
        BY <1>5, <3>3, <4>1
    <3>5. n <= Len(file) \div Field
      <4> HIDE DEF n
      <4>1. QED
        BY <1>5, <3>3, <3>4, Quotient
    <3>6. QED
      BY <3>5 DEF CountFits
  <2>5. Has(off, Field) /\ CountFits(Number(Bytes(off, Field))) /\ Number(Bytes(off, Field)) = n
    BY <2>3, <2>4 DEF Has, Bytes, Part
  <2>6. TakeCount
    BY <1>10, <2>5 DEF FixtureNext, TakeMagic, BadMagic, TakePacket, TakeBlob,
                       TakeCommit, EndCommits, Accept, Fail, Truncated
  <2>7. field' = "commits" /\ off' = off + Field /\ file' = file /\ left' = n
    BY <2>5, <2>6 DEF TakeCount
  <2>8. Ahead(file', off') = FromCommits(f, left') /\ left' <= Len(f.commit_txs)
    BY <1>2, <2>3, <2>7
  <2>9. QED
    BY <2>7, <2>8 DEF Followed
<1>11. CASE field = "commits" /\ left > 0
  <2>1. left \in 1 .. Len(f.commit_txs) /\ left - 1 \in 0 .. Len(f.commit_txs)
    BY <1>2, <1>5, <1>11 DEF Followed
  <2> DEFINE i == Len(f.commit_txs) - left + 1  tx == f.commit_txs[i]
  <2>2. Ahead(file, off) = FromCommits(f, left)
    BY <1>11 DEF Followed
  <2>3. tx \in Seq(Byte) /\ FromCommits(f, left) = Then(Blob(tx), FromCommits(f, left - 1))
    BY <1>1, <2>1, CommitAhead
  <2>4. i \in 1 .. Len(f.commit_txs)
    BY <1>2, <2>1
  <2>5. Len(tx) < Modulus
    <3> HIDE DEF i
    <3>1. QED
      BY <1>1, <2>4
  <2>6. HasBlob /\ Ahead(file, off + Field + BlobLen) = FromCommits(f, left - 1)
    <3>1. FromCommits(f, left - 1) \in Seq(Byte)
      BY <1>3, <2>1
    <3> HIDE DEF tx
    <3>2. QED
      BY <2>2, <2>3, <2>5, <3>1, GenuineBlob
  <2>7. TakeCommit
    BY <1>5, <1>11, <2>6 DEF FixtureNext, TakeMagic, BadMagic, TakePacket, TakeBlob, TakeCount,
                       EndCommits, Accept, Fail, Truncated
  <2>8. field' = "commits" /\ off' = off + Field + BlobLen /\ file' = file /\ left' = left - 1
    BY <1>11, <2>7 DEF TakeCommit
  <2>9. Ahead(file', off') = FromCommits(f, left') /\ left' <= Len(f.commit_txs)
    BY <1>2, <2>1, <2>6, <2>8
  <2>10. QED
    BY <2>8, <2>9 DEF Followed
<1>12. CASE field = "commits" /\ left = 0
  <2>1. EndCommits
    BY <1>12 DEF FixtureNext, TakeMagic, BadMagic, TakePacket, TakeBlob, TakeCount,
                 TakeCommit, Accept, Fail, Truncated
  <2>2. field' = "reveal_tx" /\ UNCHANGED <<file, off>>
    BY <2>1 DEF EndCommits
  <2>3. Ahead(file, off) = FromCommits(f, 0)
    BY <1>12 DEF Followed
  <2>4. FromCommits(f, 0) = FromReveal(f)
    <3>1. Packed(LastTxs(f.commit_txs, 0)) = <<>>
      BY <1>2, LastIs, PackedEmpty
    <3>2. Then(<<>>, FromReveal(f)) = FromReveal(f)
      <4>1. FromReveal(f) \in Seq(Byte)
        BY <1>3, <1>4
      <4>2. QED
        BY <4>1, ConcatEmptySeq DEF Then
    <3>3. QED
      BY <3>1, <3>2 DEF FromCommits
  <2>5. Ahead(file', off') = FromReveal(f)
    BY <2>2, <2>3, <2>4
  <2>6. QED
    BY <2>2, <2>5 DEF Followed
<1>13. CASE field = "reveal_tx"
  <2>1. Ahead(file, off) = Then(Blob(f.reveal_tx), <<>>)
    BY <1>13 DEF Followed, FromReveal
  <2>2. HasBlob /\ Ahead(file, off + Field + BlobLen) = <<>>
    <3>1. <<>> \in Seq(Byte)
      OBVIOUS
    <3>2. QED
      BY <1>1, <1>2, <2>1, <3>1, GenuineBlob
  <2>3. TakeBlob("reveal_tx", "end")
    BY <1>13, <2>2 DEF FixtureNext, TakeMagic, BadMagic, TakePacket, TakeBlob, TakeCount,
                       TakeCommit, EndCommits, Accept, Fail, Truncated
  <2>4. field' = "end" /\ off' = off + Field + BlobLen /\ file' = file
    BY <2>3 DEF TakeBlob
  <2>5. Ahead(file', off') = <<>>
    BY <2>2, <2>4
  <2>6. QED
    BY <2>4, <2>5 DEF Followed
<1>14. CASE field = "end"
  <2>1. off = Len(file)
    <3>1. Len(Ahead(file, off)) = 0
      BY <1>14 DEF Followed
    <3>2. Len(Ahead(file, off)) = Len(file) - off
      <4>1. Len(file) \in off .. Len(file)
        BY <1>5
      <4>2. QED
        BY <1>5, <4>1, Slice DEF Ahead
    <3>3. QED
      BY <1>5, <3>1, <3>2
  <2>2. Accept
    BY <1>14, <2>1 DEF FixtureNext, TakeMagic, BadMagic, TakePacket, TakeBlob, TakeCount,
                       TakeCommit, EndCommits, Fail, Truncated
  <2>3. QED
    BY <2>2 DEF Accept, Followed
<1>15. \/ field \in {"magic", "packet", "query_tx", "reply", "count", "reveal_tx", "end"}
       \/ field = "commits" /\ (left > 0 \/ left = 0)
  <2>1. left > 0 \/ left = 0
    BY <1>5
  <2>2. QED
    BY <2>1 DEF FixtureNext, TakeMagic, BadMagic, TakePacket, TakeBlob, TakeCount,
                TakeCommit, EndCommits, Accept, Fail, Truncated
<1>16. QED
  BY <1>6, <1>7, <1>8, <1>9, <1>10, <1>11, <1>12, <1>13, <1>14, <1>15

-----------------------------------------------------------------------------
(* The guest's walk over any frame.                                        *)

FrameType ==
    /\ commits \in Seq(Byte)
    /\ verdict \in {"start", "walk", "panic", "quorum", "none"}
    /\ verdict = "start" => pos = 0 /\ turns = 0 /\ raws = <<>>

\* The walk stands where decoding stands after as many transactions, and the turns
\* left are the announced transactions that are missing.
WalkedSoFar ==
    LET n == Number(Part(commits, 0, Field))
        d == Decoded(commits, Len(raws))
    IN  /\ raws \in Seq(Seq(Byte)) /\ turns \in Nat /\ n = Len(raws) + turns
        /\ pos \in 0 .. Len(commits)
        /\ d.at = pos /\ d.txs = raws
        /\ verdict = "none" => turns = 0
        /\ verdict = "panic" => turns > 0 /\ Decode(commits, d) = d

WalkInv ==
    /\ FrameType
    /\ verdict # "start" /\ Len(commits) >= Field /\ FitsMemory => WalkedSoFar

LEMMA FirstWord ==
    ASSUME NEW c
    PROVE  Part(c, 0, Field) = SubSeq(c, 1, Field)
<1>1. 0 + 1 = 1 /\ 0 + Field = Field
  BY Sizes
<1>2. QED
  BY <1>1 DEF Part

LEMMA ReadCountStep ==
    ASSUME WalkInv, ReadCount
    PROVE  WalkInv'
<1> DEFINE n == Number(Part(commits, 0, Field))
<1>1. /\ verdict = "start" /\ Len(commits) >= Field /\ turns' = Number(SubSeq(commits, 1, Field))
      /\ pos' = Field /\ verdict' = "walk" /\ UNCHANGED <<commits, raws>>
  BY DEF ReadCount
<1>2. commits \in Seq(Byte) /\ raws = <<>> /\ Len(commits) \in Nat
  BY <1>1, LenProperties DEF WalkInv, FrameType
<1>3. turns' = n
  BY <1>1, FirstWord
<1>4. n \in Nat
  <2>1. 0 \in 0 .. Len(commits) /\ 0 + Field <= Len(commits)
    BY <1>1, <1>2, Sizes
  <2>2. QED
    BY <1>2, <2>1, WordBehind
<1> HIDE DEF n
<1>5. FrameType'
  BY <1>1, <1>2 DEF FrameType
<1>6. Decoded(commits, 0).at = Field /\ Decoded(commits, 0).txs = <<>>
  <2>1. Decoded(commits, 0) = Nothing
    <3>1. 0 \in Nat
      OBVIOUS
    <3>2. QED
      BY <1>2, <3>1, DecodedSteps
  <2>2. QED
    BY <2>1 DEF Nothing
<1>7. Field \in 0 .. Len(commits)
  BY <1>1, <1>2, Sizes
<1>8. Len(raws) = 0 /\ n = Len(raws) + n /\ raws \in Seq(Seq(Byte))
  BY <1>2, <1>4
<1>9. WalkedSoFar'
  <2>1. Number(Part(commits', 0, Field)) = n
    BY <1>1 DEF n
  <2>2. Decoded(commits', Len(raws')).at = pos' /\ Decoded(commits', Len(raws')).txs = raws'
    BY <1>1, <1>2, <1>6, <1>8
  <2>3. QED
    BY <1>1, <1>3, <1>4, <1>7, <1>8, <2>1, <2>2 DEF WalkedSoFar
<1>10. QED
  BY <1>5, <1>9 DEF WalkInv

LEMMA TurnStep ==
    ASSUME WalkInv, NEW counts \in BOOLEAN, Turn(counts)
    PROVE  WalkInv'
<1>1. /\ verdict = "walk" /\ turns > 0 /\ TurnFits
      /\ raws' = Append(raws, SubSeq(commits, Start + 1, End))
      /\ pos' = End /\ turns' = turns - 1 /\ verdict' \in {"quorum", "walk"}
      /\ commits' = commits
  BY DEF Turn
<1>2. FrameType'
  BY <1>1 DEF FrameType, WalkInv
<1>3. ASSUME Len(commits) >= Field, FitsMemory PROVE WalkedSoFar'
  <2> DEFINE n == Number(Part(commits, pos, Field))  d == Decoded(commits, Len(raws))
             tx == Part(commits, pos + Field, n)
  <2>1. /\ raws \in Seq(Seq(Byte)) /\ turns \in Nat
        /\ Number(Part(commits, 0, Field)) = Len(raws) + turns
        /\ pos \in 0 .. Len(commits) /\ d.at = pos /\ d.txs = raws
    BY <1>1, <1>3 DEF WalkInv, WalkedSoFar
  <2>2. commits \in Seq(Byte) /\ Len(commits) \in Nat /\ Len(raws) \in Nat
    BY <2>1, LenProperties DEF WalkInv, FrameType
  <2>3. /\ pos + Field <= Len(commits) /\ pos + Field + n <= Len(commits)
        /\ n \in Nat /\ pos' = pos + Field + n /\ raws' = Append(raws, tx)
    BY <1>1, <1>3, <2>1, <2>2, TurnFitsIs
  <2>4. d \in Progress /\ Decoded(commits, Len(raws) + 1) = Decode(commits, d)
    BY <2>2, DecodedSteps
  <2> HIDE DEF d
  <2>5. /\ Decode(commits, d).at = pos + Field + n /\ Decode(commits, d).txs = Append(raws, tx)
        /\ tx \in Seq(Byte)
    BY <2>1, <2>2, <2>3, <2>4, DecodeIs
  <2> HIDE DEF tx, n
  <2>6. /\ Append(raws, tx) \in Seq(Seq(Byte)) /\ Len(Append(raws, tx)) = Len(raws) + 1
    BY <2>1, <2>5, AppendProperties
  <2>7. pos' \in 0 .. Len(commits)
    BY <2>1, <2>2, <2>3, Sizes
  <2>8. turns' \in Nat /\ Len(raws') + turns' = Len(raws) + turns
    BY <1>1, <2>1, <2>2, <2>3, <2>6
  <2>9. Decoded(commits', Len(raws')).at = pos' /\ Decoded(commits', Len(raws')).txs = raws'
    BY <1>1, <2>3, <2>4, <2>5, <2>6
  <2>10. Number(Part(commits', 0, Field)) = Len(raws') + turns'
    BY <1>1, <2>1, <2>8
  <2>11. raws' \in Seq(Seq(Byte)) /\ pos' \in 0 .. Len(commits')
    BY <1>1, <2>3, <2>6, <2>7
  <2>12. verdict' # "none" /\ verdict' # "panic"
    BY <1>1
  <2>13. QED
    BY <2>8, <2>9, <2>10, <2>11, <2>12 DEF WalkedSoFar
<1>4. Len(commits') = Len(commits) /\ (FitsMemory' <=> FitsMemory)
  BY <1>1 DEF FitsMemory
<1>5. QED
  BY <1>2, <1>3, <1>4 DEF WalkInv

LEMMA StopStep ==
    ASSUME WalkInv, MissingCount \/ Overrun \/ OutOfTurns
    PROVE  WalkInv'
<1>1. verdict' \in {"panic", "none"} /\ UNCHANGED <<commits, pos, turns, raws>>
  BY DEF MissingCount, Overrun, OutOfTurns
<1>2. FrameType'
  BY <1>1 DEF FrameType, WalkInv
<1>3. ASSUME Len(commits) >= Field, FitsMemory PROVE WalkedSoFar'
  <2> DEFINE n == Number(Part(commits, pos, Field))  d == Decoded(commits, Len(raws))
  <2>1. ~MissingCount
    <3>1. Len(commits) \in Nat /\ Field \in Nat
      BY LenProperties, Sizes DEF WalkInv, FrameType
    <3>2. QED
      BY <1>3, <3>1 DEF MissingCount
  <2>2. verdict = "walk"
    BY <2>1 DEF Overrun, OutOfTurns
  <2>3. /\ raws \in Seq(Seq(Byte)) /\ turns \in Nat
        /\ Number(Part(commits, 0, Field)) = Len(raws) + turns
        /\ pos \in 0 .. Len(commits) /\ d.at = pos /\ d.txs = raws
    BY <1>3, <2>2 DEF WalkInv, WalkedSoFar
  <2>4. commits \in Seq(Byte) /\ Len(raws) \in Nat
    BY <2>3, LenProperties DEF WalkInv, FrameType
  <2>5. CASE Overrun
    <3>1. turns > 0 /\ ~TurnFits /\ verdict' = "panic"
      BY <2>5 DEF Overrun
    <3>2. ~(pos + Field <= Len(commits) /\ pos + Field + n <= Len(commits))
      BY <1>3, <2>3, <2>4, <3>1, TurnFitsIs
    <3>3. d \in Progress
      BY <2>4, DecodedSteps
    <3>4. Decode(commits, d) = d
      <4> HIDE DEF d
      <4>1. QED
        BY <2>3, <2>4, <3>2, <3>3, DecodeIs
    <3>5. QED
      BY <1>1, <2>3, <3>1, <3>4 DEF WalkedSoFar
  <2>6. CASE OutOfTurns
    <3>1. turns = 0 /\ verdict' = "none"
      BY <2>6 DEF OutOfTurns
    <3>2. QED
      BY <1>1, <2>3, <3>1 DEF WalkedSoFar
  <2>7. QED
    BY <2>1, <2>5, <2>6
<1>4. Len(commits') = Len(commits) /\ (FitsMemory' <=> FitsMemory)
  BY <1>1 DEF FitsMemory
<1>5. QED
  BY <1>2, <1>3, <1>4 DEF WalkInv

LEMMA WalkedIsExact == WalkInv => WalkIsExact
<1> SUFFICES ASSUME WalkInv, verdict # "start", Len(commits) >= Field, FitsMemory
             PROVE  LET n == Number(SubSeq(commits, 1, Field))
                        all == Decoded(commits, n).txs
                    IN  /\ IsPrefix(raws, all)
                        /\ verdict \in {"none", "panic"} => raws = all
                        /\ verdict = "none" => Len(all) = n
                        /\ verdict = "panic" => Len(all) < n
  BY DEF WalkIsExact
<1> DEFINE n == Number(SubSeq(commits, 1, Field))  all == Decoded(commits, n).txs
           k == Len(raws)  d == Decoded(commits, k)
<1>1. /\ raws \in Seq(Seq(Byte)) /\ turns \in Nat /\ n = k + turns /\ d.txs = raws
      /\ verdict = "none" => turns = 0
      /\ verdict = "panic" => turns > 0 /\ Decode(commits, d) = d
  BY FirstWord DEF WalkInv, WalkedSoFar
<1>2. commits \in Seq(Byte) /\ k \in Nat
  BY <1>1, LenProperties DEF WalkInv, FrameType
<1>3. n \in Nat /\ k <= n
  BY <1>1, <1>2
<1> HIDE DEF n, k
<1>4. /\ IsPrefix(Decoded(commits, k).txs, Decoded(commits, n).txs)
      /\ Decode(commits, Decoded(commits, k)) = Decoded(commits, k)
             => Decoded(commits, n) = Decoded(commits, k)
  BY <1>2, <1>3, DecodedGrows
<1>5. IsPrefix(raws, all)
  BY <1>1, <1>4
<1>6. ASSUME verdict = "none" PROVE raws = all /\ Len(all) = n
  <2>1. n = k
    BY <1>1, <1>2, <1>6
  <2>2. QED
    BY <1>1, <2>1 DEF k
<1>7. ASSUME verdict = "panic" PROVE raws = all /\ Len(all) < n
  <2>1. raws = all
    BY <1>1, <1>4, <1>7
  <2>2. k < n
    BY <1>1, <1>2, <1>7
  <2>3. QED
    BY <2>1, <2>2 DEF k
<1>8. QED
  BY <1>5, <1>6, <1>7 DEF n

-----------------------------------------------------------------------------
(* The guest's walk over the frame of an honest host.                      *)

\* The first turns have read the first transactions, the last ones are ahead.
WalkedGenuine ==
    LET txs == fx.commit_txs
    IN  /\ verdict # "panic"
        /\ turns \in 0 .. Len(txs) /\ pos \in 0 .. Len(commits)
        /\ raws = SubSeq(txs, 1, Len(txs) - turns)
        /\ Ahead(commits, pos) = Packed(LastTxs(txs, turns))
        /\ verdict = "none" => turns = 0

HonestInv ==
    field = "delivered" /\ file # <<>> =>
        /\ verdict = "start" => commits = commits_frame(fx.commit_txs)
        /\ verdict # "start" /\ FitsMemory => WalkedGenuine

LEMMA OneMore ==
    ASSUME NEW txs \in Seq(Seq(Byte)), NEW i \in 1 .. Len(txs)
    PROVE  SubSeq(txs, 1, i) = Append(SubSeq(txs, 1, i - 1), txs[i])
<1>1. Len(txs) \in Nat
  BY LenProperties
<1>2. 1 \in 1 .. Len(txs) /\ i \in 1 .. Len(txs) /\ i - 1 \in 0 .. Len(txs) /\ 0 \in 0 .. Len(txs)
      /\ 0 + 1 = 1
  BY <1>1
<1>3. SubSeq(txs, 1, i) = SubSeq(txs, 1, i - 1) \o <<txs[i]>>
  BY <1>2, SubSeqRecursiveSecond
<1> DEFINE s == SubSeq(txs, 1, i - 1)
<1>4. s \in Seq(Seq(Byte))
  <2> DEFINE j == i - 1
  <2>1. 0 \in 0 .. Len(txs) /\ j \in 0 .. Len(txs)
    BY <1>2
  <2> HIDE DEF j
  <2>2. SubSeq(txs, 0 + 1, j) \in Seq(Seq(Byte))
    BY <2>1, Slice
  <2>3. QED
    BY <1>2, <2>2 DEF j
<1>5. txs[i] \in Seq(Byte)
  BY <1>2, ElementOfSeq
<1> HIDE DEF s
<1>6. Append(s, txs[i]) = s \o <<txs[i]>>
  BY <1>4, <1>5, AppendIsConcat
<1>7. QED
  BY <1>3, <1>6 DEF s

LEMMA HonestReadCount ==
    ASSUME ParseType, WalkInv, HonestInv, field = "delivered", file # <<>>, ReadCount,
           UNCHANGED fixtureVars
    PROVE  WalkedGenuine'
<1> DEFINE txs == fx.commit_txs  n == Len(txs)
<1>1. /\ verdict = "start" /\ turns' = Number(Part(commits, 0, Field)) /\ pos' = Field
      /\ verdict' = "walk" /\ UNCHANGED <<commits, raws>>
  BY FirstWord DEF ReadCount
<1>2. commits \in Seq(Byte) /\ Len(commits) \in Nat /\ raws = <<>> /\ commits = Word(n) \o Packed(txs)
  BY <1>1, LenProperties DEF WalkInv, FrameType, HonestInv, commits_frame
<1>3. txs \in Seq(Seq(Byte))
  BY DEF ParseType, Held
<1>4. n \in Nat /\ n < Modulus
  <2>1. n \in Nat
    BY <1>3, LenProperties
  <2>2. n + left < Modulus /\ left \in Nat /\ Modulus \in Nat
    BY FieldFits DEF ParseType
  <2>3. QED
    BY <2>1, <2>2
<1>5. Packed(txs) \in Seq(Byte)
  BY <1>3, PackedType
<1>6. ComesNext(commits, 0, Word(n), Packed(txs))
  <2>1. SubSeq(commits, 1, Len(commits)) = commits
    BY <1>2, SubSeqFull
  <2>2. Ahead(commits, 0) = commits
    BY <2>1 DEF Ahead
  <2>3. QED
    BY <1>2, <2>2 DEF ComesNext
<1> HIDE DEF n
<1>7. /\ 0 + Field \in 0 .. Len(commits)
      /\ Number(Part(commits, 0, Field)) = n
      /\ Ahead(commits, 0 + Field) = Packed(txs)
  <2>1. 0 \in 0 .. Len(commits)
    BY <1>2
  <2> HIDE DEF txs
  <2>2. QED
    BY <1>2, <1>4, <1>5, <1>6, <2>1, WordAhead
<1>8. 0 + Field = Field
  BY Sizes
<1>9. LastTxs(txs, n) = txs
  BY <1>3, LastIs DEF n
<1>10. raws = SubSeq(txs, 1, n - n)
  <2>1. 1 \in Int /\ n - n \in Int /\ n - n < 1
    BY <1>4
  <2>2. SubSeq(txs, 1, n - n) = <<>>
    BY <2>1, SubSeqEmpty
  <2>3. QED
    BY <1>2, <2>2
<1>11. fx' = fx
  BY DEF fixtureVars
<1>12. turns' = n /\ n \in 0 .. n
  BY <1>1, <1>4, <1>7
<1>13. QED
  BY <1>1, <1>7, <1>8, <1>9, <1>10, <1>11, <1>12 DEF WalkedGenuine, n

\* What the next turn finds is the next transaction.
LEMMA HonestTurnFits ==
    ASSUME ParseType, WalkInv, WalkedGenuine, FitsMemory, turns > 0
    PROVE  LET txs == fx.commit_txs
               i == Len(txs) - turns + 1
           IN  /\ TurnFits /\ i \in 1 .. Len(txs)
               /\ SubSeq(commits, Start + 1, End) = txs[i]
               /\ End \in 0 .. Len(commits)
               /\ Ahead(commits, End) = Packed(LastTxs(txs, turns - 1))
<1> DEFINE txs == fx.commit_txs  i == Len(txs) - turns + 1  tx == txs[i]
           p == Packed(LastTxs(txs, turns - 1))
<1>1. txs \in Seq(Seq(Byte)) /\ commits \in Seq(Byte)
  BY DEF ParseType, Held, WalkInv, FrameType
<1>2. Len(txs) \in Nat
  BY <1>1, LenProperties
<1>3. turns \in 1 .. Len(txs) /\ i \in 1 .. Len(txs) /\ pos \in 0 .. Len(commits)
  BY <1>2 DEF WalkedGenuine
<1>4. tx \in Seq(Byte) /\ p \in Seq(Byte) /\ Packed(LastTxs(txs, turns)) = Then(Blob(tx), p)
  <2> HIDE DEF txs
  <2>1. turns \in 1 .. Len(txs)
    BY <1>3
  <2>2. QED
    BY <1>1, <2>1, PackedLast
<1>5. Len(tx) < Modulus
  BY <1>3 DEF ParseType
<1>6. ComesNext(commits, pos, Blob(tx), p)
  BY <1>4 DEF WalkedGenuine, ComesNext, Then
<1> HIDE DEF tx, p
<1>7. /\ pos + Field <= Len(commits)
      /\ Number(Part(commits, pos, Field)) = Len(tx)
      /\ pos + Field + Len(tx) <= Len(commits) /\ pos + Field + Len(tx) \in 0 .. Len(commits)
      /\ Part(commits, pos + Field, Len(tx)) = tx
      /\ Ahead(commits, pos + Field + Len(tx)) = p
  BY <1>1, <1>3, <1>4, <1>5, <1>6, BlobAhead
<1>8. /\ TurnFits /\ End = pos + Field + Len(tx)
      /\ SubSeq(commits, Start + 1, End) = Part(commits, pos + Field, Len(tx))
  BY <1>1, <1>3, <1>7, TurnFitsIs
<1>9. QED
  BY <1>3, <1>7, <1>8 DEF tx, p

LEMMA HonestTurn ==
    ASSUME ParseType, WalkInv, WalkedGenuine, FitsMemory, NEW counts \in BOOLEAN, Turn(counts),
           UNCHANGED fixtureVars
    PROVE  WalkedGenuine'
<1> DEFINE txs == fx.commit_txs  i == Len(txs) - turns + 1
<1>1. /\ turns > 0 /\ raws' = Append(raws, SubSeq(commits, Start + 1, End))
      /\ pos' = End /\ turns' = turns - 1 /\ verdict' \in {"quorum", "walk"}
      /\ commits' = commits /\ fx' = fx
  BY DEF Turn, fixtureVars
<1>2. /\ i \in 1 .. Len(txs) /\ SubSeq(commits, Start + 1, End) = txs[i]
      /\ End \in 0 .. Len(commits)
      /\ Ahead(commits, End) = Packed(LastTxs(txs, turns - 1))
  BY <1>1, HonestTurnFits
<1>3. txs \in Seq(Seq(Byte)) /\ turns \in 0 .. Len(txs) /\ raws = SubSeq(txs, 1, Len(txs) - turns)
  BY DEF ParseType, Held, WalkedGenuine
<1>4. Len(txs) \in Nat
  BY <1>3, LenProperties
<1>5. i - 1 = Len(txs) - turns /\ i = Len(txs) - (turns - 1) /\ turns - 1 \in 0 .. Len(txs)
  BY <1>1, <1>3, <1>4
<1>6. SubSeq(txs, 1, i) = Append(SubSeq(txs, 1, i - 1), txs[i])
  <2> HIDE DEF i, txs
  <2>1. QED
    BY <1>2, <1>3, OneMore
<1>7. raws' = SubSeq(txs, 1, Len(txs) - (turns - 1))
  <2>1. raws' = Append(SubSeq(txs, 1, i - 1), txs[i])
    BY <1>1, <1>2, <1>3, <1>5
  <2>2. QED
    BY <1>5, <1>6, <2>1
<1> HIDE DEF i
<1>8. QED
  BY <1>1, <1>2, <1>5, <1>7 DEF WalkedGenuine

LEMMA HonestStep ==
    ASSUME ParseType, WalkInv, HonestInv, field = "delivered", FrameNext, UNCHANGED fixtureVars
    PROVE  HonestInv'
<1> SUFFICES ASSUME file # <<>>, FitsMemory, verdict' # "start"
             PROVE  WalkedGenuine'
  <2>1. file' = file /\ field' = field /\ commits' = commits
    BY DEF FrameNext, ReadCount, MissingCount, Turn, Overrun, OutOfTurns, fixtureVars
  <2>2. verdict' # "start"
    BY DEF FrameNext, ReadCount, MissingCount, Turn, Overrun, OutOfTurns
  <2>3. FitsMemory' <=> FitsMemory
    BY <2>1 DEF FitsMemory
  <2>4. QED
    BY <2>1, <2>2, <2>3 DEF HonestInv
<1>1. CASE ReadCount
  BY <1>1, HonestReadCount
<1>2. CASE MissingCount
  <2>1. /\ verdict = "start" /\ Len(commits) < Field
    BY <1>2 DEF MissingCount
  <2>2. commits = Word(Len(fx.commit_txs)) \o Packed(fx.commit_txs)
    BY <2>1 DEF HonestInv, commits_frame
  <2>3. fx.commit_txs \in Seq(Seq(Byte))
    BY DEF ParseType, Held
  <2>4. Len(fx.commit_txs) \in Nat /\ Packed(fx.commit_txs) \in Seq(Byte)
    BY <2>3, LenProperties, PackedType
  <2>5. Word(Len(fx.commit_txs)) \in Seq(Byte) /\ Len(Word(Len(fx.commit_txs))) = Field
    BY <2>4, WordType
  <2>6. Len(commits) = Field + Len(Packed(fx.commit_txs)) /\ Len(Packed(fx.commit_txs)) \in Nat
    BY <2>2, <2>4, <2>5, ConcatProperties, LenProperties
  <2>7. FALSE
    BY <2>1, <2>6, Sizes
  <2>8. QED
    BY <2>7
<1>3. ASSUME verdict # "start" PROVE WalkedGenuine
  BY <1>3 DEF HonestInv
<1>4. CASE \E counts \in BOOLEAN : Turn(counts)
  <2>1. PICK counts \in BOOLEAN : Turn(counts)
    BY <1>4
  <2>2. WalkedGenuine
    BY <1>3, <2>1 DEF Turn
  <2>3. QED
    BY <2>1, <2>2, HonestTurn
<1>5. CASE Overrun
  <2>1. WalkedGenuine /\ turns > 0 /\ ~TurnFits
    BY <1>3, <1>5 DEF Overrun
  <2>2. QED
    BY <2>1, HonestTurnFits
<1>6. CASE OutOfTurns
  <2>1. WalkedGenuine /\ turns = 0 /\ verdict' = "none" /\ UNCHANGED <<commits, pos, turns, raws>>
    BY <1>3, <1>6 DEF OutOfTurns
  <2>2. fx' = fx
    BY DEF fixtureVars
  <2>3. QED
    BY <2>1, <2>2 DEF WalkedGenuine
<1>7. QED
  BY <1>1, <1>2, <1>4, <1>5, <1>6 DEF FrameNext

-----------------------------------------------------------------------------
(* The theorems.                                                           *)

\* The guest has not begun while the host still parses.
Waiting == field # "delivered" => verdict = "start"

HostInv == ParseInv /\ GenuineInv /\ WalkInv /\ HonestInv /\ Waiting

LEMMA HostInitial == HostInit => HostInv
<1>1. Modulus \in Nat /\ Modulus > 0
  BY FieldFits, Sizes
<1>2. Empty \in Held /\ Empty.commit_txs = <<>>
  BY DEF Held, Empty
<1>3. ASSUME file \in Seq(Byte), off = 0, left = 0, fx = Empty
      PROVE  ParseType
  <2>1. Len(file) \in Nat
    BY <1>3, LenProperties
  <2>2. Len(fx.commit_txs) = 0
    BY <1>2, <1>3
  <2>3. QED
    BY <1>1, <1>2, <1>3, <2>1, <2>2 DEF ParseType
<1>4. ASSUME NEW frames, frames \subseteq Seq(Byte), FrameInit(frames)
      PROVE  FrameType /\ verdict = "start"
  BY <1>4 DEF FrameInit, FrameType
<1>5. CASE FixtureInit(UNION {Damage(serialize(f)) : f \in Good}) /\ FrameInit({<<>>})
  <2>1. field = "magic" /\ off = 0 /\ left = 0 /\ fx = Empty
    BY <1>5 DEF FixtureInit
  <2>2. file \in Seq(Byte)
    <3>1. PICK f \in Good : file \in Damage(serialize(f))
      BY <1>5 DEF FixtureInit
    <3>2. QED
      BY <3>1, HostAssumption
  <2>3. ParseInv /\ GenuineInv
    BY <1>3, <2>1, <2>2 DEF ParseInv, ReadSoFar, GenuineInv, Followed
  <2>4. FrameType /\ verdict = "start"
    <3>1. {<<>>} \subseteq Seq(Byte)
      OBVIOUS
    <3>2. QED
      BY <1>4, <1>5, <3>1
  <2>5. QED
    BY <2>1, <2>3, <2>4 DEF HostInv, WalkInv, HonestInv, Waiting
<1>6. CASE /\ file = <<>> /\ off = 0 /\ field = "delivered" /\ left = 0 /\ fx = Empty
           /\ FrameInit(Frames)
  <2>1. FrameType /\ verdict = "start"
    BY <1>4, <1>6, HostAssumption
  <2>2. file \in Seq(Byte)
    BY <1>6
  <2>3. ParseInv /\ GenuineInv
    BY <1>3, <1>6, <2>2 DEF ParseInv, ReadSoFar, GenuineInv, Followed
  <2>4. QED
    BY <1>6, <2>1, <2>3 DEF HostInv, WalkInv, HonestInv, Waiting
<1>7. QED
  BY <1>5, <1>6 DEF HostInit

LEMMA HostStep == HostInv /\ [HostNext]_hostVars => HostInv'
<1> SUFFICES ASSUME HostInv, [HostNext]_hostVars PROVE HostInv'
  OBVIOUS
<1> USE DEF HostInv
<1>1. CASE FixtureNext /\ UNCHANGED frameVars
  <2>1. file' = file /\ field # "delivered" /\ field' # "delivered"
    BY <1>1 DEF FixtureNext, TakeMagic, BadMagic, TakePacket, TakeBlob, TakeCount, TakeCommit,
                EndCommits, Accept, Fail, Truncated, Reject
  <2>2. ParseInv'
    BY <1>1, MagicStep, PacketStep, QueryStep, ReplyStep, CountStep, CommitStep, RevealStep,
       EndStep DEF FixtureNext
  <2>3. GenuineInv'
    <3>1. SUFFICES ASSUME NEW f \in Good, serialize(f) = file PROVE Followed(f)'
      BY <2>1 DEF GenuineInv
    <3>2. Encodable(f) /\ Followed(f)
      BY <3>1, HostAssumption DEF GenuineInv
    <3>3. QED
      BY <1>1, <3>1, <3>2, GenuineStep
  <2>4. verdict' = verdict /\ verdict = "start" /\ UNCHANGED <<commits, pos, turns, raws>>
    BY <1>1, <2>1 DEF frameVars, Waiting
  <2>5. WalkInv'
    BY <2>4 DEF WalkInv, FrameType
  <2>6. QED
    BY <2>1, <2>2, <2>3, <2>4, <2>5 DEF HonestInv, Waiting
<1>2. CASE Deliver
  <2>1. /\ field = "accepted" /\ field' = "delivered" /\ commits' = commits_frame(fx.commit_txs)
        /\ UNCHANGED <<file, off, left, fx, pos, turns, raws, count, verdict>>
    BY <1>2 DEF Deliver
  <2>2. ParseInv'
    BY <2>1 DEF ParseInv, ParseType, ReadSoFar
  <2>3. GenuineInv'
    BY <2>1 DEF GenuineInv, Followed
  <2>4. commits' \in Seq(Byte)
    <3>1. fx.commit_txs \in Seq(Seq(Byte))
      BY DEF ParseInv, ParseType, Held
    <3>2. Len(fx.commit_txs) \in Nat /\ Packed(fx.commit_txs) \in Seq(Byte)
      BY <3>1, LenProperties, PackedType
    <3>3. Word(Len(fx.commit_txs)) \in Seq(Byte)
      BY <3>2, WordType
    <3>4. QED
      BY <2>1, <3>2, <3>3, ConcatProperties DEF commits_frame
  <2>5. verdict = "start"
    BY <2>1 DEF Waiting
  <2>6. WalkInv'
    BY <2>1, <2>4, <2>5 DEF WalkInv, FrameType
  <2>7. QED
    BY <2>1, <2>2, <2>3, <2>5, <2>6 DEF HonestInv, Waiting
<1>3. CASE field = "delivered" /\ FrameNext /\ UNCHANGED fixtureVars
  <2>1. UNCHANGED <<file, off, field, left, fx>>
    BY <1>3 DEF fixtureVars
  <2>2. ParseInv'
    BY <2>1 DEF ParseInv, ParseType, ReadSoFar, Behind
  <2>3. GenuineInv'
    BY <1>3, <2>1 DEF GenuineInv, Followed
  <2>4. WalkInv'
    BY <1>3, ReadCountStep, TurnStep, StopStep DEF FrameNext
  <2>5. HonestInv'
    BY <1>3, HonestStep DEF ParseInv
  <2>6. QED
    BY <1>3, <2>1, <2>2, <2>3, <2>4, <2>5 DEF Waiting
<1>4. CASE UNCHANGED hostVars
  <2>1. UNCHANGED <<file, off, field, left, fx, commits, pos, turns, raws, count, verdict>>
    BY <1>4 DEF hostVars, fixtureVars, frameVars
  <2>2. ParseInv' /\ GenuineInv'
    BY <2>1 DEF ParseInv, ParseType, ReadSoFar, Behind, GenuineInv, Followed, Ahead
  <2>3. WalkInv'
    BY <2>1 DEF WalkInv, FrameType, WalkedSoFar, FitsMemory
  <2>4. HonestInv'
    BY <2>1 DEF HonestInv, WalkedGenuine, FitsMemory, Ahead
  <2>5. QED
    BY <2>1, <2>2, <2>3, <2>4 DEF Waiting
<1>5. QED
  BY <1>1, <1>2, <1>3, <1>4 DEF HostNext

\* What the host parses and what the guest walks stay in step with what serialize wrote
\* and with what the frame encodes, through every read, turn and refusal.
THEOREM HostInvariance == HostSpec => []HostInv
<1>1. QED
  BY HostInitial, HostStep, PTL DEF HostSpec

\* parse accepts what serialize writes and nothing else: for every file, every fixture
\* and every width of the length fields.
THEOREM ParseIsExact == HostSpec => []ParseInvertsSerialize
<1>1. HostInv => ParseInvertsSerialize
  BY DEF HostInv, ParseInv, ReadSoFar, GenuineInv, Followed, ParseInvertsSerialize
<1>2. QED
  BY <1>1, HostInvariance, PTL

\* The guest's walk reads the transactions a frame encodes, in order, to the quorum or
\* as far as the frame goes, though its offsets wrap: for every frame that fits memory.
THEOREM WalkFollowsTheFrame == HostSpec => []WalkIsExact
<1>1. HostInv => WalkIsExact
  BY WalkedIsExact DEF HostInv
<1>2. QED
  BY <1>1, HostInvariance, PTL

\* From the file to the guest no commit is lost, changed or reordered, and an honest
\* host's frame never makes the guest panic.
THEOREM FixtureReachesTheGuest == HostSpec => []GuestSeesTheFixture
<1>1. HostInv => GuestSeesTheFixture
  <2> SUFFICES ASSUME HostInv, field = "delivered", file # <<>>, FitsMemory
               PROVE  /\ verdict # "panic"
                      /\ IsPrefix(raws, fx.commit_txs)
                      /\ verdict = "none" => raws = fx.commit_txs
    BY DEF GuestSeesTheFixture
  <2> DEFINE txs == fx.commit_txs
  <2>1. txs \in Seq(Seq(Byte))
    BY DEF HostInv, ParseInv, ParseType, Held
  <2>2. Len(txs) \in Nat
    BY <2>1, LenProperties
  <2>3. CASE verdict = "start"
    <3>1. raws = <<>>
      BY <2>3 DEF HostInv, WalkInv, FrameType
    <3>2. <<>> \in Seq(Seq(Byte)) /\ Len(<<>>) = 0
      OBVIOUS
    <3>3. IsPrefix(<<>>, txs)
      <4> HIDE DEF txs
      <4>1. PICK e \in Seq(Seq(Byte)) : e = <<>> /\ Len(e) = 0
        BY <3>2
      <4>2. Len(e) <= Len(txs) /\ \A i \in 1 .. Len(e) : e[i] = txs[i]
        BY <2>2, <4>1
      <4>3. IsPrefix(e, txs)
        BY <2>1, <4>2, PrefixIs
      <4>4. QED
        BY <4>1, <4>3
    <3>4. QED
      BY <2>3, <3>1, <3>3
  <2>4. CASE verdict # "start"
    <3> DEFINE k == Len(txs) - turns
    <3>1. /\ verdict # "panic" /\ turns \in 0 .. Len(txs) /\ raws = SubSeq(txs, 1, k)
          /\ verdict = "none" => turns = 0
      BY <2>4 DEF HostInv, HonestInv, WalkedGenuine
    <3>2. 0 \in 0 .. Len(txs) /\ k \in 0 .. Len(txs) /\ 0 + 1 = 1 /\ k - 0 = k
      BY <2>2, <3>1
    <3>3. /\ raws \in Seq(Seq(Byte)) /\ Len(raws) = k
          /\ \A j \in 1 .. k : raws[j] = txs[j]
      <4> HIDE DEF txs, k
      <4>1. /\ SubSeq(txs, 0 + 1, k) \in Seq(Seq(Byte)) /\ Len(SubSeq(txs, 0 + 1, k)) = k - 0
            /\ \A j \in 1 .. k - 0 : SubSeq(txs, 0 + 1, k)[j] = txs[0 + j]
        BY <2>1, <3>2, Slice
      <4>2. \A j \in 1 .. k : 0 + j = j
        BY <2>2, <3>2
      <4>3. QED
        BY <3>1, <3>2, <4>1, <4>2
    <3>4. IsPrefix(raws, txs)
      <4> HIDE DEF txs, k
      <4>1. Len(raws) <= Len(txs)
        BY <2>2, <3>2, <3>3
      <4>2. QED
        BY <2>1, <3>3, <4>1, PrefixIs
    <3>5. ASSUME verdict = "none" PROVE raws = txs
      <4>1. k = Len(txs)
        BY <2>2, <3>1, <3>5
      <4>2. QED
        BY <2>1, <3>1, <4>1, SubSeqFull
    <3>6. QED
      BY <3>1, <3>4, <3>5
  <2>5. QED
    BY <2>3, <2>4
<1>2. QED
  BY <1>1, HostInvariance, PTL

-----------------------------------------------------------------------------
(* The index of the computors' keys.                                       *)

\* After the sort the order arranges the indices by key.
Ordered == phase # "sort" => order \in Orders /\ InKeyOrder(order)

\* Past the check it does so strictly.
StrictlyOrdered ==
    phase \in {"idle", "search"} =>
        \A p, q \in Slot : p < q => pubkeys[order[p]] < pubkeys[order[q]]

\* What the search has left behind is too small or too large.
Narrowed ==
    /\ \A p \in Slot : p < lo => pubkeys[order[p]] < key
    /\ \A p \in Slot : p >= hi => pubkeys[order[p]] > key

Searched ==
    /\ phase = "search" => key \in Key /\ lo <= hi /\ answer = -1 /\ Narrowed
    /\ phase = "idle" /\ key # -1 =>
        \/ answer \in Slot /\ pubkeys[answer] = key
        \/ answer = -1 /\ lo = hi /\ Narrowed

Panicked == phase = "panic" => ~Distinct

\* Nobody searches before the check.
Unasked == phase \in {"sort", "windows"} => key = -1

IndexInv == IndexTypeOK /\ Ordered /\ StrictlyOrdered /\ Searched /\ Panicked /\ Unasked

-----------------------------------------------------------------------------
(* Neighbours that differ in a sorted order differ everywhere.             *)
LEMMA NeighboursSuffice ==
    ASSUME pubkeys \in [Slot -> Key], order \in [Slot -> Slot],
           InKeyOrder(order), NeighboursDiffer
    PROVE  \A p, q \in Slot : p < q => pubkeys[order[p]] < pubkeys[order[q]]
<1> USE IndexAssumption DEF IndexAssumption
<1> SUFFICES ASSUME NEW p \in Slot, NEW q \in Slot, p < q
             PROVE  pubkeys[order[p]] < pubkeys[order[q]]
    OBVIOUS
<1>1. p \in 0 .. NUMBER_OF_COMPUTORS - 2 /\ p + 1 \in Slot /\ p + 1 <= q
    BY DEF Slot
<1>2. pubkeys[order[p]] # pubkeys[order[p + 1]]
    BY <1>1 DEF NeighboursDiffer
<1>3. pubkeys[order[p]] <= pubkeys[order[p + 1]]
    BY <1>1 DEF InKeyOrder, Slot
<1>4. p + 1 = q \/ pubkeys[order[p + 1]] <= pubkeys[order[q]]
    BY <1>1 DEF InKeyOrder, Slot
<1>5. order[p] \in Slot /\ order[p + 1] \in Slot /\ order[q] \in Slot
    BY <1>1
<1>6. pubkeys[order[p]] \in Key /\ pubkeys[order[p + 1]] \in Key /\ pubkeys[order[q]] \in Key
    BY <1>5
<1>7. QED
    BY <1>2, <1>3, <1>4, <1>6 DEF Key

\* A strict order of all indices leaves no key twice in the list.
LEMMA StrictIsDistinct ==
    ASSUME pubkeys \in [Slot -> Key], order \in Orders,
           \A p, q \in Slot : p < q => pubkeys[order[p]] < pubkeys[order[q]]
    PROVE  Distinct
<1> USE IndexAssumption DEF IndexAssumption
<1> SUFFICES ASSUME NEW i \in Slot, NEW j \in Slot, i # j
             PROVE  pubkeys[i] # pubkeys[j]
    BY DEF Distinct
<1>1. PICK p \in Slot : order[p] = i
    BY DEF Orders
<1>2. PICK q \in Slot : order[q] = j
    BY DEF Orders
<1>3. p < q \/ q < p
    BY <1>1, <1>2 DEF Slot
<1>4. pubkeys[i] \in Nat /\ pubkeys[j] \in Nat
    BY DEF Key
<1>5. QED
    BY <1>1, <1>2, <1>3, <1>4

LEMMA IndexStart == IndexInit => IndexInv
BY IndexAssumption
   DEF IndexAssumption, IndexInit, IndexInv, IndexTypeOK, Ordered, StrictlyOrdered, Searched, Panicked, Unasked, Slot, Key

LEMMA IndexStep == IndexInv /\ [IndexNext]_indexVars => IndexInv'
<1> SUFFICES ASSUME IndexInv, [IndexNext]_indexVars PROVE IndexInv'
    OBVIOUS
<1> USE IndexAssumption DEF IndexAssumption
<1>1. CASE Sort
    BY <1>1 DEF Sort, IndexInv, IndexTypeOK, Ordered, StrictlyOrdered, Searched, Panicked,
                Unasked, InKeyOrder, Orders
<1>2. CASE Windows
    <2>1. order \in Orders /\ InKeyOrder(order) /\ pubkeys \in [Slot -> Key]
        BY <1>2 DEF Windows, IndexInv, Ordered, IndexTypeOK
    <2>2. order \in [Slot -> Slot]
        BY <2>1 DEF Orders
    <2>3. UNCHANGED <<pubkeys, order, key, lo, hi, answer>>
        BY <1>2 DEF Windows
    <2>4. CASE NeighboursDiffer
        <3>1. phase' = "idle"
            BY <1>2, <2>4 DEF Windows
        <3>2. \A p, q \in Slot : p < q => pubkeys[order[p]] < pubkeys[order[q]]
            BY <2>1, <2>2, <2>4, NeighboursSuffice
        <3>3. key = -1
            BY <1>2 DEF Windows, IndexInv, Unasked
        <3>4. QED
            BY <2>1, <2>3, <3>1, <3>2, <3>3
               DEF IndexInv, IndexTypeOK, Ordered, StrictlyOrdered, Searched, Panicked, Unasked,
                   InKeyOrder, Orders
    <2>5. CASE ~NeighboursDiffer
        <3>1. phase' = "panic"
            BY <1>2, <2>5 DEF Windows
        <3>2. PICK p \in 0 .. NUMBER_OF_COMPUTORS - 2 : pubkeys[order[p]] = pubkeys[order[p + 1]]
            BY <2>5 DEF NeighboursDiffer
        <3>3. p \in Slot /\ p + 1 \in Slot /\ p # p + 1
            BY DEF Slot
        <3>4. order[p] \in Slot /\ order[p + 1] \in Slot /\ order[p] # order[p + 1]
            BY <2>1, <2>2, <3>3 DEF Orders
        <3>5. ~Distinct
            BY <3>2, <3>4 DEF Distinct
        <3>6. QED
            BY <2>1, <2>3, <3>1, <3>5
               DEF IndexInv, IndexTypeOK, Ordered, StrictlyOrdered, Searched, Panicked, Unasked,
                   InKeyOrder, Orders, Distinct
    <2>6. QED
        BY <2>4, <2>5
<1>3. ASSUME NEW k \in Key, Find(k) PROVE IndexInv'
    <2>1. /\ lo' = 0 /\ hi' = NUMBER_OF_COMPUTORS /\ answer' = -1 /\ key' = k /\ phase' = "search"
          /\ phase = "idle" /\ UNCHANGED <<pubkeys, order>>
        BY <1>3 DEF Find
    <2>2. Narrowed'
        BY <2>1 DEF Narrowed, Slot
    <2>3. IndexTypeOK'
        BY <2>1 DEF IndexInv, IndexTypeOK
    <2>4. QED
        BY <2>1, <2>2, <2>3
           DEF IndexInv, Ordered, StrictlyOrdered, Searched, Panicked, Unasked, InKeyOrder, Orders
<1>4. ASSUME NEW mid \in Slot, Probe(mid) PROVE IndexInv'
    <2> DEFINE probed == pubkeys[order[mid]]
    <2>1. /\ pubkeys \in [Slot -> Key] /\ order \in [Slot -> Slot] /\ key \in Key
          /\ order \in Orders /\ InKeyOrder(order)
          /\ \A p, q \in Slot : p < q => pubkeys[order[p]] < pubkeys[order[q]]
          /\ lo <= hi /\ lo \in Nat /\ hi \in Nat /\ hi <= NUMBER_OF_COMPUTORS
          /\ mid \in lo .. hi - 1 /\ Narrowed /\ answer = -1
        BY <1>4 DEF Probe, IndexInv, IndexTypeOK, Ordered, StrictlyOrdered, Searched
    <2>2. probed \in Nat /\ key \in Nat /\ \A p \in Slot : pubkeys[order[p]] \in Nat
        <3>1. \A p \in Slot : pubkeys[order[p]] \in Key
            BY <2>1
        <3>2. Key \subseteq Nat
            BY DEF Key
        <3>3. QED
            BY <2>1, <3>1, <3>2
    <2>3. UNCHANGED <<pubkeys, order, key>>
        BY <1>4 DEF Probe
    <2>4. CASE probed = key
        <3>1. lo' = lo /\ hi' = hi /\ answer' = order[mid] /\ phase' = "idle"
            BY <1>4, <2>2, <2>4 DEF Probe
        <3>2. QED
            BY <2>1, <2>3, <2>4, <3>1
               DEF IndexInv, IndexTypeOK, Ordered, StrictlyOrdered, Searched, Panicked, Unasked,
                   InKeyOrder, Orders
    <2>5. CASE probed < key
        <3>1. lo' = mid + 1 /\ hi' = hi /\ answer' = -1 /\ phase' = "search"
            BY <1>4, <2>2, <2>5 DEF Probe
        <3>2. ASSUME NEW p \in Slot, p < mid + 1 PROVE pubkeys[order[p]] < key
            <4>1. p = mid \/ p < mid
                BY <3>2 DEF Slot
            <4>2. p = mid \/ pubkeys[order[p]] < probed
                BY <2>1, <4>1
            <4>3. QED
                BY <2>2, <2>5, <4>2
        <3>3. Narrowed'
            BY <2>1, <2>3, <3>1, <3>2 DEF Narrowed
        <3>4. lo' <= hi' /\ lo' \in 0 .. NUMBER_OF_COMPUTORS
            BY <2>1, <3>1
        <3>5. QED
            BY <2>1, <2>3, <3>1, <3>3, <3>4
               DEF IndexInv, IndexTypeOK, Ordered, StrictlyOrdered, Searched, Panicked, Unasked,
                   InKeyOrder, Orders
    <2>6. CASE probed > key
        <3>1. lo' = lo /\ hi' = mid /\ answer' = -1 /\ phase' = "search"
            BY <1>4, <2>2, <2>6 DEF Probe
        <3>2. ASSUME NEW p \in Slot, p >= mid PROVE pubkeys[order[p]] > key
            <4>1. p = mid \/ mid < p
                BY <3>2 DEF Slot
            <4>2. p = mid \/ probed < pubkeys[order[p]]
                BY <2>1, <4>1
            <4>3. QED
                BY <2>2, <2>6, <4>2
        <3>3. Narrowed'
            BY <2>1, <2>3, <3>1, <3>2 DEF Narrowed
        <3>4. lo' <= hi' /\ hi' \in 0 .. NUMBER_OF_COMPUTORS
            BY <2>1, <3>1
        <3>5. QED
            BY <2>1, <2>3, <3>1, <3>3, <3>4
               DEF IndexInv, IndexTypeOK, Ordered, StrictlyOrdered, Searched, Panicked, Unasked,
                   InKeyOrder, Orders
    <2>7. QED
        BY <2>2, <2>4, <2>5, <2>6
<1>5. CASE NotFound
    BY <1>5 DEF NotFound, IndexInv, IndexTypeOK, Ordered, StrictlyOrdered, Searched, Narrowed, Panicked,
                Unasked, InKeyOrder, Orders
<1>6. CASE UNCHANGED indexVars
    BY <1>6 DEF indexVars, IndexInv, IndexTypeOK, Ordered, StrictlyOrdered, Searched, Narrowed, Panicked,
                Unasked, InKeyOrder, Orders, Distinct
<1>7. QED
    BY <1>1, <1>2, <1>3, <1>4, <1>5, <1>6 DEF IndexNext

-----------------------------------------------------------------------------
(* The theorems.                                                           *)

\* The invariant holds in every reachable state.
THEOREM IndexInvariance == IndexSpec => []IndexInv
BY IndexStart, IndexStep, PTL DEF IndexSpec

\* A list passes reject_duplicate_pubkeys exactly when no key occurs twice.
THEOREM DuplicatesPanic == IndexSpec => []RepeatedKeysPanic
<1>1. IndexInv => RepeatedKeysPanic
    <2> SUFFICES ASSUME IndexInv PROVE RepeatedKeysPanic
        OBVIOUS
    <2>1. phase \in {"idle", "search"} => Distinct
        BY StrictIsDistinct DEF IndexInv, IndexTypeOK, Ordered, StrictlyOrdered
    <2>2. QED
        BY <2>1 DEF IndexInv, Panicked, RepeatedKeysPanic
<1>2. QED
    BY <1>1, IndexInvariance, PTL

\* find_computor returns the index of the key, and None only for a key the list
\* does not hold.
THEOREM SearchIsExact == IndexSpec => []FindsTheComputor
<1>1. IndexInv => FindsTheComputor
    <2> SUFFICES ASSUME IndexInv, phase = "idle", key # -1
                 PROVE  IF answer = -1 THEN \A i \in Slot : pubkeys[i] # key ELSE pubkeys[answer] = key
        BY DEF FindsTheComputor
    <2>1. CASE answer \in Slot /\ pubkeys[answer] = key
        BY <2>1, IndexAssumption DEF IndexAssumption, Slot
    <2>2. CASE answer = -1 /\ lo = hi /\ Narrowed
        <3>1. pubkeys \in [Slot -> Key] /\ order \in Orders /\ lo \in Nat /\ key \in Key
            BY DEF IndexInv, IndexTypeOK, Ordered
        <3>2. ASSUME NEW i \in Slot PROVE pubkeys[i] # key
            <4>1. PICK p \in Slot : order[p] = i
                BY <3>1 DEF Orders
            <4>2. p < lo \/ p >= hi
                BY <2>2, <3>1 DEF Slot
            <4>3. pubkeys[i] < key \/ pubkeys[i] > key
                BY <2>2, <4>1, <4>2 DEF Narrowed
            <4>4. pubkeys[i] \in Nat /\ key \in Nat
                BY <3>1 DEF Key
            <4>5. QED
                BY <4>3, <4>4
        <3>3. QED
            BY <2>2, <3>2
    <2>3. QED
        BY <2>1, <2>2 DEF IndexInv, Searched
<1>2. QED
    BY <1>1, IndexInvariance, PTL

-----------------------------------------------------------------------------
(* The arbitrator's identity: letters.                                     *)

Letter == 0 .. Alphabet - 1

LEMMA TextsAre ==
    ASSUME NEW letters \in Nat
    PROVE  Texts(letters) = Powers(Alphabet, letters)[letters] /\ Texts(letters) \in Nat
<1>1. Texts(letters) = Powers(Alphabet, letters)[letters]
  BY DEF Texts, Powers
<1>2. Alphabet \in Nat /\ letters \in 0 .. letters
  BY IdentityAssumption
<1>3. QED
  BY <1>1, <1>2, PowersAre

LEMMA LetterSizes ==
    /\ Alphabet \in Nat /\ Alphabet > 0
    /\ Fragments \in Nat /\ Fragments >= 1
    /\ FragmentLetters \in Nat /\ FragmentLetters >= 1
    /\ ChecksumLetters \in Nat /\ ChecksumLetters >= 1
    /\ FragmentModulus \in Nat /\ FragmentModulus >= 1
    /\ FragmentModulus <= Texts(FragmentLetters)
    /\ ChecksumModulus \in Nat /\ ChecksumModulus >= 1
<1>1. /\ Alphabet \in Nat \ {0, 1} /\ Fragments \in Nat \ {0}
      /\ FragmentLetters \in Nat \ {0} /\ ChecksumLetters \in Nat \ {0}
  BY IdentityAssumption
<1>2. Texts(FragmentLetters) \in Nat /\ Texts(ChecksumLetters) \in Nat
  BY <1>1, TextsAre
<1>3. QED
  BY <1>1, <1>2, IdentityAssumption

\* What is left of v after k divisions is what its letters are taken from.
LEMMA DigitsAre ==
    ASSUME NEW v \in Nat, NEW letters \in Nat
    PROVE  \E rest \in [0 .. letters -> Nat] :
               /\ rest[0] = v /\ \A k \in 1 .. letters : rest[k] = rest[k - 1] \div Alphabet
               /\ Digits(v, letters) = [k \in 1 .. letters |-> rest[k - 1] % Alphabet]
               /\ v < Texts(letters) => rest[letters] = 0
<1> DEFINE rest == Divisions(Alphabet, letters, v)
           power == Powers(Alphabet, letters)
<1>1. Digits(v, letters) = [k \in 1 .. letters |-> rest[k - 1] % Alphabet]
  BY DEF Digits, Divisions
<1> HIDE DEF rest
<1>2. Alphabet \in Nat /\ Alphabet > 0
  BY LetterSizes
<1>3. /\ rest \in [0 .. letters -> Nat] /\ rest[0] = v
      /\ \A k \in 1 .. letters : rest[k] = rest[k - 1] \div Alphabet
  BY <1>2, DivisionsAre DEF rest
<1>4. /\ power \in [0 .. letters -> Nat] /\ power[0] = 1
      /\ \A k \in 1 .. letters : power[k] = Alphabet * power[k - 1]
  BY <1>2, PowersAre
<1>5. Texts(letters) = power[letters]
  BY TextsAre
<1> HIDE DEF power
<1>6. v < Texts(letters) => rest[letters] = 0
  <2>1. Multiplies(Alphabet, letters, power) /\ Divides(Alphabet, letters, rest)
    BY <1>3, <1>4 DEF Multiplies, Divides
  <2>2. SUFFICES ASSUME v < Texts(letters) PROVE rest[letters] = 0
    OBVIOUS
  <2>3. rest[0] < power[letters]
    BY <1>3, <1>5, <2>2
  <2>4. QED
    BY <1>2, <2>1, <2>3, NothingDivided
<1>7. QED
  BY <1>1, <1>3, <1>6

LEMMA DigitsType ==
    ASSUME NEW v \in Nat, NEW letters \in Nat
    PROVE  /\ Digits(v, letters) \in Seq(Letter) /\ Len(Digits(v, letters)) = letters
           /\ DOMAIN Digits(v, letters) = 1 .. letters
<1>1. PICK rest \in [0 .. letters -> Nat] :
          /\ rest[0] = v /\ \A k \in 1 .. letters : rest[k] = rest[k - 1] \div Alphabet
          /\ Digits(v, letters) = [k \in 1 .. letters |-> rest[k - 1] % Alphabet]
          /\ v < Texts(letters) => rest[letters] = 0
  BY DigitsAre, Zenon
<1>2. \A k \in 1 .. letters : rest[k - 1] % Alphabet \in Letter
  <2>1. Alphabet \in Nat /\ Alphabet > 0 /\ \A k \in 1 .. letters : rest[k - 1] \in Nat
    BY LetterSizes
  <2>2. \A n \in Nat : n % Alphabet \in Nat /\ n % Alphabet < Alphabet
    BY <2>1, DivMod
  <2>3. QED
    BY <2>1, <2>2 DEF Letter
<1>3. Digits(v, letters) \in [1 .. letters -> Letter]
  BY <1>1, <1>2
<1>4. QED
  BY <1>3

\* FlattenSeq joins the sequences from the left.
LEMMA Flattened ==
    ASSUME NEW seqs \in Seq(Seq(Letter)), Len(seqs) # 0
    PROVE  \E upto \in [0 .. Len(seqs) - 1 -> Seq(Letter)] :
               /\ upto[0] = seqs[1]
               /\ \A k \in 1 .. Len(seqs) - 1 : upto[k] = Then(upto[k - 1], seqs[k + 1])
               /\ FlattenSeq(seqs) = upto[Len(seqs) - 1]
<1> DEFINE n == Len(seqs) - 1
           g == [k \in 1 .. n |-> [x \in Seq(Letter) |-> Then(x, seqs[k + 1])]]
<1>1. /\ n \in Nat /\ Len(seqs) = n + 1 /\ seqs[1] \in Seq(Letter)
      /\ \A k \in 1 .. n : seqs[k + 1] \in Seq(Letter)
  <2>1. Len(seqs) \in Nat /\ \A k \in 1 .. Len(seqs) : seqs[k] \in Seq(Letter)
    BY LenProperties, ElementOfSeq
  <2>2. QED
    BY <2>1
<1> HIDE DEF n
<1>2. g \in [1 .. n -> [Seq(Letter) -> Seq(Letter)]]
  <2>1. \A k \in 1 .. n, x \in Seq(Letter) : Then(x, seqs[k + 1]) \in Seq(Letter)
    BY <1>1, ConcatProperties DEF Then
  <2>2. QED
    BY <2>1
<1>3. PICK f : Solves(n, Seq(Letter), seqs[1], g, f)
  <2> HIDE DEF g
  <2>1. QED
    BY <1>1, <1>2, Recursion
<1>4. /\ f \in [0 .. n -> Seq(Letter)] /\ f[0] = seqs[1]
      /\ \A k \in 1 .. n : f[k] = Then(f[k - 1], seqs[k + 1])
  <2>1. \A k \in 1 .. n : k - 1 \in 0 .. n
    BY <1>1
  <2>2. QED
    BY <1>3, <2>1 DEF Solves
<1> DEFINE flatten[i \in 1 .. n + 1] ==
               IF i = 1 THEN seqs[i] ELSE Then(flatten[i - 1], seqs[i])
           h == [i \in 1 .. n + 1 |-> f[i - 1]]
<1>5. flatten = [i \in 1 .. n + 1 |-> IF i = 1 THEN seqs[i] ELSE Then(flatten[i - 1], seqs[i])]
  <2>1. ASSUME NEW i \in 1 .. n + 1
        PROVE  h[i] = IF i = 1 THEN seqs[i] ELSE Then(h[i - 1], seqs[i])
    <3>1. CASE i = 1
      BY <1>1, <1>4, <3>1
    <3>2. CASE i # 1
      <4>1. i - 1 \in 1 .. n /\ i - 1 \in 1 .. n + 1 /\ i - 1 + 1 = i
        BY <1>1, <3>2
      <4>2. f[i - 1] = Then(f[i - 1 - 1], seqs[i - 1 + 1])
        BY <1>4, <4>1
      <4>3. QED
        BY <3>2, <4>1, <4>2
    <3>3. QED
      BY <3>1, <3>2
  <2>2. h = [i \in 1 .. n + 1 |-> IF i = 1 THEN seqs[i] ELSE Then(h[i - 1], seqs[i])]
    <3>1. h = [i \in 1 .. n + 1 |-> h[i]]
      OBVIOUS
    <3> HIDE DEF h
    <3>2. QED
      BY <2>1, <3>1
  <2> HIDE DEF h
  <2>3. QED
    BY <2>2
<1>6. FlattenSeq(seqs) = flatten[n + 1]
  BY <1>1 DEF FlattenSeq, Then
<1> HIDE DEF flatten, h
<1> DEFINE upto == [k \in 0 .. n |-> flatten[k + 1]]
<1>7. /\ upto[0] = seqs[1]
      /\ \A k \in 1 .. n : upto[k] = Then(upto[k - 1], seqs[k + 1])
  <2>1. \A i \in 1 .. n + 1 :
            flatten[i] = IF i = 1 THEN seqs[i] ELSE Then(flatten[i - 1], seqs[i])
    BY <1>5
  <2>2. upto[0] = flatten[1] /\ 1 \in 1 .. n + 1
    BY <1>1
  <2>3. ASSUME NEW k \in 1 .. n
        PROVE  upto[k] = Then(upto[k - 1], seqs[k + 1])
    <3>1. k + 1 \in 1 .. n + 1 /\ k + 1 # 1 /\ k + 1 - 1 = k
          /\ k \in 0 .. n /\ k - 1 \in 0 .. n /\ k - 1 + 1 = k
      BY <1>1
    <3>2. flatten[k + 1] = Then(flatten[k + 1 - 1], seqs[k + 1])
      BY <2>1, <3>1
    <3>3. QED
      BY <3>1, <3>2
  <2>4. QED
    BY <2>1, <2>2, <2>3
<1>8. upto[n] = flatten[n + 1]
  BY <1>1
<1> HIDE DEF upto
<1>9. \A k \in 0 .. n : upto[k] = f[k]
  <2>1. Alike(n, upto, f)
    BY <1>4, <1>7 DEF Alike
  <2>2. n \in Nat
    BY <1>1
  <2>3. QED
    BY <2>1, <2>2, OneSolution
<1>10. f[n] = FlattenSeq(seqs)
  <2>1. n \in 0 .. n
    BY <1>1
  <2>2. QED
    BY <1>6, <1>8, <1>9, <2>1
<1>11. QED
  BY <1>4, <1>10 DEF n

\* Letter j of fragment i stands behind i - 1 fragments.
LEMMA FragmentsAre ==
    ASSUME NEW pk \in PublicKey, NEW body,
           body = FlattenSeq([i \in 1 .. Fragments |-> Digits(pk[i], FragmentLetters)])
    PROVE  /\ body \in Seq(Letter) /\ Len(body) = FragmentLetters * Fragments
           /\ \A i \in 1 .. Fragments, j \in 1 .. FragmentLetters :
                  body[FragmentLetters * (i - 1) + j] = Digits(pk[i], FragmentLetters)[j]
<1> DEFINE L == FragmentLetters
           seqs == [i \in 1 .. Fragments |-> Digits(pk[i], L)]
           last == Fragments - 1
<1>1. L \in Nat /\ L >= 1 /\ last \in Nat /\ Fragments = last + 1
  BY LetterSizes
<1>2. \A i \in 1 .. Fragments : pk[i] \in Nat
  BY LetterSizes DEF PublicKey
<1>3. /\ seqs \in Seq(Seq(Letter)) /\ Len(seqs) = Fragments
      /\ \A i \in 1 .. Fragments : seqs[i] \in Seq(Letter) /\ Len(seqs[i]) = L
  <2>1. \A i \in 1 .. Fragments : Digits(pk[i], L) \in Seq(Letter) /\ Len(Digits(pk[i], L)) = L
    BY <1>1, <1>2, DigitsType
  <2>2. seqs \in [1 .. Fragments -> Seq(Letter)]
    BY <2>1
  <2>3. QED
    BY <1>1, <2>1, <2>2
<1>4. \A i \in 1 .. Fragments : Digits(pk[i], L) = seqs[i]
  OBVIOUS
<1>5. body = FlattenSeq(seqs)
  OBVIOUS
<1> HIDE DEF L, seqs, last
<1>6. PICK upto \in [0 .. last -> Seq(Letter)] :
          /\ upto[0] = seqs[1]
          /\ \A k \in 1 .. last : upto[k] = Then(upto[k - 1], seqs[k + 1])
          /\ FlattenSeq(seqs) = upto[last]
  <2>1. Len(seqs) # 0 /\ Len(seqs) - 1 = last
    BY <1>1, <1>3
  <2>2. QED
    BY <1>3, <2>1, Flattened
<1> DEFINE Placed(k) ==
               /\ Len(upto[k]) = L * (k + 1)
               /\ \A i \in 1 .. k + 1, j \in 1 .. L : upto[k][L * (i - 1) + j] = seqs[i][j]
<1>7. Placed(0)
  <2>1. 1 \in 1 .. Fragments /\ L * (0 + 1) = L /\ L * (1 - 1) = 0
    BY <1>1
  <2>2. Len(upto[0]) = L
    BY <1>3, <1>6, <2>1
  <2>3. ASSUME NEW i \in 1 .. 0 + 1, NEW j \in 1 .. L
        PROVE  upto[0][L * (i - 1) + j] = seqs[i][j]
    <3>1. i = 1 /\ L * (i - 1) + j = j
      BY <1>1
    <3>2. QED
      BY <1>6, <3>1
  <2>4. QED
    BY <2>1, <2>2, <2>3
<1>8. ASSUME NEW k \in 0 .. last - 1, Placed(k)
      PROVE  Placed(k + 1)
  <2> DEFINE u == upto[k]  w == seqs[k + 2]
  <2>1. /\ k + 1 \in 1 .. last /\ k + 1 - 1 = k /\ k + 1 + 1 = k + 2 /\ k \in 0 .. last
        /\ k + 2 \in 1 .. Fragments /\ k \in Nat
    BY <1>1
  <2>2. upto[k + 1] = Then(u, w)
    BY <1>6, <2>1
  <2>3. u \in Seq(Letter) /\ w \in Seq(Letter) /\ Len(w) = L
    BY <1>3, <1>6, <2>1
  <2> DEFINE n == L * (k + 1)
  <2>4. Len(u) = n /\ \A i \in 1 .. k + 1, j \in 1 .. L : u[L * (i - 1) + j] = seqs[i][j]
    BY <1>8
  <2>5. n \in Nat /\ L * (k + 2) = n + L
    BY <1>1, <2>1
  <2>6. \A i \in 1 .. k + 1 : L * (i - 1) \in Nat /\ L * (i - 1) + L <= n
    <3>1. \A i \in 1 .. k + 1 : i - 1 \in Nat /\ k + 1 \in Nat /\ i - 1 < k + 1
      BY <2>1
    <3>2. QED
      BY <1>1, <3>1, Multiples
  <2> HIDE DEF u, w, n
  <2>7. /\ Len(Then(u, w)) = n + L
        /\ \A x \in 1 .. n + L : Then(u, w)[x] = IF x <= n THEN u[x] ELSE w[x - n]
    BY <2>3, <2>4, ConcatProperties DEF Then
  <2>8. ASSUME NEW i \in 1 .. k + 2, NEW j \in 1 .. L
        PROVE  Then(u, w)[L * (i - 1) + j] = seqs[i][j]
    <3> DEFINE before == L * (i - 1)
    <3>1. CASE i \in 1 .. k + 1
      <4>1. before \in Nat /\ before + L <= n
        BY <2>6, <3>1
      <4>2. u[before + j] = seqs[i][j]
        BY <2>4, <3>1
      <4> HIDE DEF before
      <4>3. before + j \in 1 .. n + L /\ before + j <= n
        BY <1>1, <2>5, <4>1
      <4>4. Then(u, w)[before + j] = seqs[i][j]
        BY <2>7, <4>2, <4>3
      <4>5. QED
        BY <4>4 DEF before
    <3>2. CASE i = k + 2
      <4>1. i - 1 = k + 1
        BY <2>1, <3>2
      <4>2. before = n
        BY <4>1 DEF n
      <4> HIDE DEF before
      <4> DEFINE x == n + j
      <4>3. x \in 1 .. n + L /\ ~(x <= n) /\ x - n = j
        BY <1>1, <2>5
      <4> HIDE DEF x
      <4>4. Then(u, w)[x] = w[j]
        BY <2>7, <4>3
      <4> USE DEF x
      <4>5. QED
        BY <3>2, <4>2, <4>4 DEF before, w
    <3>3. QED
      BY <2>1, <3>1, <3>2
  <2>9. QED
    BY <2>1, <2>2, <2>5, <2>7, <2>8
<1> DEFINE Done == {k \in 0 .. last : Placed(k)}
<1>9. 0 \in Done /\ \A k \in 0 .. last - 1 : k \in Done => k + 1 \in Done
  <2> HIDE DEF Placed
  <2>1. 0 \in 0 .. last /\ \A k \in 0 .. last - 1 : k + 1 \in 0 .. last
    BY <1>1
  <2>2. QED
    BY <1>7, <1>8, <2>1
<1>10. Placed(last)
  <2> HIDE DEF Placed
  <2>1. last \in Done
    <3> HIDE DEF Done
    <3>1. last \in 0 .. last
      BY <1>1
    <3>2. QED
      BY <1>1, <1>9, <3>1, UpTo
  <2>2. QED
    BY <2>1
<1>11. upto[last] \in Seq(Letter)
  BY <1>1, <1>6
<1>12. /\ body \in Seq(Letter) /\ Len(body) = L * Fragments
       /\ \A i \in 1 .. Fragments, j \in 1 .. L :
              body[L * (i - 1) + j] = Digits(pk[i], L)[j]
  <2>1. body = upto[last]
    BY <1>5, <1>6
  <2> HIDE DEF Placed
  <2>2. Placed(last)
    BY <1>10
  <2>3. /\ Len(body) = L * Fragments
        /\ \A i \in 1 .. Fragments, j \in 1 .. L : body[L * (i - 1) + j] = seqs[i][j]
    BY <1>1, <2>1, <2>2, Zenon DEF Placed
  <2>4. QED
    BY <1>4, <1>11, <2>1, <2>3, Zenon
<1>13. QED
  BY <1>12 DEF L

\* The identity: the fragments' letters and those of the checksum behind them.
LEMMA IdentityIs ==
    ASSUME NEW pk \in PublicKey, NEW id, id = pubkey_to_identity(pk)
    PROVE  /\ id \in Seq(Letter)
           /\ Len(id) = FragmentLetters * Fragments + ChecksumLetters
           /\ \A i \in 1 .. Fragments, j \in 1 .. FragmentLetters :
                  id[FragmentLetters * (i - 1) + j] = Digits(pk[i], FragmentLetters)[j]
           /\ \A j \in 1 .. ChecksumLetters :
                  id[FragmentLetters * Fragments + j]
                      = Digits(Checksum(pk) % ChecksumModulus, ChecksumLetters)[j]
<1> DEFINE L == FragmentLetters
           u == FlattenSeq([i \in 1 .. Fragments |-> Digits(pk[i], FragmentLetters)])
           w == Digits(Checksum(pk) % ChecksumModulus, ChecksumLetters)
           n == L * Fragments
<1>1. id = Then(u, w)
  BY DEF pubkey_to_identity, Then
<1>2. /\ u \in Seq(Letter) /\ Len(u) = n
      /\ \A i \in 1 .. Fragments, j \in 1 .. L : u[L * (i - 1) + j] = Digits(pk[i], L)[j]
  <2> HIDE DEF u
  <2>1. u = FlattenSeq([i \in 1 .. Fragments |-> Digits(pk[i], FragmentLetters)])
    BY DEF u
  <2>2. QED
    BY <2>1, FragmentsAre
<1>3. w \in Seq(Letter) /\ Len(w) = ChecksumLetters
  <2>1. Checksum(pk) \in Nat /\ ChecksumModulus \in Nat /\ ChecksumModulus > 0
        /\ ChecksumLetters \in Nat
    BY LetterSizes, IdentityAssumption
  <2>2. Checksum(pk) % ChecksumModulus \in Nat
    BY <2>1, DivMod
  <2>3. QED
    BY <2>1, <2>2, DigitsType
<1>4. L \in Nat /\ Fragments \in Nat /\ ChecksumLetters \in Nat /\ n \in Nat
  BY LetterSizes
<1>5. \A i \in 1 .. Fragments : L * (i - 1) \in Nat /\ L * (i - 1) + L <= n
  <2>1. \A i \in 1 .. Fragments : i - 1 \in Nat /\ i - 1 < Fragments
    BY <1>4
  <2>2. QED
    BY <1>4, <2>1, Multiples
<1> HIDE DEF u, w, L, n
<1>6. /\ Then(u, w) \in Seq(Letter) /\ Len(Then(u, w)) = n + ChecksumLetters
      /\ \A x \in 1 .. n + ChecksumLetters : Then(u, w)[x] = IF x <= n THEN u[x] ELSE w[x - n]
  BY <1>2, <1>3, ConcatProperties DEF Then
<1>7. ASSUME NEW i \in 1 .. Fragments, NEW j \in 1 .. L
      PROVE  id[L * (i - 1) + j] = Digits(pk[i], L)[j]
  <2> DEFINE before == L * (i - 1)
  <2>1. before \in Nat /\ before + L <= n
    BY <1>5
  <2>2. u[before + j] = Digits(pk[i], L)[j]
    BY <1>2
  <2> HIDE DEF before
  <2>3. before + j \in 1 .. n + ChecksumLetters /\ before + j <= n
    BY <1>4, <2>1
  <2>4. id[before + j] = Digits(pk[i], L)[j]
    BY <1>1, <1>6, <2>2, <2>3
  <2>5. QED
    BY <2>4 DEF before
<1>8. ASSUME NEW j \in 1 .. ChecksumLetters PROVE id[n + j] = w[j]
  <2> DEFINE x == n + j
  <2>1. x \in 1 .. n + ChecksumLetters /\ ~(x <= n) /\ x - n = j
    BY <1>4
  <2> HIDE DEF x
  <2>2. id[x] = w[j]
    BY <1>1, <1>6, <2>1
  <2>3. QED
    BY <2>2 DEF x
<1>9. QED
  BY <1>1, <1>6, <1>7, <1>8 DEF L, n, w

\* The reference counts its letters where the guest's build appends them.
LEMMA PrintedIs ==
    ASSUME NEW pk \in PublicKey
    PROVE  getIdentity(pk) = pubkey_to_identity(pk)
<1> DEFINE L == FragmentLetters
           id == pubkey_to_identity(pk)
           n == Fragments * L
           check == Digits(Checksum(pk) % ChecksumModulus, ChecksumLetters)
           letter(k) == IF k <= n
                        THEN Digits(pk[((k - 1) \div L) + 1], L)[((k - 1) % L) + 1]
                        ELSE check[k - n]
<1>1. /\ id \in Seq(Letter) /\ Len(id) = L * Fragments + ChecksumLetters
      /\ \A i \in 1 .. Fragments, j \in 1 .. L : id[L * (i - 1) + j] = Digits(pk[i], L)[j]
      /\ \A j \in 1 .. ChecksumLetters : id[L * Fragments + j] = check[j]
  <2> HIDE DEF id
  <2>1. id = pubkey_to_identity(pk)
    BY DEF id
  <2>2. QED
    BY <2>1, IdentityIs
<1>2. /\ L \in Nat /\ L > 0 /\ Fragments \in Nat /\ ChecksumLetters \in Nat
      /\ n \in Nat /\ n = L * Fragments
  BY LetterSizes
<1>3. getIdentity(pk) = [k \in 1 .. n + ChecksumLetters |-> letter(k)]
  BY DEF getIdentity
<1> HIDE DEF id, check, n
<1>4. ASSUME NEW k \in 1 .. n + ChecksumLetters PROVE letter(k) = id[k]
  <2>1. CASE k <= n
    <3> DEFINE q == (k - 1) \div L  r == (k - 1) % L
    <3>1. k - 1 \in Nat
      OBVIOUS
    <3>2. q \in Nat /\ r \in Nat /\ r < L /\ k - 1 = L * q + r
      BY <1>2, <3>1, DivMod
    <3>3. letter(k) = Digits(pk[q + 1], L)[r + 1]
      BY <2>1
    <3> HIDE DEF q, r
    <3> DEFINE low == L * q
    <3>4. low \in Nat /\ (Fragments <= q => n <= low)
      BY <1>2, <3>2, Multiples
    <3>5. k - 1 = low + r
      BY <3>2
    <3> HIDE DEF low
    <3>6. q < Fragments
      BY <1>2, <2>1, <3>2, <3>4, <3>5
    <3> DEFINE i == q + 1  j == r + 1
    <3>7. i \in 1 .. Fragments /\ j \in 1 .. L /\ i - 1 = q /\ low + j = k
      BY <1>2, <3>2, <3>4, <3>5, <3>6
    <3>8. letter(k) = Digits(pk[i], L)[j]
      BY <3>3
    <3> HIDE DEF i, j
    <3>9. id[L * (i - 1) + j] = Digits(pk[i], L)[j]
      BY <1>1, <3>7
    <3>10. QED
      BY <3>7, <3>8, <3>9 DEF low
  <2>2. CASE ~(k <= n)
    <3>1. k - n \in 1 .. ChecksumLetters /\ n + (k - n) = k
      BY <1>2, <2>2
    <3>2. id[n + (k - n)] = check[k - n]
      <4> DEFINE j == k - n
      <4> HIDE DEF j
      <4>1. j \in 1 .. ChecksumLetters
        BY <3>1 DEF j
      <4>2. id[n + j] = check[j]
        BY <1>1, <1>2, <4>1
      <4>3. QED
        BY <4>2 DEF j
    <3>3. QED
      BY <2>2, <3>1, <3>2
  <2>3. QED
    BY <2>1, <2>2
<1>5. id = [k \in 1 .. n + ChecksumLetters |-> id[k]]
  BY <1>1, <1>2
<1>6. getIdentity(pk) = id
  BY <1>3, <1>4, <1>5
<1>7. QED
  BY <1>6 DEF id

LEMMA PrintedIsWellFormed ==
    ASSUME NEW pk \in PublicKey
    PROVE  WellFormed(pubkey_to_identity(pk))
<1> DEFINE id == pubkey_to_identity(pk)
<1> HIDE DEF id
<1>1. id = pubkey_to_identity(pk)
  BY DEF id
<1>2. id \in Seq(Letter) /\ Len(id) = FragmentLetters * Fragments + ChecksumLetters
  BY <1>1, IdentityIs
<1>3. Len(id) = Fragments * FragmentLetters + ChecksumLetters
  BY <1>2, LetterSizes
<1>4. Range(id) \subseteq Letter
  <2>1. \A k \in DOMAIN id : id[k] \in Letter
    BY <1>2
  <2>2. QED
    BY <2>1 DEF Range
<1>5. QED
  BY <1>3, <1>4 DEF WellFormed, Letter, id

\* What the letters of fragment i amount to, last one first.
Gathered(id, i) ==
    LET frag[n \in 0 .. FragmentLetters] ==
            IF n = 0 THEN 0
            ELSE (frag[n - 1] * Alphabet + id[i * FragmentLetters - n + 1]) % FragmentModulus
    IN  frag[FragmentLetters]

Gathers(id, i, f) ==
    /\ f[0] = 0 /\ f = [n \in 0 .. FragmentLetters |-> f[n]]
    /\ \A n \in 1 .. FragmentLetters :
           f[n] = (f[n - 1] * Alphabet + id[i * FragmentLetters - n + 1]) % FragmentModulus

LEMMA GatheredIs ==
    ASSUME NEW id, NEW i, NEW f, Gathers(id, i, f)
    PROVE  Gathered(id, i) = f[FragmentLetters]
<1> DEFINE L == FragmentLetters
           Next(x, n) == (x * Alphabet + id[i * L - n + 1]) % FragmentModulus
           frag[n \in 0 .. L] == IF n = 0 THEN 0 ELSE Next(frag[n - 1], n)
<1>1. L \in Nat /\ L \in 0 .. L
  BY LetterSizes
<1>2. /\ f[0] = 0 /\ f = [n \in 0 .. L |-> f[n]]
      /\ \A n \in 1 .. L : f[n] = Next(f[n - 1], n)
  BY DEF Gathers
<1>3. Gathered(id, i) = frag[L]
  BY DEF Gathered
<1> HIDE DEF Next, L
<1>4. frag = [n \in 0 .. L |-> IF n = 0 THEN 0 ELSE Next(frag[n - 1], n)]
  <2>1. \A n \in 0 .. L : f[n] = IF n = 0 THEN 0 ELSE Next(f[n - 1], n)
    <3>1. \A n \in 0 .. L : n = 0 \/ n \in 1 .. L
      BY <1>1
    <3>2. QED
      BY <1>2, <3>1
  <2>2. f = [n \in 0 .. L |-> IF n = 0 THEN 0 ELSE Next(f[n - 1], n)]
    BY <1>2, <2>1
  <2>3. QED
    BY <2>2
<1> HIDE DEF frag
<1>5. frag[0] = 0 /\ \A n \in 1 .. L : frag[n] = Next(frag[n - 1], n)
  <2>1. \A n \in 0 .. L : frag[n] = IF n = 0 THEN 0 ELSE Next(frag[n - 1], n)
    BY <1>4
  <2>2. 0 \in 0 .. L /\ \A n \in 1 .. L : n \in 0 .. L /\ n # 0
    BY <1>1
  <2>3. QED
    BY <2>1, <2>2
<1>6. \A n \in 0 .. L : frag[n] = f[n]
  <2>1. Alike(L, frag, f)
    BY <1>2, <1>5 DEF Alike
  <2>2. L \in Nat
    BY <1>1
  <2>3. QED
    BY <2>1, <2>2, OneSolution
<1>7. QED
  BY <1>1, <1>3, <1>6 DEF L

\* No step of the decoding passes the fragment, which fits 64 bits.
LEMMA FragmentBack ==
    ASSUME NEW pk \in PublicKey, NEW i \in 1 .. Fragments
    PROVE  Gathered(pubkey_to_identity(pk), i) = pk[i]
<1> DEFINE L == FragmentLetters
           id == pubkey_to_identity(pk)
           v == pk[i]
           M == FragmentModulus
<1>1. /\ L \in Nat /\ L >= 1 /\ Alphabet \in Nat /\ Alphabet > 0 /\ M \in Nat
      /\ v \in Nat /\ v < M /\ v < Texts(L)
  <2>1. v \in 0 .. M - 1
    BY DEF PublicKey
  <2>2. L \in Nat /\ M \in Nat /\ M <= Texts(L) /\ Texts(L) \in Nat
    BY LetterSizes, TextsAre
  <2>3. QED
    BY <2>1, <2>2, LetterSizes
<1>2. \A j \in 1 .. L : id[L * (i - 1) + j] = Digits(v, L)[j]
  <2> HIDE DEF id
  <2>1. id = pubkey_to_identity(pk)
    BY DEF id
  <2>2. QED
    BY <2>1, IdentityIs
<1> HIDE DEF L, id, v, M
<1>3. PICK rest \in [0 .. L -> Nat] :
          /\ rest[0] = v /\ \A k \in 1 .. L : rest[k] = rest[k - 1] \div Alphabet
          /\ Digits(v, L) = [k \in 1 .. L |-> rest[k - 1] % Alphabet]
          /\ v < Texts(L) => rest[L] = 0
  BY <1>1, DigitsAre
<1>4. \A k \in 0 .. L : rest[k] < M
  <2> DEFINE Below == {k \in 0 .. L : rest[k] < M}
  <2>1. ASSUME NEW k \in 0 .. L - 1, rest[k] < M
        PROVE  k + 1 \in 0 .. L /\ rest[k + 1] < M
    <3>1. k + 1 \in 1 .. L /\ k + 1 - 1 = k /\ k + 1 \in 0 .. L /\ k \in 0 .. L
      BY <1>1
    <3> DEFINE x == rest[k]  y == rest[k + 1]
    <3>2. x \in Nat /\ y = x \div Alphabet /\ x < M
      BY <1>3, <2>1, <3>1
    <3> HIDE DEF x, y
    <3>3. y \in Nat /\ x = Alphabet * y + (x % Alphabet) /\ x % Alphabet \in Nat
      BY <1>1, <3>2, DivMod
    <3>4. Alphabet * y >= y
      BY <1>1, <3>3
    <3>5. y <= x
      <4> DEFINE low == Alphabet * y  d == x % Alphabet
      <4>1. low \in Nat /\ low >= y /\ d \in Nat /\ x = low + d
        BY <1>1, <3>3, <3>4
      <4> HIDE DEF low, d
      <4>2. QED
        BY <3>2, <3>3, <4>1
    <3>6. y < M
      BY <1>1, <3>2, <3>3, <3>5
    <3>7. QED
      BY <3>1, <3>6 DEF y
  <2>2. 0 \in Below /\ \A k \in 0 .. L - 1 : k \in Below => k + 1 \in Below
    BY <1>1, <1>3, <2>1
  <2> HIDE DEF Below
  <2>3. \A k \in 0 .. L : k \in Below
    BY <1>1, <2>2, UpTo
  <2>4. QED
    BY <2>3 DEF Below
<1> DEFINE f == [n \in 0 .. L |-> rest[L - n]]
           Next(x, n) == (x * Alphabet + id[i * L - n + 1]) % M
<1>5. f[0] = 0 /\ \A n \in 1 .. L : f[n] = Next(f[n - 1], n)
  <2>1. f[0] = 0
    BY <1>1, <1>3
  <2>2. ASSUME NEW n \in 1 .. L PROVE f[n] = Next(f[n - 1], n)
    <3> DEFINE k == L - n
    <3>1. /\ n \in 0 .. L /\ n - 1 \in 0 .. L /\ k \in 0 .. L /\ k + 1 \in 1 .. L
          /\ k + 1 - 1 = k /\ L - (n - 1) = k + 1
      BY <1>1
    <3> DEFINE x == rest[k]  y == rest[k + 1]
    <3>2. f[n] = x /\ f[n - 1] = y
      BY <3>1
    <3>3. x \in Nat /\ x < M /\ y = x \div Alphabet
      BY <1>3, <1>4, <3>1
    <3>4. id[i * L - n + 1] = x % Alphabet
      <4>1. L * (i - 1) + (k + 1) = i * L - n + 1
        <5>1. i \in Int /\ n \in Int
          OBVIOUS
        <5>2. QED
          BY <1>1, <5>1
      <4>2. id[L * (i - 1) + (k + 1)] = Digits(v, L)[k + 1]
        BY <1>2, <3>1
      <4>3. Digits(v, L)[k + 1] = rest[k + 1 - 1] % Alphabet
        BY <1>3, <3>1
      <4>4. QED
        BY <3>1, <4>1, <4>2, <4>3
    <3> HIDE DEF x, y, f
    <3>5. y * Alphabet + (x % Alphabet) = x
      <4>1. y \in Nat /\ x = Alphabet * y + (x % Alphabet)
        BY <1>1, <3>3, DivMod
      <4>2. Alphabet * y = y * Alphabet
        BY <1>1, <4>1
      <4>3. QED
        BY <4>1, <4>2
    <3>6. x % M = x
      BY <1>1, <3>3
    <3>7. QED
      BY <3>2, <3>4, <3>5, <3>6
  <2>3. QED
    BY <2>1, <2>2
<1>6. f[L] = v
  BY <1>1, <1>3
<1>7. f = [n \in 0 .. L |-> f[n]]
  OBVIOUS
<1> HIDE DEF f
<1>8. Gathered(id, i) = f[L]
  <2>1. Gathers(id, i, f)
    BY <1>5, <1>7 DEF L, M, Gathers
  <2>2. QED
    BY <2>1, GatheredIs DEF L
<1>9. QED
  BY <1>6, <1>8 DEF v, id

LEMMA KeyBack ==
    ASSUME NEW pk \in PublicKey
    PROVE  KeyOf(pubkey_to_identity(pk)) = pk
<1> DEFINE id == pubkey_to_identity(pk)
<1>1. KeyOf(id) = [i \in 1 .. Fragments |-> Gathered(id, i)]
  BY DEF KeyOf, Gathered
<1>2. \A i \in 1 .. Fragments : Gathered(id, i) = pk[i]
  BY FragmentBack
<1>3. pk = [i \in 1 .. Fragments |-> pk[i]]
  BY DEF PublicKey
<1>4. QED
  BY <1>1, <1>2, <1>3

-----------------------------------------------------------------------------
(* The two readers of the file.                                            *)

Text == Seq(0 .. Alphabet)

Line == [form : Forms, text : Text]

\* A line that names the arbitrator, once the script is past it.
ReadLine(k) == k \in DOMAIN lines /\ k < next /\ k <= Complete /\ Matches(lines[k])

\* The only line, and nothing wrong with it.
Alone ==
    /\ Len(lines) = 1 /\ terminated /\ exported = {}
    /\ lines[1].form = "plain" /\ WellFormed(lines[1].text)

IdentityTypeOK ==
    /\ lines \in Seq(Line) /\ terminated \in BOOLEAN
    /\ next \in Nat \ {0} /\ script \in {"reading", "stopped", "loaded"}

\* The script holds what each line it has read says, or what was exported; what it has
\* loaded is well formed; what is baked is what the file says, whenever it was read.
IdentityInv ==
    /\ IdentityTypeOK
    /\ \A k \in Nat : ReadLine(k) => value = {ShellValue(lines[k])}
    /\ (\A k \in Nat : ~ ReadLine(k)) => value = exported
    /\ script = "loaded" => next > Complete /\ \E id \in value : WellFormed(id)
    /\ baked = {} \/ baked = arbitrator_from_config
    /\ Alone => script # "stopped"

LEMMA LeastExists ==
    ASSUME NEW S \in SUBSET Nat, S # {}
    PROVE  Min(S) \in S
<1>1. PICK x \in S : \A y \in S : <<y, x>> \notin OpToRel(<, Nat)
  BY NatLessThanWellFounded, WFMin
<1>2. \A y \in S : ~ (y < x)
  BY <1>1, Zenon DEF OpToRel
<1>3. \A y \in S : x =< y
  BY <1>2
<1>4. QED
  BY <1>3 DEF Min

\* What is printed for a key is read as that key.
LEMMA PrintedIsRead ==
    ASSUME NEW pk \in PublicKey
    PROVE  identity_to_pubkey(pubkey_to_identity(pk)) = {pk}
<1>1. WellFormed(pubkey_to_identity(pk)) /\ KeyOf(pubkey_to_identity(pk)) = pk
  BY PrintedIsWellFormed, KeyBack
<1>2. QED
  BY <1>1 DEF identity_to_pubkey, Confirmed

\* A key that is read is one whose identity is the text.
LEMMA ReadIsPrinted ==
    ASSUME NEW id, identity_to_pubkey(id) # {}
    PROVE  {pubkey_to_identity(pk) : pk \in identity_to_pubkey(id)} = {id}
<1> DEFINE read == KeyOf(id)
<1> HIDE DEF read
<1>1. identity_to_pubkey(id) \subseteq {read} /\ \A pk \in identity_to_pubkey(id) : Confirmed(id, pk)
  BY DEF identity_to_pubkey, read
<1>2. \A pk \in identity_to_pubkey(id) : pubkey_to_identity(pk) = id
  BY <1>1 DEF Confirmed
<1>3. QED
  BY <1>2

\* Where the script's reading differs from the build's, it is no identity.
LEMMA ShellValueIs ==
    ASSUME NEW line \in Line
    PROVE  /\ WellFormed(ShellValue(line)) => ShellValue(line) = line.text
           /\ line.form = "plain" => ShellValue(line) = line.text
<1>1. CASE line.form \in {"plain", "noted"}
  BY <1>1 DEF ShellValue
<1>2. CASE line.form \notin {"plain", "noted"}
  <2> DEFINE blank == <<Alphabet>>  text == line.text
  <2>1. blank \in Seq(0 .. Alphabet) /\ Len(blank) = 1 /\ blank[1] = Alphabet /\ text \in Seq(0 .. Alphabet)
    BY LetterSizes DEF Line, Text
  <2>2. ShellValue(line) = Then(blank, text)
    BY <1>2 DEF ShellValue, Then
  <2> HIDE DEF blank, text
  <2>3. Then(blank, text) \in Seq(0 .. Alphabet) /\ Len(Then(blank, text)) >= 1 /\ Then(blank, text)[1] = Alphabet
    <3>1. Len(text) \in Nat
      BY <2>1
    <3>2. QED
      BY <2>1, <3>1, ConcatProperties DEF Then
  <2> DEFINE v == Then(blank, text)
  <2>4. Alphabet \in Range(v)
    <3>1. 1 \in DOMAIN v /\ v[1] = Alphabet
      BY <2>3
    <3>2. QED
      BY <3>1, Zenon DEF Range
  <2>5. Alphabet \notin 0 .. Alphabet - 1
    BY LetterSizes
  <2> HIDE DEF v
  <2>6. ~ WellFormed(v)
    BY <2>4, <2>5 DEF WellFormed
  <2>7. QED
    BY <1>2, <2>2, <2>6 DEF v
<1>3. QED
  BY <1>1, <1>2

LEMMA CompleteIs ==
    ASSUME IdentityTypeOK
    PROVE  /\ Len(lines) \in Nat /\ DOMAIN lines = 1 .. Len(lines)
           /\ Complete \in Int /\ Complete <= Len(lines)
           /\ terminated => Complete = Len(lines)
           /\ \A k \in 1 .. Len(lines) : lines[k] \in Line
BY DEF IdentityTypeOK, Complete

LEMMA IdentityInitial == IdentityInit => IdentityInv
<1> SUFFICES ASSUME IdentityInit PROVE IdentityInv
  OBVIOUS
<1>1. IdentityTypeOK
  <2>1. Files \subseteq Seq(Line)
    BY IdentityAssumption, Zenon DEF Line, Text
  <2>2. lines \in Seq(Line)
    BY <2>1 DEF IdentityInit
  <2>3. QED
    BY <2>2 DEF IdentityInit, IdentityTypeOK
<1>2. \A k \in Nat : ~ ReadLine(k)
  <2>1. next = 1 /\ \A k \in DOMAIN lines : ~ (k < 1)
    BY <1>1, CompleteIs DEF IdentityInit
  <2>2. QED
    BY <2>1 DEF ReadLine
<1>3. QED
  BY <1>1, <1>2 DEF IdentityInit, IdentityInv

LEMMA LineRead ==
    ASSUME IdentityInv, ReadConfigLine
    PROVE  IdentityInv'
<1> DEFINE line == lines[next]
<1>1. /\ script = "reading" /\ next <= Complete
      /\ lines' = lines /\ terminated' = terminated /\ exported' = exported /\ baked' = baked
  BY DEF ReadConfigLine
<1>2. IdentityTypeOK /\ next \in Nat \ {0} /\ next \in DOMAIN lines /\ line \in Line
  BY <1>1, CompleteIs DEF IdentityInv, IdentityTypeOK
<1>3. Complete' = Complete /\ arbitrator_from_config' = arbitrator_from_config
  BY <1>1 DEF Complete, arbitrator_from_config
<1>4. baked' = {} \/ baked' = arbitrator_from_config'
  BY <1>1, <1>3 DEF IdentityInv
<1>5. Alone' = Alone
  BY <1>1 DEF Alone
<1>6. CASE Stops
  <2>1. script' = "stopped" /\ value' = value /\ next' = next
    BY <1>6 DEF Stops
  <2>2. \A k \in Nat : ReadLine(k)' = ReadLine(k)
    BY <1>1, <1>3, <2>1 DEF ReadLine
  <2>3. IdentityTypeOK'
    BY <1>1, <1>2, <2>1 DEF IdentityTypeOK
  <2>4. ~ Alone
    <3>1. SUFFICES ASSUME Alone PROVE FALSE
      OBVIOUS
    <3>2. next = 1 /\ line.form = "plain"
      BY <1>1, <1>2, <3>1, CompleteIs DEF Alone
    <3>3. \A k \in Nat : ~ ReadLine(k)
      BY <1>2, <3>2, CompleteIs DEF ReadLine
    <3>4. value = {}
      BY <3>1, <3>3 DEF IdentityInv, Alone
    <3>5. next' = next + 1
      BY <3>2, <3>4 DEF ReadConfigLine, Continues, Stops
    <3>6. QED
      BY <1>2, <2>1, <3>5
  <2>5. QED
    BY <1>1, <1>4, <1>5, <2>1, <2>2, <2>3, <2>4 DEF IdentityInv
<1>7. CASE line.form = "comment" /\ Continues(value)
  <2>1. script' = script /\ value' = value /\ next' = next + 1
    BY <1>7 DEF Continues
  <2>2. ~ Matches(line)
    BY <1>7 DEF Matches
  <2>3. \A k \in Nat : ReadLine(k)' = ReadLine(k)
    <3>1. \A k \in Nat : k < next' <=> (k < next \/ k = next)
      BY <1>2, <2>1
    <3>2. \A k \in Nat : k = next => ~ ReadLine(k)' /\ ~ ReadLine(k)
      BY <1>1, <2>2 DEF ReadLine, Matches
    <3>3. QED
      BY <1>1, <1>3, <3>1, <3>2 DEF ReadLine, Matches
  <2>4. IdentityTypeOK'
    BY <1>1, <1>2, <2>1 DEF IdentityTypeOK
  <2>5. QED
    BY <1>1, <1>4, <1>5, <2>1, <2>3, <2>4 DEF IdentityInv
<1>8. CASE /\ line.form \notin {"comment", "apart"} /\ value \subseteq {ShellValue(line)}
           /\ Continues({ShellValue(line)})
  <2>1. script' = script /\ value' = {ShellValue(line)} /\ next' = next + 1
    BY <1>8 DEF Continues
  <2>2. \A k \in Nat : k = next => ReadLine(k)'
    BY <1>1, <1>2, <1>3, <1>8, <2>1 DEF ReadLine, Matches
  <2>3. ASSUME NEW k \in Nat, ReadLine(k)'
        PROVE  value' = {ShellValue(lines[k])'}
    <3>1. k = next \/ ReadLine(k)
      BY <1>1, <1>2, <1>3, <2>1, <2>3 DEF ReadLine, Matches
    <3>2. ShellValue(lines[k])' = ShellValue(lines[k])
      BY <1>1 DEF ShellValue
    <3>3. CASE k = next
      BY <2>1, <3>2, <3>3
    <3>4. CASE ReadLine(k)
      <4>1. value = {ShellValue(lines[k])}
        BY <3>4 DEF IdentityInv
      <4>2. QED
        BY <1>8, <2>1, <3>2, <4>1
    <3>5. QED
      BY <3>1, <3>3, <3>4
  <2>4. IdentityTypeOK'
    BY <1>1, <1>2, <2>1 DEF IdentityTypeOK
  <2>5. next \in Nat
    BY <1>2
  <2>6. QED
    BY <1>1, <1>4, <2>1, <2>2, <2>3, <2>4, <2>5 DEF IdentityInv
<1>9. QED
  BY <1>6, <1>7, <1>8 DEF ReadConfigLine

LEMMA ValueValidated ==
    ASSUME IdentityInv, Validate
    PROVE  IdentityInv'
<1>1. /\ script = "reading" /\ next > Complete
      /\ script' = IF \E id \in value : WellFormed(id) THEN "loaded" ELSE "stopped"
      /\ lines' = lines /\ terminated' = terminated /\ exported' = exported /\ baked' = baked
      /\ value' = value /\ next' = next
  BY DEF Validate
<1>2. Complete' = Complete /\ arbitrator_from_config' = arbitrator_from_config /\ Alone' = Alone
  BY <1>1 DEF Complete, arbitrator_from_config, Alone
<1>3. \A k \in Nat : ReadLine(k)' = ReadLine(k)
  BY <1>1, <1>2 DEF ReadLine
<1>4. IdentityTypeOK'
  BY <1>1 DEF IdentityInv, IdentityTypeOK
<1>5. Alone => script' # "stopped"
  <2>1. SUFFICES ASSUME Alone PROVE \E id \in value : WellFormed(id)
    BY <1>1
  <2>2. ReadLine(1)
    BY <1>1, <2>1, CompleteIs DEF IdentityInv, IdentityTypeOK, Alone, ReadLine, Matches
  <2>3. value = {ShellValue(lines[1])}
    BY <2>2 DEF IdentityInv
  <2>4. ShellValue(lines[1]) = lines[1].text
    BY <2>1, ShellValueIs, CompleteIs DEF IdentityInv, Alone
  <2>5. QED
    BY <2>1, <2>3, <2>4 DEF Alone
<1>6. QED
  BY <1>1, <1>2, <1>3, <1>4, <1>5 DEF IdentityInv

LEMMA KeyBaked ==
    ASSUME IdentityInv, Bake \/ UNCHANGED identityVars
    PROVE  IdentityInv'
<1>1. /\ lines' = lines /\ terminated' = terminated /\ exported' = exported
      /\ value' = value /\ next' = next /\ script' = script
      /\ baked' = baked \/ baked' = arbitrator_from_config
  BY DEF Bake, identityVars
<1>2. Complete' = Complete /\ arbitrator_from_config' = arbitrator_from_config /\ Alone' = Alone
  BY <1>1 DEF Complete, arbitrator_from_config, Alone
<1>3. \A k \in Nat : ReadLine(k)' = ReadLine(k)
  BY <1>1, <1>2 DEF ReadLine
<1>4. IdentityTypeOK'
  BY <1>1 DEF IdentityInv, IdentityTypeOK
<1>5. QED
  BY <1>1, <1>2, <1>3, <1>4 DEF IdentityInv

\* The invariant holds of every run of the scripts and the build, for every file, alphabet,
\* size of the fragments and checksum.
THEOREM IdentityInvariance == IdentitySpec => []IdentityInv
<1>1. IdentityInv /\ [IdentityNext]_identityVars => IdentityInv'
  BY LineRead, ValueValidated, KeyBaked DEF IdentityNext
<1>2. QED
  BY <1>1, IdentityInitial, PTL DEF IdentitySpec

\* The line the build bakes is one the script has read and found well formed.
LEMMA LoadedIsBaked ==
    ASSUME IdentityInv, script = "loaded", baked # {}, terminated \/ exported = {}
    PROVE  value = {pubkey_to_identity(pk) : pk \in baked}
<1> DEFINE found == {k \in DOMAIN lines : Matches(lines[k])}
           first == Min(found)
<1>1. IdentityTypeOK /\ baked = arbitrator_from_config
  BY DEF IdentityInv
<1>2. found # {} /\ baked = identity_to_pubkey(lines[first].text)
  BY <1>1 DEF arbitrator_from_config
<1>3. first \in found
  <2>1. found \in SUBSET Nat
    BY <1>1, CompleteIs
  <2> HIDE DEF found
  <2>2. QED
    BY <1>2, <2>1, LeastExists
<1>4. \A k \in found : first <= k
  <2>1. \E x \in found : \A y \in found : x <= y
    <3>1. found \in SUBSET Nat
      BY <1>1, CompleteIs
    <3> HIDE DEF found
    <3>2. PICK x \in found : \A y \in found : <<y, x>> \notin OpToRel(<, Nat)
      BY <1>2, <3>1, NatLessThanWellFounded, WFMin
    <3>3. \A y \in found : ~ (y < x)
      BY <3>1, <3>2, Zenon DEF OpToRel
    <3>4. QED
      BY <3>1, <3>3
  <2> HIDE DEF found
  <2>2. QED
    BY <2>1 DEF Min
<1> HIDE DEF first
<1>5. first \in DOMAIN lines /\ Matches(lines[first]) /\ first \in Nat /\ lines[first] \in Line
  BY <1>1, <1>3, CompleteIs
<1>6. next > Complete /\ next \in Nat /\ Complete \in Int /\ \E id \in value : WellFormed(id)
  BY <1>1, CompleteIs DEF IdentityInv, IdentityTypeOK
<1>7. first <= Complete
  <2>1. SUFFICES ASSUME ~ (first <= Complete) PROVE FALSE
    OBVIOUS
  <2>2. exported = {}
    BY <1>1, <1>5, <2>1, CompleteIs
  <2>3. \A k \in Nat : ~ ReadLine(k)
    BY <1>4, <1>5, <1>6, <2>1 DEF ReadLine
  <2>4. value = {}
    BY <2>2, <2>3 DEF IdentityInv
  <2>5. QED
    BY <1>6, <2>4
<1>8. value = {ShellValue(lines[first])}
  <2>1. ReadLine(first)
    BY <1>5, <1>6, <1>7 DEF ReadLine
  <2>2. QED
    BY <1>5, <2>1 DEF IdentityInv
<1>9. value = {lines[first].text}
  BY <1>5, <1>6, <1>8, ShellValueIs
<1>10. {pubkey_to_identity(pk) : pk \in baked} = {lines[first].text}
  <2> HIDE DEF found
  <2>1. QED
    BY <1>2, ReadIsPrinted
<1>11. QED
  BY <1>9, <1>10

\* The guest is built for the arbitrator whose identity the scripts show, and what
\* derive_keys prints for a key is an identity that both take for it: for every number of
\* letters, every size of a fragment they can hold, and every checksum.
THEOREM ReadersAgree == IdentitySpec => []BuildAndScriptsAgree
<1>1. ASSUME IdentityInv PROVE BuildAndScriptsAgree
  <2>1. ASSUME Len(lines) = 1, terminated, exported = {}, NEW pk \in PublicKey,
               lines[1] = [form |-> "plain", text |-> Printed[pk]]
        PROVE  script # "stopped" /\ arbitrator_from_config = {pk}
    <3> DEFINE id == pubkey_to_identity(pk)
    <3> HIDE DEF id
    <3>1. lines[1].form = "plain" /\ lines[1].text = id
      <4>1. Printed[pk] = getIdentity(pk)
        BY DEF Printed
      <4>2. QED
        BY <2>1, <4>1, PrintedIs DEF id
    <3>2. WellFormed(id) /\ identity_to_pubkey(id) = {pk}
      BY PrintedIsWellFormed, PrintedIsRead DEF id
    <3>3. script # "stopped"
      BY <1>1, <2>1, <3>1, <3>2 DEF IdentityInv, Alone
    <3>4. {k \in DOMAIN lines : Matches(lines[k])} = {1}
      <4>1. DOMAIN lines = {1}
        BY <1>1, <2>1, CompleteIs DEF IdentityInv
      <4>2. Matches(lines[1])
        BY <3>1 DEF Matches
      <4>3. QED
        BY <4>1, <4>2
    <3>5. Min({1}) = 1
      <4>1. Min({1}) \in {1}
        <5>1. {1} \in SUBSET Nat /\ {1} # {}
          OBVIOUS
        <5>2. QED
          BY <5>1, LeastExists
      <4>2. QED
        BY <4>1
    <3>6. arbitrator_from_config = identity_to_pubkey(lines[1].text)
      BY <3>4, <3>5 DEF arbitrator_from_config
    <3>7. QED
      BY <3>1, <3>2, <3>3, <3>6
  <2>2. QED
    BY <1>1, <2>1, LoadedIsBaked DEF BuildAndScriptsAgree
<1>2. QED
  BY <1>1, IdentityInvariance, PTL
=============================================================================
